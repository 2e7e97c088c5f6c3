-------------------------- MODULE MCEventEnvelope ---------------------------
(* Any two fields of an event at a time are unusual; or the text of a chat *)
(* message is any of up to five characters, with three routes.             *)
EXTENDS EventEnvelope

CONSTANTS h, H, s, sz, sp

Folds == [c \in {h, H, s, sz, sp} |-> IF c = H THEN <<h>> ELSE IF c = sz THEN <<s, s>> ELSE <<c>>]

Haus == Text("haus", FALSE)
Flur == Text("flur", FALSE)

Payload(text) == [text |-> text, contentType |-> "text", system |-> FALSE]
Prompt == Payload(<<h, sp, s>>)

Usual ==
  [room |-> Haus, type |-> Chat, operation |-> Upsert, id |-> Text("id", FALSE),
   objectId |-> Text("object", FALSE), key_id |-> Absent, transmitter |-> Text("user", FALSE),
   transmitterName |-> Text("name", FALSE), schemaVersion |-> "one", revision |-> "one",
   createdAt |-> "time", payload |-> Prompt]

Variants(word) == {Absent, Empty, Text("", TRUE), Text(word, FALSE), Text(word, TRUE)}

Unusual ==
  [room |-> Variants("haus") \cup {Flur},
   type |-> Variants("note") \cup {Text("chat", TRUE)},
   operation |-> Variants("delete"),
   id |-> Variants("id"), objectId |-> Variants("object"), key_id |-> Variants("key"),
   transmitter |-> {Text("user", TRUE)}, transmitterName |-> {Text("user", TRUE), Empty, Absent},
   schemaVersion |-> {"absent", "two", "word"},
   revision |-> {"word", "zero", "three", "many"},
   createdAt |-> {"absent", "unreadable", "inexact", "twice_inexact", "beyond", "vast", "many"},
   payload |-> {NotObject, Payload(<<>>), [Prompt EXCEPT !.contentType = "image"],
                [Prompt EXCEPT !.system = TRUE]}]

OneUnusual == {Usual} \cup UNION {{[Usual EXCEPT ![f] = v] : v \in Unusual[f]} : f \in DOMAIN Usual}

TwoUnusual ==
  UNION {UNION {{[m EXCEPT ![f] = v] : v \in Unusual[f]} : f \in DOMAIN Usual} : m \in OneUnusual}

Chats ==
  {[Usual EXCEPT !.payload = Payload(t)] : t \in UNION {[1 .. n -> {h, H, s, sz, sp}] : n \in 0 .. 5}}

MCRooms == {Haus}

MCMessages == TwoUnusual \cup Chats

MCPayloads == {m.payload : m \in MCMessages} \ {NotObject}

MCRoutes ==
  <<[rooms |-> {Haus}, prefix |-> <<h>>, source |-> "ai"],
    [rooms |-> {Haus, Flur}, prefix |-> <<H, s>>, source |-> "other"],
    [rooms |-> {Haus}, prefix |-> <<sz>>, source |-> "ai"]>>
=============================================================================
