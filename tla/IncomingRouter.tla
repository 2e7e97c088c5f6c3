--------------------------- MODULE IncomingRouter ---------------------------
(***************************************************************************)
(* Which messages of clients go on to the SignalDeck message bus           *)
(* (incoming_routes.py).  A text is a sequence of characters.              *)
(***************************************************************************)
EXTENDS Naturals, Sequences, SequencesExt

CONSTANTS
  Spaces,        \* the characters that are whitespace
  CaseFold       \* str.casefold() of each character, a sequence of characters

Characters == DOMAIN CaseFold

(* No character folds to nothing, and white space folds to itself.         *)
ASSUME SpacesStay == \A s \in Spaces : CaseFold[s] = <<s>>
ASSUME FoldsToSomething == \A c \in Characters : CaseFold[c] \in Seq(Characters) \ {<<>>}

-----------------------------------------------------------------------------
Fold(text) == FlattenSeq([i \in DOMAIN text |-> CaseFold[text[i]]])

(* str.strip() *)
Trim(text) ==
  LET black == {i \in DOMAIN text : text[i] \notin Spaces}
  IN IF black = {} THEN <<>>
     ELSE SubSeq(text, CHOOSE i \in black : \A j \in black : i <= j,
                       CHOOSE i \in black : \A j \in black : i >= j)

(* text[:n] and text[n:] *)
FirstPart(text, n) == IF n < Len(text) THEN SubSeq(text, 1, n) ELSE text

Remainder(text, n) == IF n < Len(text) THEN SubSeq(text, n + 1, Len(text)) ELSE <<>>

(* The constructor folds the prefixes. *)
Router(routes) == [i \in DOMAIN routes |-> [routes[i] EXCEPT !.prefix = Fold(@)]]

(* Only a message in clear text. *)
Routable(isChat, payload) ==
  /\ isChat
  /\ payload.text # <<>>
  /\ payload.contentType = "text"
  /\ ~payload.system

(* Mutant: "@hausmeister" is taken for "@haus". *)
AddressesInWord(route, room, text) ==
  LET n == Len(route.prefix)
  IN /\ room \in route.rooms
     /\ Fold(FirstPart(text, n)) = route.prefix
     /\ Trim(Remainder(text, n)) # <<>>

Addresses(route, room, text) ==
  LET n == Len(route.prefix)
  IN /\ room \in route.rooms
     /\ Fold(FirstPart(text, n)) = route.prefix
     /\ Remainder(text, n) # <<>> => Remainder(text, n)[1] \in Spaces
     /\ Trim(Remainder(text, n)) # <<>>

Call(route, text) ==
  [source |-> route.source, content |-> Trim(Remainder(text, Len(route.prefix)))]

Raised(calls, failing) == calls # <<>> /\ calls[Len(calls)].source \in failing

(* The calls of context.message() after the first n routes.  Listeners run *)
(* within the call, and the first that raises ends the loop.               *)
Publish(routes, room, text, failing) ==
  LET router == Router(routes)
      calls[n \in 0 .. Len(routes)] ==
        IF n = 0 THEN <<>>
        ELSE IF Raised(calls[n - 1], failing) \/ ~Addresses(router[n], room, text)
          THEN calls[n - 1]
        ELSE Append(calls[n - 1], Call(router[n], text))
  IN calls[Len(routes)]

-----------------------------------------------------------------------------
(* README.md:46-82, said without slices: the text is the prefix in some    *)
(* spelling of upper and lower case, white space, the prompt, white space. *)
PromptAt(prefix, text, j, k) ==
  /\ j <= k /\ {text[j], text[k]} \cap Spaces = {}
  /\ \A m \in k + 1 .. Len(text) : text[m] \in Spaces
  /\ \E i \in 1 .. j - 2 :
       /\ Fold(SubSeq(text, 1, i)) = Fold(prefix)
       /\ \A m \in i + 1 .. j - 1 : text[m] \in Spaces

Prompts(route, room, text) ==
  IF room \notin route.rooms THEN {}
  ELSE UNION {{SubSeq(text, j, k) : k \in {l \in DOMAIN text : PromptAt(route.prefix, text, j, l)}} :
                j \in DOMAIN text}
=============================================================================
