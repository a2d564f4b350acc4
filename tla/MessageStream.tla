---------------------------- MODULE MessageStream ----------------------------
(***************************************************************************)
(* One streamed model message on its way to the listeners: MessagePublisher*)
(* holds text back, the interceptors rewrite it, and the listeners put the *)
(* events together again, as the collector does for the FINAL message.     *)
(*                                                                         *)
(* A text is a sequence of tokens.  Marker stands for <#CONTINUE#>, which  *)
(* may be cut in two; "word" is the word the default interceptor replaces  *)
(* and "other" what it puts in its place.                                  *)
(***************************************************************************)
EXTENDS Integers, FiniteSets, SequencesExt

CONSTANTS
  Indexes,   \* the alternatives of one completion
  NoText,    \* None: a part that was never received
  MaxText,   \* bound: tokens of the message, per choice
  MaxPiece   \* bound: tokens of one chunk

ASSUME StreamBounds == MaxText \in [Indexes -> Nat] /\ MaxPiece \in Nat

Parts  == {"content", "reasoning"}
Marker == <<"<", "#>">>
Tokens == {"<", "#>", "word"}
Shows  == Tokens \cup {"other"}

ASSUME NoTextIsNoText == NoText \notin Seq(Shows)

VARIABLES
  sub,       \* is the message of a subagent?
  phase,     \* "open", "usage" after the chunk with the usage, "ending", "ended"
  contexts,  \* _event_id2choice_index2interception_context of this message
  outbox,    \* the events of the publish under way
  message,   \* what the listeners have put together, per choice
  said       \* history: what the model has said, per choice

streamVars == <<sub, phase, contexts, outbox, message, said>>
-----------------------------------------------------------------------------
(* Texts and contents.                                                     *)

Text(t) == IF t = NoText THEN <<>> ELSE t

\* MessageContent: both parts, each of them perhaps never received.
Nothing == [p \in Parts |-> NoText]

Join(before, piece) ==
  IF piece = NoText THEN before
  ELSE IF before = NoText THEN piece ELSE before \o piece

Merge(before, delta) == [p \in Parts |-> Join(before[p], delta[p])]

\* The marker stands at place i.
MarkerAt(t, i) == i \in 1 .. Len(t) - 1 /\ <<t[i], t[i + 1]>> = Marker

Has(t) == \E i \in DOMAIN t : MarkerAt(t, i)

\* str.replace(marker, ""): no two occurrences overlap.
Kept(t)   == {i \in DOMAIN t : ~MarkerAt(t, i) /\ ~MarkerAt(t, i - 1)}
Nth(S, k) == CHOOSE i \in S : Cardinality({j \in S : j <= i}) = k
Pick(t, S) == [k \in 1 .. Cardinality(S) |-> t[Nth(S, k)]]
Strip(t)  == Pick(t, Kept(t))

Rename(t) == [i \in DOMAIN t |-> IF t[i] = "word" THEN "other" ELSE t[i]]

-----------------------------------------------------------------------------
(* The default interceptor.                                                *)

\* Seeded fault: the first "<" is looked at, `find` instead of `rfind`.
HoldsFromFirst(held) ==
  LET t == Text(held["content"])
      starts == {i \in DOMAIN t : t[i] = "<"}
  IN /\ sub
     /\ \E i \in starts :
          /\ \A j \in starts : i <= j
          /\ IsPrefix(SubSeq(t, i, Len(t)), Marker)

\* message_should_continue_intercept: the tail after the last "<" of the body may
\* still become the marker.  It looks at the body only.
Holds(held) ==
  LET t == Text(held["content"])
      starts == {i \in DOMAIN t : t[i] = "<"}
  IN /\ sub
     /\ \E i \in starts :
          /\ \A j \in starts : j <= i
          /\ IsPrefix(SubSeq(t, i, Len(t)), Marker)

Tagged(held) == sub /\ \E p \in Parts : Has(Text(held[p]))

\* message_before_flush_intercepted: what is shown of what was held.
Shown(held) == IF Tagged(held) THEN [p \in Parts |-> Strip(Text(held[p]))] ELSE held

\* message_build_replay_content.
Replays(shown) == "word" \in ToSet(Text(shown["content"]))
Replayed(shown) == [shown EXCEPT !["content"] = Rename(@)]
-----------------------------------------------------------------------------
(* Events: what an event carries for a choice; NoText falls back on raw.   *)

Carries(raw, display, context, tag) ==
  [raw |-> raw, display |-> display, context |-> context, tag |-> tag]

Unsaid == [held |-> Nothing, shown |-> Nothing, kept |-> Nothing]

StreamInit ==
  /\ sub \in BOOLEAN
  /\ phase = "open"
  /\ contexts = [c \in Indexes |-> Unsaid]
  /\ outbox = <<>>
  /\ message = [c \in Indexes |-> Carries(Nothing, Nothing, Nothing, FALSE)]
  /\ said = [c \in Indexes |-> Nothing]

\* A part that is published as it came needs no field of its own.
Unlike(delta, text) == [p \in Parts |-> IF delta[p] = text[p] THEN NoText ELSE text[p]]

\* _clear_choice_channel_content.
Cleared(delta) == [p \in Parts |-> IF delta[p] = NoText THEN NoText ELSE <<>>]

Held(c, delta) == Merge(contexts[c].held, delta)

\* Seeded fault: the tail of the body is not looked at.
NeverHold(c, delta, final) ==
  IF Held(c, delta) = Nothing THEN "pass" ELSE "release"

\* What _process_message_event does with the text of a choice.
Turn(c, delta, final) ==
  IF Held(c, delta) = Nothing THEN "pass"
  ELSE IF ~final /\ Holds(Held(c, delta)) THEN "hold" ELSE "release"

\* The context of a choice when its text is released, before a replay.
Released(c, delta) ==
  [held  |-> Nothing,
   shown |-> Merge(contexts[c].shown, Shown(Held(c, delta))),
   kept  |-> Merge(contexts[c].kept, Held(c, delta))]

ReplaysAfter(c, delta, final) ==
  Turn(c, delta, final) = "release" /\ Replays(Released(c, delta).shown)

\* Seeded fault: the snapshot of what is shown is not the replayed one.
SavedAsReleased(c, delta, final) ==
  CASE Turn(c, delta, final) = "pass"    -> contexts[c]
    [] Turn(c, delta, final) = "hold"    -> [contexts[c] EXCEPT !.held = Held(c, delta)]
    [] Turn(c, delta, final) = "release" -> Released(c, delta)

\* _save_interception_context: the context a choice goes on with.
Saved(c, delta, final) ==
  CASE Turn(c, delta, final) = "pass"    -> contexts[c]
    [] Turn(c, delta, final) = "hold"    -> [contexts[c] EXCEPT !.held = Held(c, delta)]
    [] Turn(c, delta, final) = "release" ->
         IF ReplaysAfter(c, delta, final)
         THEN [Released(c, delta) EXCEPT !.shown = Replayed(@)]
         ELSE Released(c, delta)

\* What the event of a chunk, or the one before END, carries for a choice.
Carried(c, delta, final) ==
  CASE Turn(c, delta, final) = "pass"    -> Carries(delta, Nothing, Nothing, FALSE)
    [] Turn(c, delta, final) = "hold"    -> Carries(delta, Cleared(delta), Cleared(delta), FALSE)
    [] Turn(c, delta, final) = "release" ->
         Carries(delta, Unlike(delta, Shown(Held(c, delta))), Unlike(delta, Held(c, delta)),
                 Tagged(Held(c, delta)))

\* The snapshot that covers what was shown of a choice.
Replay(c, delta) ==
  Carries(Nothing, Replayed(Released(c, delta).shown), Released(c, delta).kept, FALSE)

\* _build_content_event: at most one event for all choices that ask for it.
Event(kind, of) == IF of = <<>> THEN <<>> ELSE <<[kind |-> kind, of |-> of]>>

Carrying(deltas, final) ==
  Event("IN_PROGRESS", [c \in DOMAIN deltas |-> Carried(c, deltas[c], final)])

Replaying(deltas, final) ==
  Event("PARTIAL", [c \in {d \in DOMAIN deltas : ReplaysAfter(d, deltas[d], final)} |->
                      Replay(c, deltas[c])])
-----------------------------------------------------------------------------
(* MessagePublisher.publish.                                               *)

\* A chunk of the model with text for some of the choices; the chunk with the
\* usage says that no text follows.
Chunk(deltas, usage) ==
  /\ phase = "open" /\ outbox = <<>>
  /\ phase' = IF usage THEN "usage" ELSE "open"
  /\ outbox' = Carrying(deltas, usage) \o Replaying(deltas, usage)
  /\ contexts' = [c \in Indexes |->
       IF c \in DOMAIN deltas THEN Saved(c, deltas[c], usage) ELSE contexts[c]]
  /\ said' = [c \in Indexes |->
       IF c \in DOMAIN deltas THEN Merge(said[c], deltas[c]) ELSE said[c]]
  /\ UNCHANGED <<sub, message>>

\* What is still held.
Left == [c \in {d \in Indexes : contexts[d].held # Nothing} |-> Nothing]

\* Seeded fault: END goes out without the text that is still held.
EndAtOnce ==
  /\ phase \in {"open", "usage"} /\ outbox = <<>>
  /\ phase' = "ending"
  /\ outbox' = <<[kind |-> "END", of |-> <<>>]>>
  /\ UNCHANGED <<sub, contexts, message, said>>

\* The stream is over: before END comes an event with what is still held, and one
\* that covers the text shown so far where that is asked for.
End ==
  /\ phase \in {"open", "usage"} /\ outbox = <<>>
  /\ phase' = "ending"
  /\ outbox' = Carrying(Left, TRUE) \o Replaying(Left, TRUE)
               \o <<[kind |-> "END", of |-> <<>>]>>
  /\ contexts' = [c \in Indexes |->
       IF c \in DOMAIN Left THEN Saved(c, Nothing, TRUE) ELSE contexts[c]]
  /\ UNCHANGED <<sub, message, said>>

\* MessageEvent.create_final_event_from_events and every listener: increments are
\* appended, a part without text of its own falls back on the raw one.
Extend(m, d) ==
  LET own(parts) == [p \in Parts |-> IF parts[p] = NoText THEN d.raw[p] ELSE parts[p]]
  IN [raw     |-> Merge(m.raw, d.raw),
      display |-> Merge(m.display, own(d.display)),
      context |-> Merge(m.context, own(d.context)),
      tag     |-> m.tag \/ d.tag]

\* A covering event replaces the parts it carries.
Cover(m, d) ==
  LET over(old, new) == [p \in Parts |-> IF new[p] = NoText THEN old[p] ELSE new[p]]
  IN [m EXCEPT !.display = over(@, d.display), !.context = over(@, d.context),
               !.tag = @ \/ d.tag]

\* What an event makes of what a listener has of a choice.
Hears(m, event, c) ==
  IF c \notin DOMAIN event.of THEN m
  ELSE IF event.kind = "PARTIAL" THEN Cover(m, event.of[c])
  ELSE Extend(m, event.of[c])

\* The event bus hands the next event to the listeners.
Deliver ==
  LET event == Head(outbox)
  IN /\ outbox # <<>>
     /\ outbox' = Tail(outbox)
     /\ message' = [c \in Indexes |-> Hears(message[c], event, c)]
     /\ IF event.kind = "END"
        THEN phase' = "ended" /\ contexts' = [c \in Indexes |-> Unsaid]
        ELSE UNCHANGED <<phase, contexts>>
     /\ UNCHANGED <<sub, said>>
-----------------------------------------------------------------------------
Length(m) == Len(Text(m["content"])) + Len(Text(m["reasoning"]))

Contents == {m \in [Parts -> {NoText} \cup BoundedSeq(Tokens, MaxPiece)] : Length(m) <= MaxPiece}

\* What the model may say next for a choice: empty texts in the first chunk only,
\* no text at all in the first and in the last one.
Says(c, usage) ==
  {m \in Contents :
     /\ Length(said[c]) + Length(m) <= MaxText[c]
     /\ \/ said[c] = Nothing
        \/ m = Nothing /\ usage
        \/ m # Nothing /\ <<>> \notin {m[p] : p \in Parts}}

\* A chunk has text for one choice or for all of them.
Chunks ==
  /\ phase = "open" /\ outbox = <<>>
  /\ \E usage \in BOOLEAN, some \in {{c} : c \in Indexes} \cup {Indexes} :
       LET says == [c \in some |-> Says(c, usage)]
       IN \E deltas \in {f \in [some -> UNION {says[c] : c \in some}] :
                           \A c \in some : f[c] \in says[c]} :
            Chunk(deltas, usage)

StreamNext == Chunks \/ End \/ Deliver

StreamSpec == StreamInit /\ [][StreamNext]_streamVars
-----------------------------------------------------------------------------
(* Properties.                                                             *)

Between == outbox = <<>>

Clean(t) == Rename(IF sub THEN Strip(t) ELSE t)

\* However the model's text is cut into chunks: the body the user has seen,
\* followed by what is held back, is the body the model said without the marker.
ShownIsClean ==
  Between => \A c \in Indexes :
    Text(message[c].display["content"]) \o Clean(Text(contexts[c].held["content"]))
      = Clean(Text(said[c]["content"]))

\* Nothing is lost, doubled or moved on the way to the next model call: the context
\* and what is held back are what the model said, and at the end nothing is held.
ContextIsWhole ==
  Between => \A c \in Indexes :
    /\ message[c].raw = said[c]
    /\ Merge(message[c].context, contexts[c].held) = said[c]

\* The snapshots the interceptors are asked about are what the listeners have,
\* replays included.
SnapshotsAgree ==
  Between /\ phase # "ended" => \A c \in Indexes : \A p \in Parts :
    /\ Text(contexts[c].shown[p]) = Text(message[c].display[p])
    /\ Text(contexts[c].kept[p]) = Text(message[c].context[p])

\* A subagent keeps control exactly when its body had the marker in it, in one
\* chunk or in many (no marker being spelled out in the reasoning).
TagMeansMarker ==
  Between /\ phase = "ended" => \A c \in Indexes :
    ~Has(Text(said[c]["reasoning"]))
      => message[c].tag = (sub /\ Has(Text(said[c]["content"])))
=============================================================================
