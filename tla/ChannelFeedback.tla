---------------------------- MODULE ChannelFeedback ----------------------------
(***************************************************************************)
(* What a chat shows while a reply is being made: a typing indicator, a    *)
(* reaction and a placeholder message, which BaseChannel.HandleMessage     *)
(* (pkg/channels/base.go) starts for every message and records in the      *)
(* channel manager (manager.go), one entry of each kind for the chat.      *)
(* preSend takes the entries out before a reply is sent, and the janitor   *)
(* those that are too old.  The maps are sync.Maps: every step on an entry *)
(* is atomic, and what is taken out is stopped by whoever took it, before  *)
(* or after what others do to other marks.                                 *)
(*                                                                         *)
(* Left out: the content of replies and the sending itself, which          *)
(* OutboundDelivery models, and the placeholder that follows an audio      *)
(* message's transcription, which is recorded like the others.             *)
(***************************************************************************)
EXTENDS Naturals, FiniteSets

CONSTANTS
  Messages,     \* incoming messages of the chat
  Senders,      \* the channel's worker, and SendMessage
  MaxReplies    \* bound: replies

ASSUME FeedbackAssumption == MaxReplies \in Nat /\ Messages \intersect {"none"} = {}

VARIABLES
  mark,       \* <<kind, message>> -> "none", "shown", "ended", "edited"
  recorded,   \* kind -> the message whose mark is in the map
  handling,   \* message -> the stage of HandleMessage
  sending,    \* sender -> the stage of preSend
  sent,       \* how many replies there were
  janitor,    \* the entry the janitor has found too old
  raced       \* marks whose entry the janitor took for another one

feedbackVars == <<mark, recorded, handling, sending, sent, janitor, raced>>

Kinds == {"typing", "reaction", "placeholder"}
Nobody == "none"

FeedbackInit ==
  /\ mark = [km \in Kinds \X Messages |-> "none"]
  /\ recorded = [k \in Kinds |-> Nobody]
  /\ handling = [m \in Messages |-> <<"show", "new">>]
  /\ sending = [s \in Senders |-> "idle"]
  /\ sent = 0
  /\ janitor = [kind |-> "typing", message |-> Nobody]
  /\ raced = {}

\* The order of HandleMessage and of preSend.
NextKind(k) == CASE k = "typing" -> "reaction" [] k = "reaction" -> "placeholder" [] OTHER -> "done"

-----------------------------------------------------------------------------
HandleMessage(m) ==
  /\ handling[m] = <<"show", "new">>
  /\ handling' = [handling EXCEPT ![m] = <<"show", "typing">>]
  /\ UNCHANGED <<mark, recorded, sending, sent, janitor, raced>>

\* The channel shows the mark, and the recorder is called next.
Show(m, k) ==
  /\ handling[m] = <<"show", k>>
  /\ mark' = [mark EXCEPT ![<<k, m>>] = "shown"]
  /\ handling' = [handling EXCEPT ![m] = <<"record", k>>]
  /\ UNCHANGED <<recorded, sending, sent, janitor, raced>>

\* The channel cannot, or fails.
ShowsNothing(m, k) ==
  /\ handling[m] = <<"show", k>>
  /\ handling' = [handling EXCEPT ![m] = <<"show", NextKind(k)>>]
  /\ UNCHANGED <<mark, recorded, sending, sent, janitor, raced>>

Recorded(m, k) ==
  /\ handling[m] = <<"record", k>>
  /\ recorded' = [recorded EXCEPT ![k] = m]
  /\ handling' = [handling EXCEPT ![m] = <<"show", NextKind(k)>>]
  /\ UNCHANGED <<sending, sent, janitor, raced>>

\* The indicator it replaces is stopped.
RecordTypingStop(m) ==
  /\ Recorded(m, "typing")
  /\ mark' = IF recorded["typing"] = Nobody THEN mark
             ELSE [mark EXCEPT ![<<"typing", recorded["typing"]>>] = "ended"]

\* What these two replace stays in the chat.
RecordReactionUndo(m) == Recorded(m, "reaction") /\ UNCHANGED mark
RecordPlaceholder(m) == Recorded(m, "placeholder") /\ UNCHANGED mark

-----------------------------------------------------------------------------
PreSend(s) ==
  /\ sending[s] = "idle" /\ sent < MaxReplies
  /\ sent' = sent + 1
  /\ sending' = [sending EXCEPT ![s] = "typing"]
  /\ UNCHANGED <<mark, recorded, handling, janitor, raced>>

\* LoadAndDelete, and the call of what was loaded.
EndMark(s, k) ==
  /\ sending[s] = k /\ k # "placeholder"
  /\ recorded' = [recorded EXCEPT ![k] = Nobody]
  /\ mark' = IF recorded[k] = Nobody THEN mark ELSE [mark EXCEPT ![<<k, recorded[k]>>] = "ended"]
  /\ sending' = [sending EXCEPT ![s] = NextKind(k)]
  /\ UNCHANGED <<handling, sent, janitor, raced>>

\* Mutant of EditPlaceholder: the entry is loaded and not deleted.
EditPlaceholderKeeps(s) ==
  /\ sending[s] = "placeholder"
  /\ mark' = IF recorded["placeholder"] = Nobody THEN mark
             ELSE [mark EXCEPT ![<<"placeholder", recorded["placeholder"]>>] =
                     IF @ = "edited" THEN "overwritten" ELSE "edited"]
  /\ sending' = [sending EXCEPT ![s] = "idle"]
  /\ UNCHANGED <<recorded, handling, sent, janitor, raced>>

\* The reply goes into the placeholder, or, when the edit fails, is sent.
EditPlaceholder(s) ==
  /\ sending[s] = "placeholder"
  /\ recorded' = [recorded EXCEPT !["placeholder"] = Nobody]
  /\ LET m == recorded["placeholder"] IN
     mark' \in {mark} \union (IF m = Nobody THEN {} ELSE
       {[mark EXCEPT ![<<"placeholder", m>>] = IF @ = "edited" THEN "overwritten" ELSE "edited"]})
  /\ sending' = [sending EXCEPT ![s] = "idle"]
  /\ UNCHANGED <<handling, sent, janitor, raced>>

-----------------------------------------------------------------------------
\* Range shows the janitor an entry that is too old...
JanitorFinds(k) ==
  /\ janitor.message = Nobody /\ recorded[k] # Nobody
  /\ janitor' = [kind |-> k, message |-> recorded[k]]
  /\ UNCHANGED <<mark, recorded, handling, sending, sent, raced>>

\* ...and it takes out the entry that is there by then, but stops the old one.
JanitorTakes ==
  /\ janitor.message # Nobody
  /\ LET k == janitor.kind
         loaded == recorded[k] IN
     /\ recorded' = [recorded EXCEPT ![k] = Nobody]
     /\ mark' = IF loaded = Nobody \/ k = "placeholder" THEN mark
                ELSE [mark EXCEPT ![<<k, janitor.message>>] = "ended"]
     /\ raced' = IF loaded \in {Nobody, janitor.message} THEN raced
                 ELSE raced \union {<<k, loaded>>}
  /\ janitor' = [janitor EXCEPT !.message = Nobody]
  /\ UNCHANGED <<handling, sending, sent>>

FeedbackNext ==
  \/ \E m \in Messages : \/ HandleMessage(m)
                         \/ \E k \in Kinds : Show(m, k) \/ ShowsNothing(m, k)
                         \/ RecordTypingStop(m) \/ RecordReactionUndo(m) \/ RecordPlaceholder(m)
  \/ \E s \in Senders : \/ PreSend(s) \/ EditPlaceholder(s)
                        \/ \E k \in Kinds : EndMark(s, k)
  \/ \E k \in Kinds : JanitorFinds(k)
  \/ JanitorTakes

FeedbackSpec == FeedbackInit /\ [][FeedbackNext]_feedbackVars

-----------------------------------------------------------------------------
\* A typing indicator that runs has an entry, or will have one, so that a reply
\* or the janitor stops it: only the janitor's own race leaves one without.
\* And no placeholder is edited twice, so that no reply overwrites another,
\* though messages, replies and the janitor meet in any order.
MarksAreTakenOnce ==
  /\ \A m \in Messages : mark[<<"typing", m>>] = "shown" =>
       \/ recorded["typing"] = m
       \/ handling[m] = <<"record", "typing">>
       \/ <<"typing", m>> \in raced
  /\ \A m \in Messages : mark[<<"placeholder", m>>] # "overwritten"

=============================================================================
