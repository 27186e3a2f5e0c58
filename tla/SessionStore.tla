----------------------------- MODULE SessionStore -----------------------------
(***************************************************************************)
(* What memory.Store (pkg/memory/store.go) promises about the messages of  *)
(* one session: "Each method is an atomic operation", and a history is     *)
(* read in insertion order.  The promise is written down together with the *)
(* exceptions that the comments of the JSONL store grant to a crash: old   *)
(* messages that were cut off may come back (Reappear), an append that was *)
(* torn harms what is appended next (Tear, AddJoined), and every damaged   *)
(* line costs Truncate one of the messages it was asked to keep.           *)
(***************************************************************************)
EXTENDS Naturals, SequencesExt, Subsequences

CONSTANTS Messages, KeepLast

VARIABLES
  history,   \* the messages a reader gets, oldest first
  hidden,    \* messages cut off by Truncate whose lines are still stored
  torn,      \* the stored data ends in an unfinished line
  scars      \* the number of stored lines that are no messages

vars == <<history, hidden, torn, scars>>

Init ==
  /\ history = <<>> /\ hidden = <<>>
  /\ torn = FALSE /\ scars = 0

(* AddMessage and AddFullMessage. *)
Add(m) ==
  /\ ~torn
  /\ history' = Append(history, m)
  /\ UNCHANGED <<hidden, torn, scars>>

(* What becomes of an unfinished line when something is appended to it:    *)
(* the two are one line that is no message, be it the new one or the last. *)
Joined ==
  \/ scars > 0 /\ UNCHANGED <<history, hidden, scars>>
  \/ /\ scars' = scars + 1
     /\ \/ history # <<>> /\ history' = Front(history) /\ UNCHANGED hidden
        \/ /\ history = <<>> /\ hidden # <<>> /\ hidden' = Front(hidden)
           /\ UNCHANGED history

(* AddMessage on an unfinished line: the new message cannot be read. *)
AddJoined ==
  /\ torn /\ torn' = FALSE
  /\ Joined

(* An append that stops in the middle of the line. *)
Tear(m) ==
  /\ torn' = TRUE
  /\ \/ ~torn /\ history' = Append(history, m) /\ UNCHANGED <<hidden, scars>>
     \/ ~torn /\ scars' = scars + 1 /\ UNCHANGED <<history, hidden>>
     \/ torn /\ Joined

(* TruncateHistory keeps the last k messages, or as many fewer as there    *)
(* are damaged lines among the last k.                                     *)
Truncate(k) ==
  /\ \E n \in 0 .. Len(history) :
       /\ n <= k
       /\ n + scars >= k \/ n = Len(history)
       /\ history' = SubSeq(history, Len(history) - n + 1, Len(history))
       /\ hidden' = hidden \o SubSeq(history, 1, Len(history) - n)
  /\ UNCHANGED <<torn, scars>>

Replace(h) ==
  /\ history' = h
  /\ hidden' = <<>> /\ torn' = FALSE /\ scars' = 0

(* Compact: nothing a reader could see changes. *)
Reclaim ==
  /\ hidden' = <<>> /\ torn' = FALSE /\ scars' = 0
  /\ UNCHANGED history

(* A crash, or a failing write, between the two writes of SetHistory and   *)
(* Compact: "too many" messages rather than a loss (jsonl.go:405).         *)
Reappear ==
  /\ history' = hidden \o history
  /\ hidden' = <<>>
  /\ UNCHANGED <<torn, scars>>

Next ==
  \/ \E m \in Messages : Add(m) \/ Tear(m)
  \/ AddJoined
  \/ \E k \in KeepLast : Truncate(k)
  \/ \E kept \in SUBSET (DOMAIN history) : Replace(Pick(history, kept))
  \/ Reclaim
  \/ Reappear

Spec == Init /\ [][Next]_vars

=============================================================================
