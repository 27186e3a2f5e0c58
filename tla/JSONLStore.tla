------------------------------ MODULE JSONLStore ------------------------------
(***************************************************************************)
(* The files of one session in memory.JSONLStore (pkg/memory/jsonl.go): the*)
(* lines of its .jsonl file and the numbers of its .meta.json file.  Every *)
(* operation holds the session's lock from its first read to its last      *)
(* write, and the store keeps nothing in memory: a step here is one write, *)
(* and a crash between two writes leaves the same files as a write that    *)
(* fails, because every method returns on the first error.  The files are  *)
(* replaced atomically (fileutil.WriteFileAtomic), except for the append   *)
(* of addMsg, which may stop anywhere in its line.                         *)
(***************************************************************************)
EXTENDS Integers, FiniteSets, SequencesExt, Subsequences

CONSTANTS
  MaxMessages,   \* bound: messages are numbered 1 .. MaxMessages as they come
  KeepCounts,    \* arguments of TruncateHistory
  MaxTears,      \* bound: appends that stop in the middle of a line
  MaxCuts        \* bound: operations that end between their two writes

ASSUME StoreAssumption ==
  /\ MaxMessages \in Nat \ {0} /\ MaxTears \in Nat /\ MaxCuts \in Nat
  /\ KeepCounts \subseteq Nat

VARIABLES
  lines,   \* the .jsonl file: messages, and Bad for a line json cannot parse
  open,    \* its last line lacks the newline
  meta,    \* skip and count of the .meta.json file
  op,      \* the operation that has done its first write
  next,    \* the number of the next message
  tears, cuts,   \* bounds used up
  due      \* ghost: acknowledged messages nobody has asked to remove

storeVars == <<lines, open, meta, op, next, tears, cuts, due>>

Messages == 1 .. MaxMessages
Bad == 0
Lines == Messages \cup {Bad}

(* At most this many lines: every append writes one at the most. *)
MaxLines == MaxMessages

NoOp == [kind |-> "none"]
AddOp == [kind |-> "add"]
RewriteOp(h, skip) == [kind |-> "rewrite", history |-> h, skip |-> skip]

(* The skip offset never points behind the last line, where it would make  *)
(* a reader pass over messages that are still to come.                     *)
StoreTypeOK ==
  /\ lines \in Seq(Lines) /\ Len(lines) <= MaxLines
  /\ open \in BOOLEAN /\ (open => lines # <<>>)
  /\ meta \in [skip : 0 .. Len(lines), count : Nat]
  /\ \/ op \in {NoOp, AddOp}
     \/ /\ DOMAIN op = {"kind", "history", "skip"} /\ op.kind = "rewrite"
        /\ op.history \in Seq(Messages) /\ op.skip \in 0 .. Len(lines)
  /\ next \in 1 .. MaxMessages + 1
  /\ tears \in 0 .. MaxTears /\ cuts \in 0 .. MaxCuts
  /\ due \subseteq Messages

StoreInit ==
  /\ lines = <<>> /\ open = FALSE
  /\ meta = [skip |-> 0, count |-> 0]
  /\ op = NoOp
  /\ next = 1
  /\ tears = 0 /\ cuts = 0
  /\ due = {}

(* readMessages: lines up to skip are not looked at, malformed ones are    *)
(* left out.                                                               *)
ReadMessages(file, skip) == Pick(file, {n \in skip + 1 .. Len(file) : file[n] # Bad})

(* GetHistory. *)
History == ReadMessages(lines, meta.skip)

LastOf(s, k) == IF k < Len(s) THEN SubSeq(s, Len(s) - k + 1, Len(s)) ELSE s

(* The file after an append of x: on an unfinished line the two become one *)
(* line, which no longer parses.                                           *)
Appended(x) == IF open THEN Append(Front(lines), Bad) ELSE Append(lines, x)

-----------------------------------------------------------------------------
(* Mutant of AddLine: the newline is forgotten. *)
AddUnterminated ==
  /\ op = NoOp /\ next <= MaxMessages
  /\ lines' = Appended(next)
  /\ open' = TRUE
  /\ op' = AddOp
  /\ next' = next + 1
  /\ UNCHANGED <<meta, tears, cuts, due>>

(* addMsg: the line is written and synced.                                 *)
AddLine ==
  /\ op = NoOp /\ next <= MaxMessages
  /\ lines' = Appended(next)
  /\ open' = FALSE
  /\ op' = AddOp
  /\ next' = next + 1
  /\ UNCHANGED <<meta, tears, cuts, due>>

(* A write or a crash that stops in the line, after a part of the JSON or  *)
(* just before the newline.                                                *)
AddTorn ==
  /\ op = NoOp /\ next <= MaxMessages
  /\ tears < MaxTears
  /\ lines' \in {Appended(next), Appended(Bad)}
  /\ open' = TRUE
  /\ tears' = tears + 1
  /\ next' = next + 1
  /\ UNCHANGED <<meta, op, cuts, due>>

(* The count follows; only now is the message acknowledged. *)
AddCount ==
  /\ op = AddOp
  /\ meta' = [meta EXCEPT !.count = @ + 1]
  /\ op' = NoOp
  /\ due' = due \cup {next - 1}
  /\ UNCHANGED <<lines, open, next, tears, cuts>>

(* Mutant of TruncateHistory: it trusts the stored count. *)
TruncateByCount(k) ==
  /\ op = NoOp
  /\ meta' = [meta EXCEPT !.skip = IF k = 0 THEN meta.count
                                   ELSE IF k < meta.count - @ THEN meta.count - k ELSE @]
  /\ due' = {m \in due : Cardinality({x \in due \cup ToSet(History) : x > m}) < k}
  /\ UNCHANGED <<lines, open, op, next, tears, cuts>>

(* TruncateHistory counts the lines again and moves the skip offset. *)
TruncateHistory(k) ==
  /\ op = NoOp
  /\ LET n == Len(lines)
     IN meta' = [count |-> n,
                 skip |-> IF k = 0 THEN n
                          ELSE IF k < n - meta.skip THEN n - k ELSE meta.skip]
  /\ due' = {m \in due : Cardinality({x \in due \cup ToSet(History) : x > m}) < k}
  /\ UNCHANGED <<lines, open, op, next, tears, cuts>>

(* SetHistory writes the metadata first.  Its callers pass nothing, or     *)
(* the newest messages they have read (maybeCompact), or these with the    *)
(* first one in front (forceCompression).                                  *)
Shortened(h) ==
  {LastOf(h, k) : k \in 0 .. Len(h)}
    \cup {<<h[1]>> \o LastOf(h, k) : k \in 1 .. Len(h) - 1}

SetHistory(h) ==
  /\ op = NoOp
  /\ op' = RewriteOp(h, meta.skip)
  /\ meta' = [skip |-> 0, count |-> Len(h)]
  /\ due' = due \ (ToSet(History) \ ToSet(h))
  /\ UNCHANGED <<lines, open, next, tears, cuts>>

(* Compact, which JSONLBackend.Save calls after every change. *)
Compact ==
  /\ op = NoOp /\ meta.skip # 0
  /\ op' = RewriteOp(History, meta.skip)
  /\ meta' = [skip |-> 0, count |-> Len(History)]
  /\ UNCHANGED <<lines, open, next, tears, cuts, due>>

(* rewriteJSONL replaces the file by the given messages. *)
RewriteJSONL ==
  /\ op.kind = "rewrite"
  /\ lines' = op.history
  /\ open' = FALSE
  /\ op' = NoOp
  /\ UNCHANGED <<meta, next, tears, cuts, due>>

(* A crash between the two writes of an operation, or a second write that  *)
(* fails. *)
CutShort ==
  /\ op # NoOp /\ cuts < MaxCuts
  /\ op' = NoOp
  /\ cuts' = cuts + 1
  /\ UNCHANGED <<lines, open, meta, next, tears, due>>

StoreNext ==
  \/ AddLine \/ AddTorn \/ AddCount
  \/ \E k \in KeepCounts : TruncateHistory(k)
  \/ \E h \in Shortened(History) : SetHistory(h)
  \/ Compact \/ RewriteJSONL
  \/ CutShort

StoreSpec == StoreInit /\ [][StoreNext]_storeVars

-----------------------------------------------------------------------------
(* The skip offset stays in its range, and appends that stop in their line *)
(* harm few acknowledged messages: none does no harm, and t of them cost   *)
(* at most t + 1 messages.  Each can cost the next message, which joins    *)
(* the unfinished line, and a truncation gives up a message for each       *)
(* damaged line that it counts, but the two do not add up to more.         *)
(* Nothing else ever makes an acknowledged message disappear.              *)
DamageIsBounded ==
  /\ StoreTypeOK
  /\ op = NoOp =>
       Cardinality(due \ ToSet(History)) <= (IF tears = 0 THEN 0 ELSE tears + 1)

(* Each operation is atomic for a reader, who waits for the lock: while a  *)
(* rewrite is under way the session is what it was.                        *)
Skip == IF op.kind = "rewrite" THEN op.skip ELSE meta.skip

Store == INSTANCE SessionStore WITH
  KeepLast <- KeepCounts,
  history <- ReadMessages(lines, Skip),
  hidden <- ReadMessages(SubSeq(lines, 1, Skip), 0),
  torn <- open,
  scars <- Cardinality({i \in DOMAIN lines : lines[i] = Bad})

(* The files implement the store: nothing but the listed exceptions.       *)
ImplementsSessionStore == Store!Spec

=============================================================================
