------------------------------ MODULE WeComAIBot ------------------------------
(***************************************************************************)
(* One chat of the WeCom AI bot channel (pkg/channels/wecom/aibot.go).     *)
(* Every question opens a streamTask; WeCom polls its stream until it is   *)
(* told that the stream is finished.  The channel's only outbound worker   *)
(* calls Send, which gives a reply to the first task of the chat: through  *)
(* answerCh while the stream is open, through the question's response_url  *)
(* once it is closed.  The maps change under taskMu, one critical section  *)
(* a step.                                                                 *)
(*                                                                         *)
(* Replies have no content, so whom they were meant for is not seen here.  *)
(* Finished is left out: removeTask sets it where it takes the task out of *)
(* the queue.  Left out too: signatures, encryption, Stop, other messages  *)
(* than text and stream refreshes, which keep no state.  WeCom asks for    *)
(* the next refresh of a stream when it has the answer to the last one.    *)
(***************************************************************************)
EXTENDS Naturals, FiniteSets

CONSTANTS
  MaxQuestions,   \* bound: questions of the chat
  MaxSends      \* bound: messages that are sent to the chat

ASSUME WeComAssumption == {MaxQuestions, MaxSends} \subseteq Nat

VARIABLES
  asked,         \* how many tasks there are
  chatTasks,     \* the tasks of the chat: a queue, in the order of the questions
  streamTasks,   \* tasks that a refresh finds
  streamClosed,  \* StreamClosed
  canceled,      \* tasks whose context is canceled
  answerCh,      \* tasks whose channel, of capacity one, holds a reply
  refresh,       \* where the refresh of a task's stream is
  sender,        \* the worker in Send: [at, task]
  replies,       \* how many messages were sent
  answers        \* answers that the user got for a question

wecomVars == <<asked, chatTasks, streamTasks, streamClosed, canceled, answerCh,
               refresh, sender, replies, answers>>
wecomTasks == <<asked, chatTasks, streamTasks, streamClosed>>

Questions == 1 .. MaxQuestions
NotSending == [at |-> "idle", task |-> 0]

WeComInit ==
  /\ asked = 0 /\ chatTasks = {} /\ streamTasks = {} /\ streamClosed = {}
  /\ canceled = {} /\ answerCh = {}
  /\ refresh = [q \in Questions |-> "none"]
  /\ sender = NotSending /\ replies = 0
  /\ answers = [q \in Questions |-> 0]

\* Publishing to the agent changes nothing here; the first response is read
\* like that of a refresh.
HandleText ==
  /\ asked < MaxQuestions
  /\ asked' = asked + 1
  /\ chatTasks' = chatTasks \union {asked'}
  /\ streamTasks' = streamTasks \union {asked'}
  /\ refresh' = [refresh EXCEPT ![asked'] = "select"]
  /\ UNCHANGED <<streamClosed, canceled, answerCh, sender, replies, answers>>

\* A refresh of a task that is gone is told that the stream is finished.
HandleStream(q) ==
  /\ refresh[q] = "waiting"
  /\ refresh' = [refresh EXCEPT ![q] = IF q \in streamTasks THEN "select" ELSE "finished"]
  /\ UNCHANGED <<wecomTasks, canceled, answerCh, sender, replies, answers>>

\* getStreamResponse: a reply is taken first; else the deadline may have passed.
TakeReply(q) ==
  /\ refresh[q] = "select" /\ q \in answerCh
  /\ answerCh' = answerCh \ {q}
  /\ answers' = [answers EXCEPT ![q] = @ + 1]
  /\ canceled' = canceled \union {q}
  /\ refresh' = [refresh EXCEPT ![q] = "remove"]
  /\ UNCHANGED <<wecomTasks, sender, replies>>

NoReply(q) ==
  /\ refresh[q] = "select" /\ q \notin answerCh
  /\ refresh' = [refresh EXCEPT ![q] = "waiting"]
  /\ UNCHANGED <<wecomTasks, canceled, answerCh, sender, replies, answers>>

DeadlinePassed(q) ==
  /\ refresh[q] = "select" /\ q \notin answerCh
  /\ refresh' = [refresh EXCEPT ![q] = "close"]
  /\ UNCHANGED <<wecomTasks, canceled, answerCh, sender, replies, answers>>

\* Mutant of CloseStream: the task leaves both maps.
CloseStreamRemoves(q) ==
  /\ refresh[q] = "close"
  /\ streamClosed' = streamClosed \union {q}
  /\ streamTasks' = streamTasks \ {q} /\ chatTasks' = chatTasks \ {q}
  /\ refresh' = [refresh EXCEPT ![q] = "finished"]
  /\ UNCHANGED <<asked, canceled, answerCh, sender, replies, answers>>

CloseStream(q) ==
  /\ refresh[q] = "close"
  /\ streamClosed' = streamClosed \union {q}
  /\ streamTasks' = streamTasks \ {q}
  /\ refresh' = [refresh EXCEPT ![q] = "finished"]
  /\ UNCHANGED <<asked, chatTasks, canceled, answerCh, sender, replies, answers>>

\* The critical section of removeTask, whose cancel came before.
RemoveTask(q) ==
  /\ streamTasks' = streamTasks \ {q}
  /\ chatTasks' = chatTasks \ {q}
  /\ UNCHANGED <<asked, streamClosed>>

StreamRemoves(q) ==
  /\ refresh[q] = "remove"
  /\ RemoveTask(q)
  /\ refresh' = [refresh EXCEPT ![q] = "finished"]
  /\ UNCHANGED <<canceled, answerCh, sender, replies, answers>>

-----------------------------------------------------------------------------
\* Every question goes to the end of the queue, so the first is the oldest.
First(S) == CHOOSE q \in S : \A p \in S : q <= p

\* Send reads the first task, and lets go of taskMu.
SendLooks ==
  /\ sender.at = "idle" /\ replies < MaxSends
  /\ replies' = replies + 1
  /\ sender' = IF chatTasks = {} THEN NotSending
               ELSE [at |-> IF First(chatTasks) \in streamClosed THEN "post" ELSE "push",
                     task |-> First(chatTasks)]
  /\ UNCHANGED <<wecomTasks, canceled, answerCh, refresh, answers>>

\* Waits while the channel is full; select takes either when both are ready.
SendPushes ==
  /\ sender.at = "push"
  /\ \/ sender.task \notin answerCh /\ answerCh' = answerCh \union {sender.task}
     \/ sender.task \in canceled /\ UNCHANGED answerCh
  /\ sender' = NotSending
  /\ UNCHANGED <<wecomTasks, canceled, refresh, replies, answers>>

\* Mutant of SendPosts: a task whose post failed is kept for another try.
SendPostsAgain ==
  /\ sender.at = "post"
  /\ \/ /\ answers' = [answers EXCEPT ![sender.task] = @ + 1]
        /\ sender' = NotSending
     \/ /\ canceled' = canceled \union {sender.task}
        /\ sender' = [sender EXCEPT !.at = "remove"]
        /\ UNCHANGED answers
  /\ UNCHANGED <<wecomTasks, canceled, answerCh, refresh, replies>>

\* The post may fail, also when it arrived, and there may be no URL: the task
\* is removed all the same.
SendPosts ==
  /\ sender.at = "post"
  /\ answers' \in {answers, [answers EXCEPT ![sender.task] = @ + 1]}
  /\ canceled' = canceled \union {sender.task}
  /\ sender' = [sender EXCEPT !.at = "remove"]
  /\ UNCHANGED <<wecomTasks, answerCh, refresh, replies>>

SendRemoves ==
  /\ sender.at = "remove"
  /\ RemoveTask(sender.task)
  /\ sender' = NotSending
  /\ UNCHANGED <<canceled, answerCh, refresh, replies, answers>>

\* The n first tasks are an hour old; those of late were closed ten minutes ago.
CleanupOldTasks(n, late) ==
  LET old == {q \in chatTasks : q <= n} IN
  /\ old \union late # {}
  /\ streamTasks' = streamTasks \ old
  /\ chatTasks' = chatTasks \ (old \union late)
  /\ canceled' = canceled \union old \union late
  /\ UNCHANGED <<asked, streamClosed, answerCh, refresh, sender, replies, answers>>

WeComNext ==
  \/ HandleText
  \/ \E q \in Questions : \/ HandleStream(q) \/ TakeReply(q) \/ NoReply(q)
                          \/ DeadlinePassed(q) \/ CloseStream(q) \/ StreamRemoves(q)
  \/ SendLooks \/ SendPushes \/ SendPosts \/ SendRemoves
  \/ \E n \in 0 .. asked, late \in SUBSET (chatTasks \intersect streamClosed) :
       CleanupOldTasks(n, late)

WeComSpec == WeComInit /\ [][WeComNext]_wecomVars

-----------------------------------------------------------------------------
\* The worker, which serves all chats, is never left waiting on a task that
\* nobody will cancel: the task is still where the cleanup looks, or canceled
\* already.  What a refresh finds is a subset of what Send and the cleanup do.
SendIsWoken ==
  /\ sender.at = "push" => sender.task \in chatTasks \union canceled
  /\ streamTasks \subseteq chatTasks
  /\ chatTasks \ streamTasks \subseteq streamClosed

\* A stream and the response_url of its question, usable once, carry at most
\* one answer together, whatever the deadline, polls, replies and the cleanup
\* do to each other.
OneAnswerEach == \A q \in Questions : answers[q] <= 1

=============================================================================
