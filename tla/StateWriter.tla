---------------------------- MODULE StateWriter ----------------------------
(***************************************************************************)
(* The single writer of internal/libraryindex's State: callers hand it     *)
(* requests through bounded channels and wait for their answer, or for     *)
(* their context, or for the writer to end.  Control requests run one by   *)
(* one and first; settling calls are batched into one transaction, and     *)
(* tried one by one when that fails.                                       *)
(*                                                                         *)
(* A call is one caller's one request.  What it does to the database is    *)
(* what every settling call of JobQueue does: it takes effect if its row   *)
(* is as the caller knew it, and thereby makes the other calls that want   *)
(* that row stale.                                                         *)
(***************************************************************************)
EXTENDS Naturals, Sequences, Functions

CONSTANTS
    Calls,
    Control,     \* those through State.write; the others use writeBatch
    Rows, RowOf, \* the row each call settles
    Depth,       \* of the channels
    MaxBatch,    \* requests in one transaction
    Impatient,   \* bound: the calls whose context may end
    NoCall

ASSUME WriterAssumption ==
    /\ Control \subseteq Calls
    /\ RowOf \in [Calls -> Rows]
    /\ Depth \in Nat \ {0} /\ MaxBatch \in Nat \ {0}
    /\ Impatient \subseteq Calls
    /\ NoCall \notin Calls

VARIABLES
    caller,    \* of each call: "sending", for as long as it likes, "waiting",
               \* "returned"
    answer,    \* what it returned: "ok", "stale", "broken", "canceled", "closed"
    ended,     \* calls whose context has ended
    control, batches, \* the channels
    done,      \* each request's own channel, of one answer
    step,      \* of the writer: "top", "pick", "wait", "run", "collect",
               \* "filter", "batch", "singly", "gone"
    taken,     \* the requests it has collected
    active,    \* the requests whose context it has looked at, to be run
    stopping,  \* State.stop is closed
    row,       \* the database: the call that has settled each row
    late       \* history: calls whose context ended before the writer looked

callers == <<caller, answer>>
channels == <<control, batches>>
writer == <<step, taken, active>>
writerVars == <<callers, ended, channels, done, writer, stopping, row, late>>

NoAnswer == "none"
Results == {"ok", "stale", "broken", "canceled"}

WriterInit ==
    /\ caller = [c \in Calls |-> "sending"]
    /\ answer = [c \in Calls |-> NoAnswer]
    /\ ended = {}
    /\ control = <<>> /\ batches = <<>>
    /\ done = [c \in Calls |-> NoAnswer]
    /\ step = "top" /\ taken = <<>> /\ active = <<>>
    /\ stopping = FALSE
    /\ row = [r \in Rows |-> NoCall]
    /\ late = {}

Among(s) == {s[i] : i \in DOMAIN s}

-----------------------------------------------------------------------------
(* write, writeBatch *)

\* The channel may be one that nobody reads any more.
Send(c) ==
    /\ caller[c] = "sending"
    /\ IF c \in Control
         THEN Len(control) < Depth /\ control' = Append(control, c) /\ UNCHANGED batches
         ELSE Len(batches) < Depth /\ batches' = Append(batches, c) /\ UNCHANGED control
    /\ caller' = [caller EXCEPT ![c] = "waiting"]
    /\ UNCHANGED <<answer, ended, done, writer, stopping, row, late>>

Return(c, a) ==
    /\ caller' = [caller EXCEPT ![c] = "returned"]
    /\ answer' = [answer EXCEPT ![c] = a]
    /\ UNCHANGED <<ended, channels, writer, stopping, row, late>>

\* Mutant of Leave: a caller that waits for its answer does not watch the writer.
LeaveUnwatched(c) ==
    /\ \/ caller[c] \in {"sending", "waiting"} /\ c \in ended /\ Return(c, "canceled")
       \/ caller[c] = "sending" /\ step = "gone" /\ Return(c, "closed")
    /\ UNCHANGED done

\* While it sends, and while it waits.
Leave(c) ==
    /\ caller[c] \in {"sending", "waiting"}
    /\ \/ c \in ended /\ Return(c, "canceled")
       \/ step = "gone" /\ Return(c, "closed")
    /\ UNCHANGED done

Receive(c) ==
    /\ caller[c] = "waiting"
    /\ done[c] # NoAnswer
    /\ Return(c, done[c])
    /\ done' = [done EXCEPT ![c] = NoAnswer]

\* The writer has not looked at the request's context yet.
Unlooked(c) ==
    \/ caller[c] = "sending"
    \/ c \in Among(control) \cup Among(batches)
    \/ c \in Among(taken)

Cancel(c) ==
    /\ c \in Impatient \ ended
    /\ caller[c] # "returned"
    /\ ended' = ended \cup {c}
    /\ late' = IF Unlooked(c) THEN late \cup {c} ELSE late
    /\ UNCHANGED <<callers, channels, done, writer, stopping, row>>

-----------------------------------------------------------------------------
(* writerLoop *)

Goto(label) == step' = label

\* stop comes before anything that waits.
Top ==
    /\ step = "top"
    /\ Goto(IF stopping THEN "gone" ELSE "pick")
    /\ UNCHANGED <<callers, ended, channels, done, taken, active, stopping, row, late>>

\* Once the context has ended, the answer may be dropped.
Answered(c, result) ==
    \/ done' = [done EXCEPT ![c] = result]
    \/ c \in ended /\ UNCHANGED done

\* A control request is taken, and not run if its context has ended.
TakeControl ==
    /\ step \in {"pick", "wait"}
    /\ control # <<>>
    /\ control' = Tail(control)
    /\ LET c == Head(control) IN
         IF c \in ended
           THEN Answered(c, "canceled") /\ Goto("top") /\ UNCHANGED active
           ELSE Goto("run") /\ active' = <<c>> /\ UNCHANGED done
    /\ UNCHANGED <<callers, ended, batches, taken, stopping, row, late>>

\* With no control request there, it waits for whatever comes first.
NoControl ==
    /\ step = "pick"
    /\ control = <<>>
    /\ Goto("wait")
    /\ UNCHANGED <<callers, ended, channels, done, taken, active, stopping, row, late>>

StopWaiting ==
    /\ step = "wait"
    /\ stopping
    /\ Goto("gone")
    /\ UNCHANGED <<callers, ended, channels, done, taken, active, stopping, row, late>>

Free(rs, c) == rs[RowOf[c]] = NoCall

\* What one call makes of the database: it takes effect, or is stale, or fails
\* for a reason of its own, the disk or its context.
Run(c, result) ==
    \/ result = "ok" /\ Free(row, c) /\ row' = [row EXCEPT ![RowOf[c]] = c]
    \/ result = "stale" /\ ~Free(row, c) /\ UNCHANGED row
    \/ result = (IF c \in ended THEN "canceled" ELSE "broken") /\ UNCHANGED row

RunControl ==
    /\ step = "run"
    /\ \E result \in Results :
         /\ Run(Head(active), result)
         /\ Answered(Head(active), result)
    /\ Goto("top")
    /\ active' = <<>>
    /\ UNCHANGED <<callers, ended, channels, taken, stopping, late>>

-----------------------------------------------------------------------------
(* executeWriterBatch *)

TakeBatch ==
    /\ step = "wait"
    /\ batches # <<>>
    /\ taken' = <<Head(batches)>>
    /\ batches' = Tail(batches)
    /\ Goto("collect")
    /\ UNCHANGED <<callers, ended, control, active, done, stopping, row, late>>

\* Mutant of Collect: off by one.
CollectMore ==
    /\ step = "collect"
    /\ batches # <<>>
    /\ Len(taken) <= MaxBatch
    /\ taken' = Append(taken, Head(batches))
    /\ batches' = Tail(batches)
    /\ UNCHANGED <<callers, ended, control, active, done, step, stopping, row, late>>

Collect ==
    /\ step = "collect"
    /\ batches # <<>>
    /\ Len(taken) < MaxBatch
    /\ taken' = Append(taken, Head(batches))
    /\ batches' = Tail(batches)
    /\ UNCHANGED <<callers, ended, control, active, done, step, stopping, row, late>>

\* The place after a request has been looked at: the rest, the batch, or, when
\* none of them is to be run, the next one.
AfterFilter == Goto(IF Tail(taken) # <<>> THEN "filter" ELSE IF active' = <<>> THEN "top" ELSE "batch")

\* Mutant of Filter: contexts are not looked at.
FilterNone ==
    /\ step \in {"collect", "filter"}
    /\ active' = Append(active, Head(taken))
    /\ taken' = Tail(taken)
    /\ AfterFilter
    /\ UNCHANGED <<callers, ended, channels, done, stopping, row, late>>

\* The batch is full or its 5 ms are over: one by one, requests whose context
\* has ended are answered, and the others go on.
Filter ==
    LET c == Head(taken) IN
    /\ step \in {"collect", "filter"}
    /\ IF c \in ended
         THEN done' = [done EXCEPT ![c] = "canceled"] /\ UNCHANGED active
         ELSE active' = Append(active, c) /\ UNCHANGED done
    /\ taken' = Tail(taken)
    /\ AfterFilter
    /\ UNCHANGED <<callers, ended, channels, stopping, row, late>>

\* All of them can take effect one after the other.
AllFree == /\ \A c \in Among(active) : Free(row, c)
           /\ \A c, d \in Among(active) : RowOf[c] = RowOf[d] => c = d

CommitBatch ==
    /\ step = "batch"
    /\ AllFree
    /\ row' = [r \in Rows |-> IF \E c \in Among(active) : RowOf[c] = r
                                THEN CHOOSE c \in Among(active) : RowOf[c] = r ELSE row[r]]
    /\ done' = [c \in Calls |-> IF c \in Among(active) THEN "ok" ELSE done[c]]
    /\ active' = <<>>
    /\ Goto("top")
    /\ UNCHANGED <<callers, ended, channels, taken, stopping, late>>

\* Mutant of RollBack: what failed the batch is everybody's answer.
RollBackAll ==
    /\ step = "batch"
    /\ done' = [c \in Calls |-> IF c \in Among(active)
                                  THEN IF AllFree THEN "broken" ELSE "stale" ELSE done[c]]
    /\ active' = <<>>
    /\ Goto("top")
    /\ UNCHANGED <<callers, ended, channels, taken, stopping, row, late>>

\* A stale item, a context that has ended meanwhile, or the disk.
RollBack ==
    /\ step = "batch"
    /\ Goto("singly")
    /\ UNCHANGED <<callers, ended, channels, done, taken, active, stopping, row, late>>

RunSingly ==
    /\ step = "singly"
    /\ \E result \in Results :
         /\ Run(Head(active), result)
         /\ done' = [done EXCEPT ![Head(active)] = result]
    /\ active' = Tail(active)
    /\ Goto(IF Tail(active) = <<>> THEN "top" ELSE "singly")
    /\ UNCHANGED <<callers, ended, channels, taken, stopping, late>>

Close ==
    /\ ~stopping
    /\ stopping' = TRUE
    /\ UNCHANGED <<callers, ended, channels, done, writer, row, late>>

-----------------------------------------------------------------------------

Write ==
    \/ Top \/ TakeControl \/ NoControl \/ StopWaiting \/ RunControl
    \/ TakeBatch \/ Collect \/ Filter \/ CommitBatch \/ RollBack \/ RunSingly

Wait(c) == Send(c) \/ Leave(c) \/ Receive(c)

AllReturned == \A c \in Calls : caller[c] = "returned"

Rest ==
    /\ AllReturned
    /\ UNCHANGED writerVars

WriterNext ==
    \/ \E c \in Calls : Wait(c) \/ Cancel(c)
    \/ Write
    \/ Close
    \/ Rest

\* The writer and the callers run; nobody need cancel or close.  Calls are
\* finitely many: a stream of control requests may starve the batches.
WriterFairness == WF_writerVars(Write) /\ \A c \in Calls : WF_writerVars(Wait(c))

WriterSpec == WriterInit /\ [][WriterNext]_writerVars /\ WriterFairness

-----------------------------------------------------------------------------
(* Properties *)

\* The types; a batch is never larger than its limit, and a request is in one
\* place at a time.
WriterTypeOK ==
    /\ caller \in [Calls -> {"sending", "waiting", "returned"}]
    /\ answer \in [Calls -> Results \cup {NoAnswer, "closed"}]
    /\ done \in [Calls -> Results \cup {NoAnswer}]
    /\ ended \subseteq Calls /\ late \subseteq ended
    /\ control \in Seq(Control) /\ Len(control) <= Depth
    /\ batches \in Seq(Calls \ Control) /\ Len(batches) <= Depth
    /\ step \in {"top", "pick", "wait", "run", "collect", "filter", "batch", "singly", "gone"}
    /\ taken \in Seq(Calls) /\ active \in Seq(Calls) /\ Len(taken) + Len(active) <= MaxBatch
    /\ stopping \in BOOLEAN
    /\ row \in [Rows -> Calls \cup {NoCall}]
    /\ IsInjective(control \o batches \o taken \o active)

\* An answer of the writer is true: success means that the call's effect is in
\* the database, and stale that it is not, because another call's is.  In
\* particular a stale item of a batch makes no other one fail, and nothing that
\* is tried a second time takes effect twice.
AnswersTrue ==
    \A c \in Calls : \A a \in {answer[c], done[c]} :
        /\ a = "ok" => row[RowOf[c]] = c
        /\ a = "stale" => row[RowOf[c]] \notin {c, NoCall}
        /\ a = "broken" \/ done[c] = "canceled" => row[RowOf[c]] # c

\* A call whose context ended before the writer looked at it never takes
\* effect: its caller may start over.
CanceledInTime == \A c \in late : row[RowOf[c]] # c

=============================================================================
