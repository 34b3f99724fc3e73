---------------------------- MODULE WriterProofs ----------------------------
(* What the single writer of the state answers, whatever its callers, their  *)
(* contexts, the sizes of its channels and batches, and the disk do.         *)
EXTENDS StateWriter, TLAPS

-----------------------------------------------------------------------------
(* The inductive invariant *)

\* The types of the channels and of the writer's hands, within their bounds.
QueueTypes ==
    /\ control \in Seq(Control) /\ Len(control) <= Depth
    /\ batches \in Seq(Calls \ Control) /\ Len(batches) <= Depth
    /\ taken \in Seq(Calls) /\ active \in Seq(Calls) /\ Len(taken) + Len(active) <= MaxBatch

\* The types of the rest.
WriterTypes ==
    /\ QueueTypes
    /\ caller \in [Calls -> {"sending", "waiting", "returned"}]
    /\ answer \in [Calls -> Results \cup {NoAnswer, "closed"}]
    /\ done \in [Calls -> Results \cup {NoAnswer}]
    /\ ended \subseteq Calls /\ late \subseteq ended
    /\ step \in {"top", "pick", "wait", "run", "collect", "filter", "batch", "singly", "gone"}
    /\ stopping \in BOOLEAN
    /\ row \in [Rows -> Calls \cup {NoCall}]

\* What the writer's place says of what it has in its hands.
HandsSay ==
    /\ taken # <<>> <=> step \in {"collect", "filter"}
    /\ step \in {"run", "batch", "singly"} => active # <<>>
    /\ active # <<>> => step \in {"run", "filter", "batch", "singly"}
    /\ step = "run" => Len(active) = 1

\* A request is in one place, once.
OnePlace ==
    /\ IsInjective(control) /\ IsInjective(batches) /\ IsInjective(taken) /\ IsInjective(active)
    /\ Among(control) \cap Among(batches) = {}
    /\ (Among(control) \cup Among(batches)) \cap (Among(taken) \cup Among(active)) = {}
    /\ Among(taken) \cap Among(active) = {}

\* What waits in a channel or is at hand.
Placed == Among(control) \cup Among(batches) \cup Among(taken) \cup Among(active)

\* What waits or is at hand has been sent, not answered, and not run.
PlacedIsUnrun ==
    \A c \in Placed :
        /\ caller[c] # "sending" /\ done[c] = NoAnswer
        /\ answer[c] \in {NoAnswer, "canceled", "closed"}
        /\ row[RowOf[c]] # c

\* Nothing has come of what has not been sent.
SendingIsNew ==
    \A c \in Calls : caller[c] = "sending" =>
        done[c] = NoAnswer /\ answer[c] = NoAnswer /\ row[RowOf[c]] # c

\* A call whose context ended in time is never at hand.
LateIsOut == late \cap Among(active) = {}

\* The inductive invariant.
WriterInv ==
    /\ WriterTypes /\ HandsSay /\ OnePlace
    /\ PlacedIsUnrun /\ SendingIsNew /\ AnswersTrue
    /\ LateIsOut /\ CanceledInTime

USE WriterAssumption
USE DEF writerVars, callers, channels, writer, NoAnswer, Results

-----------------------------------------------------------------------------
(* Queues of distinct items *)

\* What is appended comes last.
LEMMA AppendOne ==
    ASSUME NEW S, NEW s \in Seq(S), NEW x \in S
    PROVE  /\ Append(s, x) \in Seq(S) /\ Append(s, x) # <<>>
           /\ Len(Append(s, x)) = Len(s) + 1
           /\ Among(Append(s, x)) = Among(s) \cup {x}
           /\ IsInjective(s) /\ x \notin Among(s) => IsInjective(Append(s, x))
  <1>1. /\ Append(s, x) \in Seq(S) /\ Len(Append(s, x)) = Len(s) + 1
        /\ Len(s) \in Nat /\ DOMAIN s = 1..Len(s) /\ DOMAIN Append(s, x) = 1..(Len(s) + 1)
    OBVIOUS
  <1>2. /\ \A i \in 1..Len(s) : Append(s, x)[i] = s[i]
        /\ Append(s, x)[Len(s) + 1] = x
    OBVIOUS
  <1>3. \A i \in 1..(Len(s) + 1) : i \in 1..Len(s) \/ i = Len(s) + 1
    BY <1>1
  <1>4. Among(Append(s, x)) = Among(s) \cup {x}
    BY <1>1, <1>2, <1>3 DEF Among
  <1>5. IsInjective(s) /\ x \notin Among(s) => IsInjective(Append(s, x))
    BY <1>1, <1>2, <1>3 DEF Among, IsInjective
  <1> QED
    BY <1>1, <1>4, <1>5

\* What is taken is the head, and is in the rest no more.
LEMMA TakeOne ==
    ASSUME NEW S, NEW s \in Seq(S), s # <<>>
    PROVE  /\ Head(s) \in S /\ Head(s) \in Among(s)
           /\ Tail(s) \in Seq(S) /\ Len(Tail(s)) = Len(s) - 1
           /\ IsInjective(s) =>
                /\ IsInjective(Tail(s))
                /\ Among(Tail(s)) = Among(s) \ {Head(s)}
  <1>1. Len(s) \in Nat /\ Len(s) # 0 /\ DOMAIN s = 1..Len(s)
    OBVIOUS
  <1>2. Head(s) = s[1] /\ 1 \in DOMAIN s
    BY <1>1
  <1>3. /\ Tail(s) \in Seq(S) /\ Len(Tail(s)) = Len(s) - 1
        /\ DOMAIN Tail(s) = 1..(Len(s) - 1)
        /\ \A i \in 1..(Len(s) - 1) : Tail(s)[i] = s[i + 1]
    BY <1>1
  <1>4. ASSUME IsInjective(s)
        PROVE  IsInjective(Tail(s)) /\ Among(Tail(s)) = Among(s) \ {Head(s)}
    <2>1. \A i \in 1..(Len(s) - 1) : i + 1 \in DOMAIN s /\ i + 1 # 1
      BY <1>1
    <2>2. \A i \in DOMAIN s : i # 1 => i - 1 \in 1..(Len(s) - 1) /\ (i - 1) + 1 = i
      BY <1>1
    <2>3. \A i, k \in 1..(Len(s) - 1) : i + 1 = k + 1 => i = k
      BY <1>1
    <2>4. IsInjective(Tail(s))
      BY <1>3, <1>4, <2>1, <2>3 DEF IsInjective
    <2>5. Among(Tail(s)) \subseteq Among(s) \ {Head(s)}
      BY <1>2, <1>3, <1>4, <2>1 DEF IsInjective, Among
    <2>6. Among(s) \ {Head(s)} \subseteq Among(Tail(s))
      BY <1>2, <1>3, <2>2 DEF Among
    <2> QED
      BY <2>4, <2>5, <2>6
  <1>5. Head(s) \in S /\ Head(s) \in Among(s)
    BY <1>2 DEF Among
  <1> QED
    BY <1>3, <1>4, <1>5

\* A single item is a queue of its own.
LEMMA OneOnly ==
    ASSUME NEW S, NEW x \in S
    PROVE  /\ <<x>> \in Seq(S) /\ <<x>> # <<>> /\ Len(<<x>>) = 1
           /\ Among(<<x>>) = {x} /\ IsInjective(<<x>>) /\ Head(<<x>>) = x
  BY DEF Among, IsInjective

\* Nothing is a queue as well.
LEMMA Empty ==
    ASSUME NEW S
    PROVE  /\ <<>> \in Seq(S) /\ Len(<<>>) = 0
           /\ Among(<<>>) = {} /\ IsInjective(<<>>)
  BY DEF Among, IsInjective

-----------------------------------------------------------------------------
(* The requests on their way *)

\* Every step types the channels and the writer's hands, keeps a request in one
\* place, and brings in nothing but what is sent.
LEMMA PlacesStep ==
    ASSUME WriterInv, [WriterNext]_writerVars
    PROVE  /\ QueueTypes' /\ HandsSay' /\ OnePlace'
           /\ \A c \in Placed' : c \in Placed \/ (c \in Calls /\ Send(c))
           /\ \A c \in Among(active') : c \in Among(active) \/ c \in Placed \ ended
  <1>0. WriterTypes /\ QueueTypes /\ HandsSay /\ OnePlace /\ PlacedIsUnrun /\ SendingIsNew
    BY DEF WriterInv, WriterTypes
  <1>1. /\ control \in Seq(Control) /\ batches \in Seq(Calls \ Control)
        /\ taken \in Seq(Calls) /\ active \in Seq(Calls)
    BY <1>0 DEF QueueTypes
  <1>2. /\ Len(control) \in Nat /\ Len(batches) \in Nat /\ Len(taken) \in Nat /\ Len(active) \in Nat
        /\ Len(control) <= Depth /\ Len(batches) <= Depth /\ Len(taken) + Len(active) <= MaxBatch
    BY <1>0 DEF QueueTypes
  <1>3. /\ Among(control) \subseteq Control /\ Among(batches) \subseteq Calls \ Control
        /\ Among(taken) \subseteq Calls /\ Among(active) \subseteq Calls
    BY <1>1 DEF Among
  <1>4. /\ IsInjective(control) /\ IsInjective(batches) /\ IsInjective(taken) /\ IsInjective(active)
        /\ Among(control) \cap Among(batches) = {}
        /\ (Among(control) \cup Among(batches)) \cap (Among(taken) \cup Among(active)) = {}
        /\ Among(taken) \cap Among(active) = {}
    BY <1>0 DEF OnePlace
  <1>5. CASE UNCHANGED <<channels, writer>>
    <2>1. QueueTypes' /\ HandsSay' /\ OnePlace'
      <3>1. /\ control' = control /\ batches' = batches
            /\ taken' = taken /\ active' = active /\ step' = step
        BY <1>5
      <3>2. QueueTypes'
        BY <1>0, <3>1 DEF QueueTypes
      <3>3. HandsSay'
        BY <1>0, <3>1 DEF HandsSay
      <3>4. OnePlace'
        BY <1>4, <3>1 DEF OnePlace
      <3> QED
        BY <3>2, <3>3, <3>4
    <2>2. Placed' = Placed /\ active' = active
      BY <1>5 DEF Placed
    <2> QED
      BY <2>1, <2>2
  <1>6. ASSUME NEW c \in Calls, Send(c)
        PROVE  /\ QueueTypes' /\ HandsSay' /\ OnePlace'
               /\ Placed' = Placed \cup {c} /\ active' = active
    <2>1. caller[c] = "sending" /\ UNCHANGED writer
          /\ \/ c \in Control /\ Len(control) < Depth /\ control' = Append(control, c) /\ batches' = batches
             \/ c \notin Control /\ Len(batches) < Depth /\ batches' = Append(batches, c) /\ control' = control
      BY <1>6 DEF Send
    <2>2. c \notin Placed
      BY <1>0, <2>1 DEF PlacedIsUnrun
    <2>3. HandsSay'
      BY <1>0, <2>1 DEF HandsSay
    <2>4. CASE c \in Control
      <3>1. control' = Append(control, c) /\ batches' = batches /\ Len(control) < Depth
        BY <2>1, <2>4
      <3>2. /\ control' \in Seq(Control) /\ Len(control') = Len(control) + 1
            /\ Among(control') = Among(control) \cup {c} /\ IsInjective(control')
        BY <1>1, <1>4, <2>2, <2>4, <3>1, AppendOne DEF Placed
      <3>3. Len(control') <= Depth
        BY <1>2, <3>1, <3>2
      <3>4. QueueTypes'
        BY <1>1, <1>2, <2>1, <3>1, <3>2, <3>3 DEF QueueTypes
      <3>5. OnePlace'
        BY <1>4, <2>1, <2>2, <3>1, <3>2 DEF OnePlace, Placed
      <3>6. Placed' = Placed \cup {c}
        BY <2>1, <3>1, <3>2 DEF Placed
      <3> QED
        BY <2>1, <2>3, <3>4, <3>5, <3>6
    <2>5. CASE c \notin Control
      <3>1. batches' = Append(batches, c) /\ control' = control /\ Len(batches) < Depth
        BY <2>1, <2>5
      <3>2. /\ batches' \in Seq(Calls \ Control) /\ Len(batches') = Len(batches) + 1
            /\ Among(batches') = Among(batches) \cup {c} /\ IsInjective(batches')
        BY <1>1, <1>4, <2>2, <2>5, <3>1, AppendOne DEF Placed
      <3>3. Len(batches') <= Depth
        BY <1>2, <3>1, <3>2
      <3>4. QueueTypes'
        BY <1>1, <1>2, <2>1, <3>1, <3>2, <3>3 DEF QueueTypes
      <3>5. OnePlace'
        BY <1>4, <2>1, <2>2, <3>1, <3>2 DEF OnePlace, Placed
      <3>6. Placed' = Placed \cup {c}
        BY <2>1, <3>1, <3>2 DEF Placed
      <3> QED
        BY <2>1, <2>3, <3>4, <3>5, <3>6
    <2> QED
      BY <2>4, <2>5
  <1>7. CASE Top \/ NoControl \/ StopWaiting \/ RollBack
    <2>1. UNCHANGED <<channels, taken, active>>
      BY <1>7 DEF Top, NoControl, StopWaiting, RollBack
    <2>2. QueueTypes' /\ OnePlace'
      <3>1. control' = control /\ batches' = batches /\ taken' = taken /\ active' = active
        BY <2>1
      <3>2. QueueTypes'
        BY <1>0, <3>1 DEF QueueTypes
      <3>3. OnePlace'
        BY <1>4, <3>1 DEF OnePlace
      <3> QED
        BY <3>2, <3>3
    <2>3. HandsSay'
      BY <1>0, <1>7 DEF Top, NoControl, StopWaiting, RollBack, Goto, HandsSay
    <2>4. Placed' = Placed /\ active' = active
      BY <2>1 DEF Placed
    <2> QED
      BY <2>2, <2>3, <2>4
  <1>8. CASE TakeControl
    <2> DEFINE c == Head(control)
    <2>1. /\ control' = Tail(control) /\ control # <<>> /\ UNCHANGED <<batches, taken>>
          /\ taken = <<>> /\ active = <<>>
          /\ \/ c \in ended /\ step' = "top" /\ active' = <<>>
             \/ c \notin ended /\ step' = "run" /\ active' = <<c>>
      BY <1>0, <1>8 DEF TakeControl, Goto, HandsSay
    <2>2. /\ c \in Control /\ c \in Among(control)
          /\ control' \in Seq(Control) /\ Len(control') = Len(control) - 1
          /\ IsInjective(control') /\ Among(control') = Among(control) \ {c}
      BY <1>1, <1>4, <2>1, TakeOne
    <2>3. /\ active' \in Seq(Calls) /\ IsInjective(active')
          /\ Among(active') \subseteq {c} \ ended
          /\ Len(active') \in {0, 1}
          /\ HandsSay'
      <3>1. CASE c \in ended /\ step' = "top" /\ active' = <<>>
        <4>1. active' \in Seq(Calls) /\ Len(active') = 0 /\ Among(active') = {} /\ IsInjective(active')
          BY <3>1, Empty
        <4> QED
          BY <2>1, <3>1, <4>1 DEF HandsSay
      <3>2. CASE c \notin ended /\ step' = "run" /\ active' = <<c>>
        <4>1. /\ active' \in Seq(Calls) /\ Len(active') = 1 /\ Among(active') = {c} /\ IsInjective(active')
              /\ active' # <<>>
          BY <2>2, <3>2, OneOnly
        <4> QED
          BY <2>1, <3>2, <4>1 DEF HandsSay
      <3> QED
        BY <2>1, <3>1, <3>2
    <2> HIDE DEF c
    <2>4. Len(control') <= Depth
      BY <1>2, <2>2
    <2>5. Len(taken') = 0
      BY <2>1
    <2>6. Len(taken') + Len(active') <= MaxBatch
      <3>1. \A n \in {0, 1} : 0 + n <= MaxBatch
        OBVIOUS
      <3> QED
        BY <2>3, <2>5, <3>1
    <2>7. QueueTypes'
      BY <1>1, <1>2, <2>1, <2>2, <2>3, <2>4, <2>6 DEF QueueTypes
    <2>8. OnePlace'
      BY <1>4, <2>1, <2>2, <2>3 DEF OnePlace
    <2>9. Placed' \subseteq Placed /\ Among(active') \subseteq Placed \ ended
      BY <2>1, <2>2, <2>3 DEF Placed
    <2> QED
      BY <2>3, <2>7, <2>8, <2>9
  <1>9. CASE RunControl \/ CommitBatch
    <2>1. /\ active' = <<>> /\ UNCHANGED <<channels, taken>> /\ step' = "top" /\ taken = <<>>
      BY <1>0, <1>9 DEF RunControl, CommitBatch, Goto, HandsSay
    <2>2. active' \in Seq(Calls) /\ Len(active') = 0 /\ Among(active') = {} /\ IsInjective(active')
      BY <2>1, Empty
    <2>3. Len(taken') + Len(active') <= MaxBatch
      <3>1. Len(taken') \in Nat /\ Len(taken') <= MaxBatch
        BY <1>2, <2>1
      <3> QED
        BY <2>2, <3>1
    <2>4. QueueTypes'
      BY <1>1, <1>2, <2>1, <2>2, <2>3 DEF QueueTypes
    <2>5. HandsSay'
      BY <2>1 DEF HandsSay
    <2>6. OnePlace'
      BY <1>4, <2>1, <2>2 DEF OnePlace
    <2>7. Placed' \subseteq Placed
      BY <2>1, <2>2 DEF Placed
    <2> QED
      BY <2>2, <2>4, <2>5, <2>6, <2>7
  <1>10. CASE TakeBatch
    <2> DEFINE c == Head(batches)
    <2>1. /\ batches' = Tail(batches) /\ batches # <<>> /\ UNCHANGED <<control, active>>
          /\ taken = <<>> /\ active = <<>> /\ step' = "collect" /\ taken' = <<c>>
      BY <1>0, <1>10 DEF TakeBatch, Goto, HandsSay
    <2>2. /\ c \in Calls \ Control /\ c \in Among(batches)
          /\ batches' \in Seq(Calls \ Control) /\ Len(batches') = Len(batches) - 1
          /\ IsInjective(batches') /\ Among(batches') = Among(batches) \ {c}
      BY <1>1, <1>4, <2>1, TakeOne
    <2>3. /\ Len(taken') = 1 /\ taken' \in Seq(Calls) /\ IsInjective(taken')
          /\ Among(taken') = {c} /\ taken' # <<>>
      BY <2>1, <2>2, OneOnly
    <2>4. HandsSay'
      BY <2>1, <2>3 DEF HandsSay
    <2> HIDE DEF c
    <2>5. Len(batches') <= Depth
      BY <1>2, <2>2
    <2>6. Len(active') = 0
      BY <2>1
    <2>7. Len(taken') + Len(active') <= MaxBatch
      BY <2>3, <2>6
    <2>8. QueueTypes'
      BY <1>1, <1>2, <2>1, <2>2, <2>3, <2>5, <2>7 DEF QueueTypes
    <2>9. OnePlace'
      BY <1>4, <2>1, <2>2, <2>3 DEF OnePlace
    <2>10. Placed' \subseteq Placed
      BY <2>1, <2>2, <2>3 DEF Placed
    <2> QED
      BY <2>1, <2>4, <2>8, <2>9, <2>10
  <1>11. CASE Collect
    <2> DEFINE c == Head(batches)
    <2>1. /\ batches' = Tail(batches) /\ batches # <<>> /\ UNCHANGED <<control, active, step>>
          /\ Len(taken) < MaxBatch /\ step = "collect" /\ taken' = Append(taken, c)
      BY <1>11 DEF Collect
    <2>2. active = <<>>
      BY <1>0, <2>1 DEF HandsSay
    <2>3. /\ c \in Calls \ Control /\ c \in Among(batches)
          /\ batches' \in Seq(Calls \ Control) /\ Len(batches') = Len(batches) - 1
          /\ IsInjective(batches') /\ Among(batches') = Among(batches) \ {c}
      BY <1>1, <1>4, <2>1, TakeOne
    <2> HIDE DEF c
    <2>4. c \notin Among(taken)
      BY <1>4, <2>3
    <2>5. /\ Len(taken') = Len(taken) + 1 /\ taken' \in Seq(Calls) /\ IsInjective(taken')
          /\ Among(taken') = Among(taken) \cup {c} /\ taken' # <<>>
      <3>1. c \in Calls /\ taken \in Seq(Calls) /\ IsInjective(taken)
        BY <1>1, <1>4, <2>3
      <3> QED
        BY <2>1, <2>4, <3>1, AppendOne
    <2>6. HandsSay'
      BY <1>0, <2>1, <2>5 DEF HandsSay
    <2>7. Len(batches') <= Depth
      BY <1>2, <2>3
    <2>8. Len(active') = 0
      BY <2>1, <2>2
    <2>9. Len(taken') + Len(active') <= MaxBatch
      BY <1>2, <2>1, <2>5, <2>8
    <2>10. QueueTypes'
      BY <1>1, <1>2, <2>1, <2>3, <2>5, <2>7, <2>9 DEF QueueTypes
    <2>11. OnePlace'
      BY <1>4, <2>1, <2>3, <2>5 DEF OnePlace
    <2>12. Placed' \subseteq Placed
      BY <2>1, <2>3, <2>5 DEF Placed
    <2> QED
      BY <2>1, <2>6, <2>10, <2>11, <2>12
  <1>12. CASE Filter
    <2> DEFINE c == Head(taken)
    <2>1. /\ taken' = Tail(taken) /\ taken # <<>> /\ UNCHANGED channels
          /\ \/ c \in ended /\ active' = active
             \/ c \notin ended /\ active' = Append(active, c)
          /\ step' = IF Tail(taken) # <<>> THEN "filter" ELSE IF active' = <<>> THEN "top" ELSE "batch"
      BY <1>0, <1>12 DEF Filter, AfterFilter, Goto, HandsSay
    <2>2. /\ c \in Calls /\ c \in Among(taken)
          /\ taken' \in Seq(Calls) /\ Len(taken') = Len(taken) - 1
          /\ IsInjective(taken') /\ Among(taken') = Among(taken) \ {c}
      BY <1>1, <1>4, <2>1, TakeOne
    <2>3. HandsSay'
      BY <2>1 DEF HandsSay
    <2> HIDE DEF c
    <2>4. c \notin Among(active)
      BY <1>4, <2>2
    <2>5. /\ active' \in Seq(Calls) /\ IsInjective(active') /\ Len(active') \in {Len(active), Len(active) + 1}
          /\ Among(active') \subseteq Among(active) \cup ({c} \ ended)
      <3>1. CASE active' = active
        BY <1>1, <1>4, <3>1
      <3>2. CASE c \notin ended /\ active' = Append(active, c)
        BY <1>1, <1>4, <2>2, <2>4, <3>2, AppendOne
      <3> QED
        BY <2>1, <3>1, <3>2
    <2>6. Len(taken') + Len(active') <= MaxBatch
      BY <1>2, <2>2, <2>5
    <2>7. QueueTypes'
      BY <1>1, <1>2, <2>1, <2>2, <2>5, <2>6 DEF QueueTypes
    <2>8. OnePlace'
      BY <1>4, <2>1, <2>2, <2>5 DEF OnePlace
    <2>9. Placed' \subseteq Placed
      BY <2>1, <2>2, <2>5 DEF Placed
    <2>10. \A d \in Among(active') : d \in Among(active) \/ d \in Placed \ ended
      BY <2>2, <2>5 DEF Placed
    <2> QED
      BY <2>3, <2>7, <2>8, <2>9, <2>10
  <1>13. CASE RunSingly
    <2> DEFINE c == Head(active)
    <2>1. /\ active' = Tail(active) /\ active # <<>> /\ UNCHANGED <<channels, taken>> /\ taken = <<>>
          /\ step' = IF Tail(active) = <<>> THEN "top" ELSE "singly"
      BY <1>0, <1>13 DEF RunSingly, Goto, HandsSay
    <2>2. /\ c \in Calls /\ c \in Among(active)
          /\ active' \in Seq(Calls) /\ Len(active') = Len(active) - 1
          /\ IsInjective(active') /\ Among(active') = Among(active) \ {c}
      BY <1>1, <1>4, <2>1, TakeOne
    <2>3. HandsSay'
      BY <2>1 DEF HandsSay
    <2> HIDE DEF c
    <2>4. Len(taken') + Len(active') <= MaxBatch
      <3>1. Len(taken') = Len(taken)
        BY <2>1
      <3>2. \A m, n \in Nat : m + n <= MaxBatch => m + (n - 1) <= MaxBatch
        OBVIOUS
      <3> QED
        BY <1>2, <2>2, <3>1, <3>2
    <2>5. QueueTypes'
      BY <1>1, <1>2, <2>1, <2>2, <2>4 DEF QueueTypes
    <2>6. OnePlace'
      BY <1>4, <2>1, <2>2 DEF OnePlace
    <2>7. Placed' \subseteq Placed /\ Among(active') \subseteq Among(active)
      BY <2>1, <2>2 DEF Placed
    <2> QED
      BY <2>3, <2>5, <2>6, <2>7
  <1>14. \A c \in Calls : Leave(c) \/ Receive(c) \/ Cancel(c) => UNCHANGED <<channels, writer>>
    BY DEF Leave, Receive, Cancel, Return
  <1>15. Close \/ Rest \/ UNCHANGED writerVars => UNCHANGED <<channels, writer>>
    BY DEF Close, Rest
  <1>16. CASE \E c \in Calls : Send(c)
    <2>1. PICK c \in Calls : Send(c)
      BY <1>16
    <2>2. /\ QueueTypes' /\ HandsSay' /\ OnePlace'
          /\ Placed' = Placed \cup {c} /\ active' = active
      BY <1>6, <2>1
    <2> QED
      BY <2>1, <2>2
  <1> QED
    BY <1>5, <1>7, <1>8, <1>9, <1>10, <1>11, <1>12, <1>13, <1>14, <1>15, <1>16
       DEF WriterNext, Wait, Write

\* Where the requests are, as the invariant has it.
LEMMA PlacesNow ==
    ASSUME WriterInv
    PROVE  /\ control \in Seq(Control) /\ batches \in Seq(Calls \ Control)
           /\ taken \in Seq(Calls) /\ active \in Seq(Calls)
           /\ IsInjective(control) /\ IsInjective(taken) /\ IsInjective(active)
           /\ Among(control) \cap Among(batches) = {}
           /\ (Among(control) \cup Among(batches)) \cap (Among(taken) \cup Among(active)) = {}
           /\ Among(taken) \cap Among(active) = {}
           /\ Placed \subseteq Calls /\ Among(active) \subseteq Placed
  <1>1. QueueTypes /\ OnePlace
    BY DEF WriterInv, WriterTypes
  <1>2. /\ control \in Seq(Control) /\ batches \in Seq(Calls \ Control)
        /\ taken \in Seq(Calls) /\ active \in Seq(Calls)
    BY <1>1 DEF QueueTypes
  <1>3. /\ Among(control) \subseteq Control /\ Among(batches) \subseteq Calls \ Control
        /\ Among(taken) \subseteq Calls /\ Among(active) \subseteq Calls
    BY <1>2 DEF Among
  <1>4. Placed \subseteq Calls /\ Among(active) \subseteq Placed
    BY <1>3 DEF Placed
  <1> QED
    BY <1>1, <1>2, <1>4 DEF OnePlace

\* What is answered or run leaves its place for good.
LEMMA DoneIsGone ==
    ASSUME WriterInv
    PROVE  /\ RunControl \/ RunSingly => Head(active) \in Among(active) \ Placed'
           /\ CommitBatch => Among(active) \cap Placed' = {}
           /\ TakeControl /\ Head(control) \in ended => Head(control) \in Placed \ Placed'
           /\ Filter /\ Head(taken) \in ended => Head(taken) \in Placed \ Placed'
  <1> USE PlacesNow
  <1>0. HandsSay
    BY DEF WriterInv
  <1>1. ASSUME RunControl \/ CommitBatch
        PROVE  /\ Among(active) \cap Placed' = {}
               /\ RunControl => Head(active) \in Among(active)
    <2>1. active' = <<>> /\ control' = control /\ batches' = batches /\ taken' = taken
      BY <1>1 DEF RunControl, CommitBatch
    <2>2. Among(active') = {}
      BY <2>1, Empty
    <2>3. Placed' = Among(control) \cup Among(batches) \cup Among(taken)
      BY <2>1, <2>2 DEF Placed
    <2>4. RunControl => active # <<>>
      BY <1>0 DEF RunControl, HandsSay
    <2>5. RunControl => Head(active) \in Among(active)
      BY <2>4, TakeOne
    <2> QED
      BY <2>3, <2>5
  <1>2. ASSUME RunSingly
        PROVE  Head(active) \in Among(active) \ Placed'
    <2>1. /\ active' = Tail(active) /\ active # <<>>
          /\ control' = control /\ batches' = batches /\ taken' = taken
      BY <1>0, <1>2 DEF RunSingly, HandsSay
    <2>2. Head(active) \in Among(active) /\ Among(active') = Among(active) \ {Head(active)}
      BY <2>1, TakeOne
    <2>3. Placed' = Among(control) \cup Among(batches) \cup Among(taken) \cup Among(active')
      BY <2>1 DEF Placed
    <2> QED
      BY <2>2, <2>3
  <1>3. ASSUME TakeControl, Head(control) \in ended
        PROVE  Head(control) \in Placed \ Placed'
    <2>1. /\ control' = Tail(control) /\ control # <<>>
          /\ active' = active /\ batches' = batches /\ taken' = taken
      BY <1>3 DEF TakeControl
    <2>2. Head(control) \in Among(control) /\ Among(control') = Among(control) \ {Head(control)}
      BY <2>1, TakeOne
    <2>3. Placed' = Among(control') \cup Among(batches) \cup Among(taken) \cup Among(active)
      BY <2>1 DEF Placed
    <2>4. Head(control) \in Placed
      BY <2>2 DEF Placed
    <2> QED
      BY <2>2, <2>3, <2>4
  <1>4. ASSUME Filter, Head(taken) \in ended
        PROVE  Head(taken) \in Placed \ Placed'
    <2>1. /\ taken' = Tail(taken) /\ taken # <<>>
          /\ active' = active /\ batches' = batches /\ control' = control
      BY <1>0, <1>4 DEF Filter, HandsSay
    <2>2. Head(taken) \in Among(taken) /\ Among(taken') = Among(taken) \ {Head(taken)}
      BY <2>1, TakeOne
    <2>3. Placed' = Among(control) \cup Among(batches) \cup Among(taken') \cup Among(active)
      BY <2>1 DEF Placed
    <2>4. Head(taken) \in Placed
      BY <2>2 DEF Placed
    <2> QED
      BY <2>2, <2>3, <2>4
  <1> QED
    BY <1>1, <1>2, <1>3, <1>4

-----------------------------------------------------------------------------
(* The writer's answers *)

\* An answer that is true of the database.
Says(c, a, rows) ==
    /\ a = "ok" => rows[RowOf[c]] = c
    /\ a = "stale" => rows[RowOf[c]] \notin {c, NoCall}
    /\ a \in {"broken", "canceled"} => rows[RowOf[c]] # c

\* A row is settled once, by a call at hand, which thereby leaves.
RowStep ==
    /\ row' \in [Rows -> Calls \cup {NoCall}]
    /\ \A r \in Rows : \/ row'[r] = row[r]
                       \/ /\ row[r] = NoCall /\ row'[r] \in Among(active) \ Placed'
                          /\ RowOf[row'[r]] = r

\* A call is answered when it leaves, truly.
DoneStep ==
    /\ done' \in [Calls -> Results \cup {NoAnswer}]
    /\ \A c \in Calls : \/ done'[c] = done[c]
                        \/ Receive(c) /\ done'[c] = NoAnswer
                        \/ c \in Placed \ Placed' /\ Says(c, done'[c], row')

\* What the state's write makes of a call's row, and what it answers.
LEMMA RunSays ==
    ASSUME WriterInv, NEW c \in Among(active) \ Placed', NEW result \in Results,
           Run(c, result)
    PROVE  RowStep /\ Says(c, result, row')
  <1>1. /\ row \in [Rows -> Calls \cup {NoCall}] /\ c \in Calls /\ RowOf[c] \in Rows
        /\ row[RowOf[c]] # c /\ c # NoCall /\ c \in Placed
    BY PlacesNow DEF WriterInv, WriterTypes, PlacedIsUnrun
  <1>2. CASE result = "ok" /\ Free(row, c) /\ row' = [row EXCEPT ![RowOf[c]] = c]
    <2>1. /\ row' \in [Rows -> Calls \cup {NoCall}]
          /\ row'[RowOf[c]] = c /\ row[RowOf[c]] = NoCall
          /\ \A r \in Rows : r # RowOf[c] => row'[r] = row[r]
      BY <1>1, <1>2 DEF Free
    <2>2. RowStep
      BY <1>1, <2>1 DEF RowStep
    <2>3. Says(c, result, row')
      BY <1>2, <2>1 DEF Says
    <2> QED
      BY <2>2, <2>3
  <1>3. CASE row' = row /\ (result = "stale" => ~Free(row, c)) /\ result # "ok"
    BY <1>1, <1>3 DEF RowStep, Says, Free
  <1> QED
    BY <1>2, <1>3 DEF Run

\* The rows, and the answers, of every step.
LEMMA EffectStep ==
    ASSUME WriterInv, [WriterNext]_writerVars
    PROVE  RowStep /\ DoneStep
  <1>0. /\ row \in [Rows -> Calls \cup {NoCall}] /\ done \in [Calls -> Results \cup {NoAnswer}]
        /\ PlacedIsUnrun
    BY DEF WriterInv, WriterTypes
  <1>1. ASSUME UNCHANGED row PROVE RowStep
    BY <1>0, <1>1 DEF RowStep
  <1>2. ASSUME UNCHANGED done PROVE DoneStep
    BY <1>0, <1>2 DEF DoneStep
  <1>3. ASSUME NEW c \in Placed \ Placed', NEW result \in Results, Says(c, result, row'),
               done' = [done EXCEPT ![c] = result]
        PROVE  DoneStep
    <2>1. c \in Calls
      BY PlacesNow
    <2>2. /\ done' \in [Calls -> Results \cup {NoAnswer}] /\ done'[c] = result
          /\ \A d \in Calls : d # c => done'[d] = done[d]
      BY <1>0, <1>3, <2>1
    <2> QED
      BY <1>3, <2>2 DEF DoneStep
  <1>4. CASE TakeControl
    <2>1. UNCHANGED row
      BY <1>4 DEF TakeControl
    <2>2. CASE UNCHANGED done
      BY <1>1, <1>2, <2>1, <2>2
    <2>3. CASE Head(control) \in ended /\ done' = [done EXCEPT ![Head(control)] = "canceled"]
      <3>1. Head(control) \in Placed \ Placed'
        BY <1>4, <2>3, DoneIsGone
      <3>2. Says(Head(control), "canceled", row')
        BY <1>0, <2>1, <3>1 DEF Says, PlacedIsUnrun
      <3>3. DoneStep
        BY <1>3, <2>3, <3>1, <3>2
      <3> QED
        BY <1>1, <2>1, <3>3
    <2> QED
      BY <1>4, <2>2, <2>3 DEF TakeControl, Answered
  <1>5. CASE Filter
    <2>1. UNCHANGED row
      BY <1>5 DEF Filter
    <2>2. CASE UNCHANGED done
      BY <1>1, <1>2, <2>1, <2>2
    <2>3. CASE Head(taken) \in ended /\ done' = [done EXCEPT ![Head(taken)] = "canceled"]
      <3>1. Head(taken) \in Placed \ Placed'
        BY <1>5, <2>3, DoneIsGone
      <3>2. Says(Head(taken), "canceled", row')
        BY <1>0, <2>1, <3>1 DEF Says, PlacedIsUnrun
      <3>3. DoneStep
        BY <1>3, <2>3, <3>1, <3>2
      <3> QED
        BY <1>1, <2>1, <3>3
    <2> QED
      BY <1>5, <2>2, <2>3 DEF Filter
  <1>6. CASE RunControl \/ RunSingly
    <2>1. PICK result \in Results :
            /\ Run(Head(active), result)
            /\ done' = [done EXCEPT ![Head(active)] = result] \/ UNCHANGED done
      BY <1>6 DEF RunControl, RunSingly, Answered
    <2>2. Head(active) \in Among(active) \ Placed'
      BY <1>6, DoneIsGone
    <2>3. RowStep /\ Says(Head(active), result, row')
      BY <2>1, <2>2, RunSays
    <2>4. Head(active) \in Placed \ Placed'
      BY <2>2, PlacesNow
    <2> QED
      BY <1>2, <1>3, <2>1, <2>3, <2>4
  <1>7. CASE CommitBatch
    <2>1. /\ \A c \in Among(active) : row[RowOf[c]] = NoCall
          /\ \A c, d \in Among(active) : RowOf[c] = RowOf[d] => c = d
      BY <1>7 DEF CommitBatch, AllFree, Free
    <2>2. /\ row' = [r \in Rows |-> IF \E c \in Among(active) : RowOf[c] = r
                                      THEN CHOOSE c \in Among(active) : RowOf[c] = r ELSE row[r]]
          /\ done' = [c \in Calls |-> IF c \in Among(active) THEN "ok" ELSE done[c]]
      BY <1>7 DEF CommitBatch
    <2>3. Among(active) \subseteq Calls /\ Among(active) \cap Placed' = {} /\ Among(active) \subseteq Placed
      BY <1>7, PlacesNow, DoneIsGone
    <2>4. \A r \in Rows : \/ /\ row'[r] \in Among(active) /\ RowOf[row'[r]] = r
                             /\ row[r] = NoCall
                          \/ row'[r] = row[r]
      <3>1. TAKE r \in Rows
      <3>2. CASE \E c \in Among(active) : RowOf[c] = r
        <4>1. row'[r] = CHOOSE c \in Among(active) : RowOf[c] = r
          BY <2>2, <3>2
        <4>2. row'[r] \in Among(active) /\ RowOf[row'[r]] = r
          BY <3>2, <4>1
        <4> QED
          BY <2>1, <4>2
      <3>3. CASE ~\E c \in Among(active) : RowOf[c] = r
        BY <2>2, <3>3
      <3> QED
        BY <3>2, <3>3
    <2>5. row' \in [Rows -> Calls \cup {NoCall}]
      <3>1. \A r \in Rows : row'[r] \in Calls \cup {NoCall}
        BY <1>0, <2>3, <2>4
      <3>2. row' = [r \in Rows |-> row'[r]]
        BY <2>2
      <3> QED
        BY <3>1, <3>2
    <2>6. RowStep
      BY <2>3, <2>4, <2>5 DEF RowStep
    <2>7. ASSUME NEW c \in Among(active) PROVE Says(c, "ok", row')
      <3>1. c \in Calls /\ RowOf[c] \in Rows
        BY <2>3
      <3>2. row'[RowOf[c]] = CHOOSE d \in Among(active) : RowOf[d] = RowOf[c]
        BY <2>2, <3>1
      <3>3. row'[RowOf[c]] \in Among(active) /\ RowOf[row'[RowOf[c]]] = RowOf[c]
        BY <3>2
      <3>4. row'[RowOf[c]] = c
        BY <2>1, <3>3
      <3> QED
        BY <3>4 DEF Says
    <2>8. \A c \in Calls : done'[c] = IF c \in Among(active) THEN "ok" ELSE done[c]
      BY <2>2
    <2>9. DoneStep
      <3>1. \A c \in Calls : done'[c] \in Results \cup {NoAnswer}
        BY <1>0, <2>8
      <3>2. done' \in [Calls -> Results \cup {NoAnswer}]
        BY <2>2, <3>1
      <3> QED
        BY <2>3, <2>7, <2>8, <3>2 DEF DoneStep
    <2> QED
      BY <2>6, <2>9
  <1>8. CASE Top \/ NoControl \/ StopWaiting \/ TakeBatch \/ Collect \/ RollBack \/ Close \/ Rest
             \/ UNCHANGED writerVars
    <2>1. UNCHANGED <<row, done>>
      BY <1>8 DEF Top, NoControl, StopWaiting, TakeBatch, Collect, RollBack, Close, Rest
    <2> QED
      BY <1>1, <1>2, <2>1
  <1>9. CASE \E c \in Calls : Send(c) \/ Leave(c) \/ Cancel(c)
    <2>1. UNCHANGED <<row, done>>
      BY <1>9 DEF Send, Leave, Cancel, Return
    <2> QED
      BY <1>1, <1>2, <2>1
  <1>10. CASE \E c \in Calls : Receive(c)
    <2>1. PICK c \in Calls : Receive(c)
      BY <1>10
    <2>2. UNCHANGED row /\ done' = [done EXCEPT ![c] = NoAnswer]
      BY <2>1 DEF Receive, Return
    <2>3. /\ done' \in [Calls -> Results \cup {NoAnswer}] /\ done'[c] = NoAnswer
          /\ \A d \in Calls : d # c => done'[d] = done[d]
      BY <1>0, <2>2
    <2>4. DoneStep
      BY <2>1, <2>3 DEF DoneStep
    <2> QED
      BY <1>1, <2>2, <2>4
  <1> QED
    BY <1>4, <1>5, <1>6, <1>7, <1>8, <1>9, <1>10 DEF WriterNext, Wait, Write

-----------------------------------------------------------------------------
(* The callers *)

\* A caller is answered once, by its own leaving or by what the writer said.
CallerStep ==
    /\ caller' \in [Calls -> {"sending", "waiting", "returned"}]
    /\ answer' \in [Calls -> Results \cup {NoAnswer, "closed"}]
    /\ \A c \in Calls :
         /\ \/ answer'[c] = answer[c]
            \/ answer'[c] \in {"canceled", "closed"}
            \/ Receive(c) /\ done[c] # NoAnswer /\ answer'[c] = done[c]
         /\ caller'[c] = "sending" => caller[c] = "sending" /\ answer'[c] = answer[c] /\ ~Send(c)
         /\ caller[c] # "sending" => caller'[c] # "sending"

\* A context ends late only while the writer has not looked at it, and while
\* nothing else happens.
LateStep ==
    /\ ended' \subseteq Calls /\ late' \subseteq ended'
    /\ \A c \in late' : c \in late \/ (c \in Calls /\ Unlooked(c) /\ UNCHANGED <<row, active>>)

\* What a caller that returns leaves behind.
LEMMA ReturnStep ==
    ASSUME WriterInv, NEW c \in Calls, NEW a \in Results \cup {"closed"},
           Return(c, a), a \in {"canceled", "closed"} \/ (Receive(c) /\ done[c] = a)
    PROVE  CallerStep
  <1>1. /\ caller \in [Calls -> {"sending", "waiting", "returned"}]
        /\ answer \in [Calls -> Results \cup {NoAnswer, "closed"}]
    BY DEF WriterInv, WriterTypes
  <1>2. /\ caller' = [caller EXCEPT ![c] = "returned"]
        /\ answer' = [answer EXCEPT ![c] = a]
        /\ UNCHANGED channels
    BY DEF Return
  <1>3. /\ caller' \in [Calls -> {"sending", "waiting", "returned"}]
        /\ answer' \in [Calls -> Results \cup {NoAnswer, "closed"}]
        /\ caller'[c] = "returned" /\ answer'[c] = a
        /\ \A d \in Calls : d # c => caller'[d] = caller[d] /\ answer'[d] = answer[d]
    BY <1>1, <1>2
  <1>4. \A d \in Calls : caller'[d] = "sending" => ~Send(d)
    <2>1. \A d \in Calls : Send(d) => caller'[d] = "waiting"
      BY <1>1 DEF Send
    <2> QED
      BY <2>1
  <1> QED
    BY <1>3, <1>4 DEF CallerStep

\* The callers, of every step.
LEMMA CallersStep ==
    ASSUME WriterInv, [WriterNext]_writerVars
    PROVE  CallerStep
  <1>1. /\ caller \in [Calls -> {"sending", "waiting", "returned"}]
        /\ answer \in [Calls -> Results \cup {NoAnswer, "closed"}]
        /\ done \in [Calls -> Results \cup {NoAnswer}]
    BY DEF WriterInv, WriterTypes
  <1>2. \A d \in Calls : Send(d) => caller'[d] = "waiting"
    BY <1>1 DEF Send
  <1>3. CASE UNCHANGED callers
    <2>1. caller' = caller /\ answer' = answer
      BY <1>3
    <2> QED
      BY <1>1, <1>2, <2>1 DEF CallerStep
  <1>4. ASSUME NEW c \in Calls, Send(c) PROVE CallerStep
    <2>1. caller' = [caller EXCEPT ![c] = "waiting"] /\ answer' = answer
      BY <1>4 DEF Send
    <2>2. /\ caller' \in [Calls -> {"sending", "waiting", "returned"}]
          /\ caller'[c] = "waiting" /\ \A d \in Calls : d # c => caller'[d] = caller[d]
      BY <1>1, <2>1
    <2> QED
      BY <1>1, <1>2, <2>1, <2>2 DEF CallerStep
  <1>5. ASSUME NEW c \in Calls, Leave(c) PROVE CallerStep
    BY <1>5, ReturnStep DEF Leave
  <1>6. ASSUME NEW c \in Calls, Receive(c) PROVE CallerStep
    <2>1. done[c] \in Results /\ Return(c, done[c])
      BY <1>1, <1>6 DEF Receive
    <2> QED
      BY <1>6, <2>1, ReturnStep
  <1>7. Write \/ Close \/ Rest \/ (\E c \in Calls : Cancel(c)) => UNCHANGED callers
    BY DEF Write, Close, Rest, Cancel, Top, NoControl, StopWaiting, TakeControl, RunControl,
           TakeBatch, Collect, Filter, CommitBatch, RollBack, RunSingly
  <1> QED
    BY <1>3, <1>4, <1>5, <1>6, <1>7 DEF WriterNext, Wait

\* The contexts, of every step.
LEMMA ContextsStep ==
    ASSUME WriterInv, [WriterNext]_writerVars
    PROVE  LateStep
  <1>1. ended \subseteq Calls /\ late \subseteq ended
    BY DEF WriterInv, WriterTypes
  <1>2. CASE UNCHANGED <<ended, late>>
    BY <1>1, <1>2 DEF LateStep
  <1>3. ASSUME NEW c \in Calls, Cancel(c) PROVE LateStep
    BY <1>1, <1>3 DEF Cancel, LateStep
  <1>4. Write \/ Close \/ Rest \/ (\E c \in Calls : Wait(c)) => UNCHANGED <<ended, late>>
    BY DEF Write, Close, Rest, Wait, Send, Leave, Receive, Return, Top, NoControl, StopWaiting,
           TakeControl, RunControl, TakeBatch, Collect, Filter, CommitBatch, RollBack, RunSingly
  <1> QED
    BY <1>2, <1>3, <1>4 DEF WriterNext

-----------------------------------------------------------------------------
(* The invariant *)

\* Nothing has been sent at first.
LEMMA WriterInvInit == WriterInit => WriterInv
  <1> SUFFICES ASSUME WriterInit PROVE WriterInv
    OBVIOUS
  <1>1. /\ caller = [c \in Calls |-> "sending"]
        /\ answer = [c \in Calls |-> NoAnswer] /\ done = [c \in Calls |-> NoAnswer]
        /\ ended = {} /\ late = {} /\ stopping = FALSE
        /\ control = <<>> /\ batches = <<>> /\ taken = <<>> /\ active = <<>> /\ step = "top"
        /\ row = [r \in Rows |-> NoCall]
    BY DEF WriterInit
  <1>2. /\ Among(control) = {} /\ Among(batches) = {} /\ Among(taken) = {} /\ Among(active) = {}
        /\ OnePlace
    BY <1>1, Empty DEF OnePlace
  <1>3. QueueTypes
    BY <1>1, Empty DEF QueueTypes
  <1>4. WriterTypes
    BY <1>1, <1>3 DEF WriterTypes
  <1>5. HandsSay
    BY <1>1 DEF HandsSay
  <1>6. \A c \in Calls : row[RowOf[c]] # c /\ done[c] = NoAnswer /\ answer[c] = NoAnswer
    BY <1>1
  <1>7. PlacedIsUnrun /\ SendingIsNew
    BY <1>2, <1>6 DEF PlacedIsUnrun, Placed, SendingIsNew
  <1>8. AnswersTrue
    BY <1>6 DEF AnswersTrue
  <1>9. LateIsOut /\ CanceledInTime
    BY <1>1 DEF LateIsOut, CanceledInTime
  <1> QED
    BY <1>2, <1>4, <1>5, <1>7, <1>8, <1>9 DEF WriterInv

\* A step keeps the answers and the database as they should be.
LEMMA WriterInvStep == WriterInv /\ [WriterNext]_writerVars => WriterInv'
  <1> SUFFICES ASSUME WriterInv, [WriterNext]_writerVars PROVE WriterInv'
    OBVIOUS
  <1>0. /\ WriterTypes /\ PlacedIsUnrun /\ SendingIsNew /\ AnswersTrue /\ LateIsOut /\ CanceledInTime
        /\ late \subseteq ended /\ \A c \in Calls : RowOf[c] \in Rows
    BY DEF WriterInv, WriterTypes
  <1>1. /\ QueueTypes' /\ HandsSay' /\ OnePlace'
        /\ \A c \in Placed' : c \in Placed \/ (c \in Calls /\ Send(c))
        /\ \A c \in Among(active') : c \in Among(active) \/ c \in Placed \ ended
    BY PlacesStep
  <1>2. Placed \subseteq Calls /\ Among(active) \subseteq Placed
    BY PlacesNow
  <1>3. /\ row' \in [Rows -> Calls \cup {NoCall}]
        /\ \A r \in Rows : \/ row'[r] = row[r]
                           \/ /\ row[r] = NoCall /\ row'[r] \in Among(active) \ Placed'
                              /\ RowOf[row'[r]] = r
    BY EffectStep DEF RowStep
  <1>4. /\ done' \in [Calls -> Results \cup {NoAnswer}]
        /\ \A c \in Calls : \/ done'[c] = done[c]
                            \/ Receive(c) /\ done'[c] = NoAnswer
                            \/ c \in Placed \ Placed' /\ Says(c, done'[c], row')
    BY EffectStep DEF DoneStep
  <1>5. /\ caller' \in [Calls -> {"sending", "waiting", "returned"}]
        /\ answer' \in [Calls -> Results \cup {NoAnswer, "closed"}]
        /\ \A c \in Calls :
             /\ \/ answer'[c] = answer[c]
                \/ answer'[c] \in {"canceled", "closed"}
                \/ Receive(c) /\ done[c] # NoAnswer /\ answer'[c] = done[c]
             /\ caller'[c] = "sending" => caller[c] = "sending" /\ answer'[c] = answer[c] /\ ~Send(c)
             /\ caller[c] # "sending" => caller'[c] # "sending"
    BY CallersStep DEF CallerStep
  <1>6. /\ ended' \subseteq Calls /\ late' \subseteq ended'
        /\ \A c \in late' : c \in late \/ (c \in Calls /\ Unlooked(c) /\ UNCHANGED <<row, active>>)
    BY ContextsStep DEF LateStep
  <1>7. WriterTypes'
    <2>1. /\ step' \in {"top", "pick", "wait", "run", "collect", "filter", "batch", "singly", "gone"}
          /\ stopping' \in BOOLEAN
      <3>1. /\ step \in {"top", "pick", "wait", "run", "collect", "filter", "batch", "singly", "gone"}
            /\ stopping \in BOOLEAN
        BY <1>0 DEF WriterTypes
      <3>2. Close => UNCHANGED step /\ stopping' = TRUE
        BY DEF Close
      <3>3. Rest \/ UNCHANGED writerVars \/ (\E c \in Calls : Wait(c) \/ Cancel(c)) =>
              UNCHANGED <<step, stopping>>
        BY DEF Rest, Wait, Cancel, Send, Leave, Receive, Return
      <3>4. Write =>
              /\ UNCHANGED stopping
              /\ step' \in {"top", "pick", "wait", "run", "collect", "filter", "batch", "singly", "gone"}
        BY <3>1 DEF Write, Top, NoControl, StopWaiting, TakeControl, RunControl, TakeBatch, Collect,
             Filter, AfterFilter, CommitBatch, RollBack, RunSingly, Goto
      <3> QED
        BY <3>1, <3>2, <3>3, <3>4 DEF WriterNext
    <2> QED
      BY <1>1, <1>3, <1>4, <1>5, <1>6, <2>1 DEF WriterTypes
  <1>8. PlacedIsUnrun'
    <2> SUFFICES ASSUME NEW c \in Placed'
                 PROVE  /\ caller'[c] # "sending" /\ done'[c] = NoAnswer
                        /\ answer'[c] \in {NoAnswer, "canceled", "closed"}
                        /\ row'[RowOf[c]] # c
      BY DEF PlacedIsUnrun
    <2>1. CASE c \in Placed
      <3>1. /\ c \in Calls /\ caller[c] # "sending" /\ done[c] = NoAnswer
            /\ answer[c] \in {NoAnswer, "canceled", "closed"} /\ row[RowOf[c]] # c
        BY <1>0, <1>2, <2>1 DEF PlacedIsUnrun
      <3>2. row'[RowOf[c]] # c
        BY <1>0, <1>3, <3>1
      <3>3. done'[c] = NoAnswer
        BY <1>4, <3>1
      <3> QED
        BY <1>5, <3>1, <3>2, <3>3
    <2>2. CASE c \notin Placed
      <3>1. c \in Calls /\ Send(c)
        BY <1>1, <2>2
      <3>2. /\ caller[c] = "sending" /\ caller' = [caller EXCEPT ![c] = "waiting"]
            /\ UNCHANGED <<answer, done, row>>
        BY <3>1 DEF Send
      <3>3. caller'[c] = "waiting"
        BY <1>0, <3>1, <3>2 DEF WriterTypes
      <3>4. done[c] = NoAnswer /\ answer[c] = NoAnswer /\ row[RowOf[c]] # c
        BY <1>0, <3>1, <3>2 DEF SendingIsNew
      <3> QED
        BY <3>2, <3>3, <3>4
    <2> QED
      BY <2>1, <2>2
  <1>9. SendingIsNew'
    <2> SUFFICES ASSUME NEW c \in Calls, caller'[c] = "sending"
                 PROVE  done'[c] = NoAnswer /\ answer'[c] = NoAnswer /\ row'[RowOf[c]] # c
      BY DEF SendingIsNew
    <2>1. caller[c] = "sending" /\ answer'[c] = answer[c]
      BY <1>5
    <2>2. done[c] = NoAnswer /\ answer[c] = NoAnswer /\ row[RowOf[c]] # c /\ c \notin Placed
      BY <1>0, <2>1 DEF SendingIsNew, PlacedIsUnrun
    <2>3. row'[RowOf[c]] # c
      BY <1>0, <1>2, <1>3, <2>2
    <2>4. done'[c] = NoAnswer
      BY <1>4, <2>2
    <2> QED
      BY <2>1, <2>2, <2>3, <2>4
  <1>10. AnswersTrue'
    <2> SUFFICES ASSUME NEW c \in Calls, NEW a \in {answer'[c], done'[c]}
                 PROVE  /\ a = "ok" => row'[RowOf[c]] = c
                        /\ a = "stale" => row'[RowOf[c]] \notin {c, NoCall}
                        /\ a = "broken" \/ done'[c] = "canceled" => row'[RowOf[c]] # c
      BY DEF AnswersTrue
    <2>1. \A b \in {answer[c], done[c]} :
            /\ b = "ok" => row[RowOf[c]] = c
            /\ b = "stale" => row[RowOf[c]] \notin {c, NoCall}
            /\ b = "broken" \/ done[c] = "canceled" => row[RowOf[c]] # c
      BY <1>0 DEF AnswersTrue
    <2>2. c # NoCall /\ RowOf[c] \in Rows
      BY <1>0
    <2>3. \A b \in {answer[c], done[c]} :
            /\ b = "ok" => row'[RowOf[c]] = c
            /\ b = "stale" => row'[RowOf[c]] \notin {c, NoCall}
            /\ b = "broken" \/ done[c] = "canceled" => row'[RowOf[c]] # c
      <3>1. CASE row'[RowOf[c]] = row[RowOf[c]]
        BY <2>1, <3>1
      <3>2. CASE row[RowOf[c]] = NoCall /\ row'[RowOf[c]] # c
        BY <2>1, <2>2, <3>2
      <3>3. CASE row'[RowOf[c]] = c /\ c \in Among(active) /\ row[RowOf[c]] = NoCall
        <4>1. done[c] = NoAnswer /\ answer[c] \in {NoAnswer, "canceled", "closed"}
          BY <1>0, <1>2, <3>3 DEF PlacedIsUnrun
        <4> QED
          BY <4>1
      <3> QED
        BY <1>3, <2>2, <3>1, <3>2, <3>3
    <2>4. \/ answer'[c] \in {answer[c], done[c], "canceled", "closed"}
      BY <1>5
    <2>5. CASE done'[c] \in {done[c], NoAnswer}
      BY <2>3, <2>4, <2>5
    <2>6. CASE c \in Placed \ Placed' /\ Says(c, done'[c], row')
      <3>1. answer'[c] \in {NoAnswer, "canceled", "closed"}
        <4>1. done[c] = NoAnswer /\ answer[c] \in {NoAnswer, "canceled", "closed"}
          BY <1>0, <2>6 DEF PlacedIsUnrun
        <4> QED
          BY <1>5, <4>1
      <3> QED
        BY <2>6, <3>1 DEF Says
    <2> QED
      BY <1>4, <2>5, <2>6
  <1>11. \A c \in late' \ late :
           /\ c \notin Among(active) /\ row[RowOf[c]] # c /\ UNCHANGED <<row, active>>
    <2> SUFFICES ASSUME NEW c \in late' \ late
                 PROVE  /\ c \notin Among(active) /\ row[RowOf[c]] # c /\ UNCHANGED <<row, active>>
      OBVIOUS
    <2>1. c \in Calls /\ Unlooked(c) /\ UNCHANGED <<row, active>>
      BY <1>6
    <2>2. CASE caller[c] = "sending"
      <3>1. c \notin Placed /\ row[RowOf[c]] # c
        BY <1>0, <2>1, <2>2 DEF SendingIsNew, PlacedIsUnrun
      <3> QED
        BY <1>2, <2>1, <3>1
    <2>3. CASE c \in Among(control) \cup Among(batches) \cup Among(taken)
      <3>1. c \in Placed /\ c \notin Among(active)
        BY <2>3, PlacesNow DEF Placed
      <3> QED
        BY <1>0, <2>1, <3>1 DEF PlacedIsUnrun
    <2> QED
      BY <2>1, <2>2, <2>3 DEF Unlooked
  <1>12. LateIsOut'
    <2>1. ASSUME NEW c \in late', c \in Among(active') PROVE FALSE
      <3>1. CASE c \in late
        BY <1>0, <1>1, <2>1, <3>1 DEF LateIsOut
      <3>2. CASE c \notin late
        BY <1>11, <2>1, <3>2
      <3> QED
        BY <3>1, <3>2
    <2> QED
      BY <2>1 DEF LateIsOut
  <1>13. CanceledInTime'
    <2>1. ASSUME NEW c \in late' PROVE row'[RowOf[c]] # c
      <3>1. CASE c \in late
        <4>1. c \in Calls /\ row[RowOf[c]] # c /\ c \notin Among(active)
          BY <1>0, <3>1 DEF CanceledInTime, LateIsOut, WriterTypes
        <4> QED
          BY <1>0, <1>3, <4>1
      <3>2. CASE c \notin late
        BY <1>11, <3>2
      <3> QED
        BY <3>1, <3>2
    <2> QED
      BY <2>1 DEF CanceledInTime
  <1> QED
    BY <1>1, <1>7, <1>8, <1>9, <1>10, <1>12, <1>13 DEF WriterInv

\* The invariant holds throughout.
LEMMA WriterInvHolds == WriterSpec => []WriterInv
  BY WriterInvInit, WriterInvStep, PTL DEF WriterSpec

-----------------------------------------------------------------------------
(* What the writer promises *)

\* What the writer answers is true of the database, and stays true, whatever is
\* batched with a request, fails with it, or is tried a second time.
THEOREM AnswersAreTrue == WriterSpec => []AnswersTrue
  <1>1. WriterInv => AnswersTrue
    BY DEF WriterInv
  <1> QED
    BY <1>1, WriterInvHolds, PTL

\* A call whose context ended before the writer looked at it never takes
\* effect.
THEOREM CanceledCallsDoNothing == WriterSpec => []CanceledInTime
  <1>1. WriterInv => CanceledInTime
    BY DEF WriterInv
  <1> QED
    BY <1>1, WriterInvHolds, PTL

\* Queues that share nothing, one after the other.
LEMMA JoinTwo ==
    ASSUME NEW S, NEW s \in Seq(S), NEW t \in Seq(S)
    PROVE  /\ s \o t \in Seq(S) /\ Among(s \o t) = Among(s) \cup Among(t)
           /\ IsInjective(s) /\ IsInjective(t) /\ Among(s) \cap Among(t) = {}
                => IsInjective(s \o t)
  <1>1. /\ s \o t \in Seq(S) /\ Len(s) \in Nat /\ Len(t) \in Nat
        /\ DOMAIN s = 1..Len(s) /\ DOMAIN t = 1..Len(t) /\ DOMAIN (s \o t) = 1..(Len(s) + Len(t))
    OBVIOUS
  <1>2. /\ \A i \in 1..Len(s) : i \in 1..(Len(s) + Len(t)) /\ (s \o t)[i] = s[i]
        /\ \A i \in 1..Len(t) : Len(s) + i \in 1..(Len(s) + Len(t)) /\ (s \o t)[Len(s) + i] = t[i]
    OBVIOUS
  <1>3. \A i \in 1..(Len(s) + Len(t)) : i \in 1..Len(s) \/ \E k \in 1..Len(t) : i = Len(s) + k
    <2>1. \A i \in 1..(Len(s) + Len(t)) :
            i \notin 1..Len(s) => i - Len(s) \in 1..Len(t) /\ i = Len(s) + (i - Len(s))
      BY <1>1
    <2> QED
      BY <2>1
  <1>4. Among(s \o t) = Among(s) \cup Among(t)
    <2>1. ASSUME NEW i \in 1..(Len(s) + Len(t)) PROVE (s \o t)[i] \in Among(s) \cup Among(t)
      <3>1. CASE i \in 1..Len(s)
        BY <1>1, <1>2, <3>1 DEF Among
      <3>2. CASE \E k \in 1..Len(t) : i = Len(s) + k
        BY <1>1, <1>2, <3>2 DEF Among
      <3> QED
        BY <1>3, <3>1, <3>2
    <2>2. Among(s) \subseteq Among(s \o t)
      BY <1>1, <1>2 DEF Among
    <2>3. Among(t) \subseteq Among(s \o t)
      <3>1. ASSUME NEW i \in 1..Len(t) PROVE t[i] \in Among(s \o t)
        <4>1. Len(s) + i \in DOMAIN (s \o t) /\ (s \o t)[Len(s) + i] = t[i]
          BY <1>1, <1>2
        <4> QED
          BY <4>1 DEF Among
      <3> QED
        BY <1>1, <3>1 DEF Among
    <2>4. Among(s \o t) \subseteq Among(s) \cup Among(t)
      BY <1>1, <2>1 DEF Among
    <2> QED
      BY <2>2, <2>3, <2>4
  <1>5. ASSUME IsInjective(s), IsInjective(t), Among(s) \cap Among(t) = {}
        PROVE  IsInjective(s \o t)
    <2> SUFFICES ASSUME NEW i \in 1..(Len(s) + Len(t)), NEW k \in 1..(Len(s) + Len(t)),
                        (s \o t)[i] = (s \o t)[k]
                 PROVE  i = k
      BY <1>1 DEF IsInjective
    <2>1. \A l \in 1..(Len(s) + Len(t)) : l \in 1..Len(s) => (s \o t)[l] = s[l] /\ s[l] \in Among(s)
      BY <1>1, <1>2 DEF Among
    <2>2. \A l \in 1..(Len(s) + Len(t)) : l \notin 1..Len(s) =>
            \E m \in 1..Len(t) : l = Len(s) + m /\ (s \o t)[l] = t[m] /\ t[m] \in Among(t)
      <3>1. ASSUME NEW l \in 1..(Len(s) + Len(t)), l \notin 1..Len(s)
            PROVE  \E m \in 1..Len(t) : l = Len(s) + m /\ (s \o t)[l] = t[m] /\ t[m] \in Among(t)
        <4>1. PICK m \in 1..Len(t) : l = Len(s) + m
          BY <1>3, <3>1
        <4>2. (s \o t)[l] = t[m] /\ t[m] \in Among(t)
          BY <1>1, <1>2, <4>1 DEF Among
        <4> QED
          BY <4>1, <4>2
      <3> QED
        BY <3>1
    <2>3. CASE i \in 1..Len(s) /\ k \in 1..Len(s)
      BY <1>1, <1>5, <2>1, <2>3 DEF IsInjective
    <2>4. CASE i \in 1..Len(s) /\ k \notin 1..Len(s)
      BY <1>5, <2>1, <2>2, <2>4
    <2>5. CASE i \notin 1..Len(s) /\ k \in 1..Len(s)
      BY <1>5, <2>1, <2>2, <2>5
    <2>6. CASE i \notin 1..Len(s) /\ k \notin 1..Len(s)
      <3>1. PICK m \in 1..Len(t) : i = Len(s) + m /\ (s \o t)[i] = t[m]
        BY <2>2, <2>6
      <3>2. PICK n \in 1..Len(t) : k = Len(s) + n /\ (s \o t)[k] = t[n]
        BY <2>2, <2>6
      <3>3. m = n
        BY <1>1, <1>5, <3>1, <3>2 DEF IsInjective
      <3> QED
        BY <3>1, <3>2, <3>3
    <2> QED
      BY <2>3, <2>4, <2>5, <2>6
  <1> QED
    BY <1>1, <1>4, <1>5

\* The channels and batches stay within their limits, and no request is ever in
\* two places, or twice in one.
THEOREM WriterTyped == WriterSpec => []WriterTypeOK
  <1>1. WriterInv => WriterTypeOK
    <2> SUFFICES ASSUME WriterInv PROVE WriterTypeOK
      OBVIOUS
    <2>1. /\ WriterTypes /\ QueueTypes /\ OnePlace
      BY DEF WriterInv, WriterTypes
    <2>2. /\ control \in Seq(Calls) /\ batches \in Seq(Calls)
          /\ taken \in Seq(Calls) /\ active \in Seq(Calls)
      <3>1. /\ control \in Seq(Control) /\ batches \in Seq(Calls \ Control)
            /\ taken \in Seq(Calls) /\ active \in Seq(Calls)
        BY <2>1 DEF QueueTypes
      <3>2. \A T \in SUBSET Calls : Seq(T) \subseteq Seq(Calls)
        OBVIOUS
      <3>3. Control \in SUBSET Calls /\ Calls \ Control \in SUBSET Calls
        OBVIOUS
      <3> QED
        BY <3>1, <3>2, <3>3
    <2>3. /\ IsInjective(control) /\ IsInjective(batches) /\ IsInjective(taken) /\ IsInjective(active)
          /\ Among(control) \cap Among(batches) = {}
          /\ (Among(control) \cup Among(batches)) \cap (Among(taken) \cup Among(active)) = {}
          /\ Among(taken) \cap Among(active) = {}
      BY <2>1 DEF OnePlace
    <2>4. /\ control \o batches \in Seq(Calls) /\ IsInjective(control \o batches)
          /\ Among(control \o batches) = Among(control) \cup Among(batches)
      BY <2>2, <2>3, JoinTwo
    <2>5. /\ control \o batches \o taken \in Seq(Calls) /\ IsInjective(control \o batches \o taken)
          /\ Among(control \o batches \o taken) = Among(control) \cup Among(batches) \cup Among(taken)
      <3>1. Among(control \o batches) \cap Among(taken) = {}
        BY <2>3, <2>4
      <3>2. IsInjective(control \o batches) /\ IsInjective(taken)
        BY <2>3, <2>4
      <3>3. control \o batches \in Seq(Calls) /\ taken \in Seq(Calls)
        BY <2>2, <2>4
      <3>4. \A p, q \in Seq(Calls) :
              /\ p \o q \in Seq(Calls) /\ Among(p \o q) = Among(p) \cup Among(q)
              /\ IsInjective(p) /\ IsInjective(q) /\ Among(p) \cap Among(q) = {} => IsInjective(p \o q)
        BY JoinTwo
      <3>5. /\ (control \o batches) \o taken \in Seq(Calls) /\ IsInjective((control \o batches) \o taken)
            /\ Among((control \o batches) \o taken) = Among(control \o batches) \cup Among(taken)
        BY <3>1, <3>2, <3>3, <3>4, Zenon
      <3> QED
        BY <2>4, <3>5
    <2>6. IsInjective(control \o batches \o taken \o active)
      <3>1. Among(control \o batches \o taken) \cap Among(active) = {}
        BY <2>3, <2>5
      <3> QED
        BY <2>2, <2>3, <2>5, <3>1, JoinTwo
    <2> QED
      BY <2>1, <2>6 DEF WriterTypeOK, WriterTypes, QueueTypes
  <1> QED
    BY <1>1, WriterInvHolds, PTL

=============================================================================
