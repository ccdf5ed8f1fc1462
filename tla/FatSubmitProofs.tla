--------------------------- MODULE FatSubmitProofs ---------------------------
(***************************************************************************)
(* Proofs about FatSubmit, for every set of workers and invocations and    *)
(* every retry budget.                                                     *)
(*                                                                         *)
(* The argument: all publishes of a call carry the same subject and fence. *)
(* Once one of them has been applied, the last sequence of the subject is  *)
(* past that fence, and it never comes back, because a fence never lies in *)
(* the future of the stream.  IInv says this for the publishes under way   *)
(* (SpentPublishes), for those the call may still make (SpentCalls) and    *)
(* for what the caller has been told (AnswersTrue, AckedIsOwnEntry).       *)
(*                                                                         *)
(* Over that invariant every append of a worker is an open submission of   *)
(* FencedLog, and any entry closes the submissions for its invocation; a   *)
(* step inside SubmitResult leaves the call fewer (StepsLeft).             *)
(***************************************************************************)
EXTENDS FatSubmit, TLAPS

\* last is what the stream says it is: the greatest index of the subject.
LastIsLast ==
    \A i \in Invs :
        /\ last[i] <= Len(log)
        /\ last[i] # 0 => log[last[i]].inv = i
        /\ \A n \in 1 .. Len(log) : log[n].inv = i => n <= last[i]

\* No call number of the future is in use.
CallsNumbered ==
    /\ \A n \in 1 .. Len(log) :
          log[n].who \in Workers => log[n].call <= call[log[n].who]
    /\ \A m \in net : m.call <= call[m.who]

\* Fences are sequence numbers the stream has handed out.
FencesPast ==
    /\ \A m \in net : m.expect \in 1 .. Len(log)
    /\ \A w \in Workers : /\ arg[w].expectedLast <= Len(log)
                          /\ pc[w] # "idle" => arg[w].expectedLast # 0

\* The publishes of one call agree, those of the current call with its parameters.
SameFence ==
    /\ \A m \in net : m.call = call[m.who] =>
          m.inv = arg[m.who].inv /\ m.expect = arg[m.who].expectedLast
    /\ \A m, p \in net : p.who = m.who /\ p.call = m.call =>
          p.inv = m.inv /\ p.expect = m.expect

\* A call that has been applied cannot be applied again.
SpentPublishes ==
    \A m \in net, n \in 1 .. Len(log) :
        WrittenBy(n, m.who, m.call) => last[m.inv] # m.expect
SpentCalls ==
    \A w \in Workers, n \in 1 .. Len(log) :
        WrittenBy(n, w, call[w]) => last[arg[w].inv] # arg[w].expectedLast

\* What sequence s means when it is given to w as an acknowledgement.
OwnEntry(w, s) ==
    /\ s \in 1 .. Len(log)
    /\ WrittenBy(s, w, call[w]) /\ log[s].type = "Output"
    /\ log[s].inv = arg[w].inv
    /\ arg[w].expectedLast < s
    /\ \A n \in arg[w].expectedLast + 1 .. s - 1 : log[n].inv # arg[w].inv

\* The answers under way, and the errors returned, are true.
AnswersTrue ==
    \A w \in Workers :
        /\ reply[w].tag # "none" => pc[w] = "await"
        /\ reply[w].tag = "ack" => OwnEntry(w, reply[w].seq)
        /\ reply[w].tag = "nack" => last[arg[w].inv] # arg[w].expectedLast
        /\ ret[w].err = "ok" => OwnEntry(w, ret[w].seq)
        /\ ret[w].err = "conflict" => last[arg[w].inv] # arg[w].expectedLast
        /\ ret[w].err = "usage" =>
              \A m \in net : ~(m.who = w /\ m.call = call[w])
        /\ pc[w] # "idle" => ret[w].err = "none"

IInv ==
    /\ TypeOK
    /\ LastIsLast
    /\ CallsNumbered
    /\ FencesPast
    /\ SameFence
    /\ SpentPublishes
    /\ SpentCalls
    /\ AnswersTrue
    /\ CallAppliedOnce
    /\ JournalBeginsWithStart

------------------------------------------------------------------------------
\* Appending one entry keeps the others in place and moves the last sequence of
\* one subject to the end of the stream.
LEMMA AppendEntryFacts ==
    ASSUME TypeOK, NEW e \in Entry, AppendEntry(e)
    PROVE  /\ log' \in Seq(Entry)
           /\ Len(log') = Len(log) + 1
           /\ \A n \in 1 .. Len(log) : log'[n] = log[n]
           /\ log'[Len(log) + 1] = e
           /\ last' \in [Invs -> Nat]
           /\ last'[e.inv] = Len(log) + 1
           /\ \A i \in Invs : i # e.inv => last'[i] = last[i]
           /\ Len(log) \in Nat
           /\ \A n \in 1 .. Len(log') : n \in 1 .. Len(log) \/ n = Len(log) + 1
  BY DEF TypeOK, AppendEntry, Entry

\* last stays what it should be.
LEMMA AppendLast ==
    ASSUME TypeOK, LastIsLast, NEW e \in Entry, AppendEntry(e)
    PROVE  LastIsLast'
  <1> USE AppendEntryFacts
  <1>1. e.inv \in Invs
    BY DEF Entry
  <1>2. SUFFICES ASSUME NEW i \in Invs
                 PROVE  /\ last'[i] <= Len(log')
                        /\ last'[i] # 0 => log'[last'[i]].inv = i
                        /\ \A n \in 1 .. Len(log') : log'[n].inv = i => n <= last'[i]
    BY DEF LastIsLast
  <1>3. last[i] \in Nat /\ last[i] <= Len(log)
    BY DEF TypeOK, LastIsLast
  <1>4. CASE i = e.inv
    BY <1>4
  <1>5. CASE i # e.inv
    <2>1. last'[i] = last[i]
      BY <1>5
    <2>2. last[i] # 0 => log'[last[i]].inv = i
      <3>1. last[i] # 0 => last[i] \in 1 .. Len(log) /\ log[last[i]].inv = i
        BY <1>3 DEF LastIsLast
      <3> QED
        BY <3>1
    <2>3. ASSUME NEW n \in 1 .. Len(log'), log'[n].inv = i PROVE n <= last[i]
      <3>1. n \in 1 .. Len(log) /\ log[n].inv = i
        BY <1>5, <2>3
      <3> QED
        BY <3>1 DEF LastIsLast
    <2> QED
      BY <1>3, <2>1, <2>2, <2>3
  <1> QED
    BY <1>4, <1>5

\* An acknowledged entry stays where it is.
LEMMA AppendOwnEntry ==
    ASSUME TypeOK, NEW e \in Entry, AppendEntry(e), UNCHANGED <<call, arg>>,
           NEW w \in Workers, NEW s \in Nat, OwnEntry(w, s)
    PROVE  OwnEntry(w, s)'
  <1>1. s \in 1 .. Len(log') /\ log'[s] = log[s]
    BY AppendEntryFacts DEF OwnEntry
  <1>2. \A n \in arg[w].expectedLast + 1 .. s - 1 : log'[n] = log[n]
    <2>1. arg[w].expectedLast \in Nat
      BY DEF TypeOK
    <2>2. \A n \in arg[w].expectedLast + 1 .. s - 1 : n \in 1 .. Len(log)
      BY <2>1, AppendEntryFacts DEF OwnEntry
    <2> QED
      BY <2>2, AppendEntryFacts
  <1> QED
    BY <1>1, <1>2 DEF OwnEntry, WrittenBy

\* An entry that does not begin its journal follows one that is there.
LEMMA AppendBegins ==
    ASSUME TypeOK, LastIsLast, JournalBeginsWithStart, NEW e \in Entry, AppendEntry(e),
           e.type = "Start" \/ last[e.inv] # 0
    PROVE  JournalBeginsWithStart'
  <1>1. e.inv \in Invs
    BY DEF Entry
  <1>2. SUFFICES ASSUME NEW n \in 1 .. Len(log'), log'[n].type # "Start"
                 PROVE  \E k \in 1 .. n - 1 : log'[k].inv = log'[n].inv
    BY DEF JournalBeginsWithStart
  <1>3. CASE n \in 1 .. Len(log)
    <2>1. PICK k \in 1 .. n - 1 : log[k].inv = log[n].inv
      BY <1>2, <1>3, AppendEntryFacts DEF JournalBeginsWithStart
    <2>2. k \in 1 .. Len(log) /\ log'[k] = log[k] /\ log'[n] = log[n]
      BY <1>3, AppendEntryFacts
    <2> QED
      BY <2>1, <2>2
  <1>4. CASE n = Len(log) + 1
    <2>1. last[e.inv] \in 1 .. Len(log) /\ log[last[e.inv]].inv = e.inv
      BY <1>1, <1>2, <1>4, AppendEntryFacts DEF TypeOK, LastIsLast
    <2>2. log'[last[e.inv]].inv = log'[n].inv
      BY <1>4, <2>1, AppendEntryFacts
    <2>3. last[e.inv] \in 1 .. n - 1
      BY <1>4, <2>1, AppendEntryFacts
    <2> QED
      BY <2>2, <2>3
  <1> QED
    BY <1>3, <1>4, AppendEntryFacts

\* A fence in the past that last has moved away from is never met again.
LEMMA AppendSpent ==
    ASSUME TypeOK, NEW e \in Entry, AppendEntry(e),
           NEW i \in Invs, NEW f \in 0 .. Len(log), last[i] # f
    PROVE  last'[i] # f
  BY AppendEntryFacts

------------------------------------------------------------------------------
\* Initially the stream is empty, nothing is under way and no call has begun.
LEMMA InitIInv == Init => IInv
  <1> SUFFICES ASSUME Init PROVE IInv
    OBVIOUS
  <1> USE DEF Init
  <1>1. TypeOK
    BY BoundsAssumption DEF TypeOK, Replies, NoReply, Returns, NoReturn, Outcomes
  <1>2. LastIsLast /\ CallsNumbered /\ FencesPast /\ SameFence
    BY <1>1 DEF LastIsLast, CallsNumbered, FencesPast, SameFence
  <1>3. SpentPublishes /\ SpentCalls /\ CallAppliedOnce /\ JournalBeginsWithStart
    BY DEF SpentPublishes, SpentCalls, CallAppliedOnce, JournalBeginsWithStart
  <1>4. AnswersTrue
    BY DEF AnswersTrue, NoReply, NoReturn
  <1> QED
    BY <1>1, <1>2, <1>3, <1>4 DEF IInv

\* The engine's appends keep IInv: they move last away from every spent fence.
LEMMA EngineAppendIInv ==
    ASSUME IInv, NEW i \in Invs, NEW t \in {"Start", "Step", "Error"},
           EngineAppend(i, t)
    PROVE  IInv'
  <1> DEFINE e == [inv |-> i, type |-> t, who |-> Engine, call |-> 0]
  <1>1. /\ e \in Entry /\ AppendEntry(e)
        /\ e.inv = i /\ e.type = t /\ e.who \notin Workers
    BY EngineAssumption DEF EngineAppend, Entry, EntryTypes
  <1>2. UNCHANGED <<net, reply, pc, call, arg, attempt, ret>>
    BY DEF EngineAppend, client
  <1> HIDE DEF e
  <1>3. TypeOK
    BY DEF IInv
  <1>4. \A n \in 1 .. Len(log') : log'[n].who \in Workers =>
           n \in 1 .. Len(log) /\ log'[n] = log[n]
    BY <1>1, <1>3, AppendEntryFacts
  <1>5. \A w \in Workers : arg[w].inv \in Invs /\ arg[w].expectedLast \in 0 .. Len(log)
    BY <1>3, AppendEntryFacts, <1>1 DEF IInv, FencesPast, TypeOK
  <1>6. \A m \in net : m.who \in Workers /\ m.inv \in Invs /\ m.expect \in 1 .. Len(log)
    BY <1>3 DEF IInv, FencesPast, TypeOK, Publishes
  <1>7. TypeOK'
    BY <1>1, <1>2, <1>3, AppendEntryFacts DEF TypeOK
  <1>8. LastIsLast'
    BY <1>1, <1>3, AppendLast DEF IInv
  <1>9. CallsNumbered'
    BY <1>2, <1>4 DEF IInv, CallsNumbered
  <1>10. FencesPast'
    BY <1>1, <1>2, <1>3, <1>5, <1>6, AppendEntryFacts DEF IInv, FencesPast
  <1>11. SameFence'
    BY <1>2 DEF IInv, SameFence
  <1>12. SpentPublishes'
    <2>1. ASSUME NEW m \in net, NEW n \in 1 .. Len(log'),
                 log'[n].who = m.who, log'[n].call = m.call
          PROVE  last'[m.inv] # m.expect
      <3>1. n \in 1 .. Len(log) /\ WrittenBy(n, m.who, m.call)
        BY <1>4, <1>6, <2>1 DEF WrittenBy
      <3>2. last[m.inv] # m.expect
        BY <3>1 DEF IInv, SpentPublishes
      <3> QED
        BY <1>1, <1>3, <1>6, <3>2, AppendSpent
    <2> QED
      BY <1>2, <2>1 DEF SpentPublishes, WrittenBy
  <1>13. SpentCalls'
    <2>1. ASSUME NEW w \in Workers, NEW n \in 1 .. Len(log'),
                 log'[n].who = w, log'[n].call = call[w]
          PROVE  last'[arg[w].inv] # arg[w].expectedLast
      <3>1. n \in 1 .. Len(log) /\ WrittenBy(n, w, call[w])
        BY <1>4, <2>1 DEF WrittenBy
      <3>2. last[arg[w].inv] # arg[w].expectedLast
        BY <3>1 DEF IInv, SpentCalls
      <3> QED
        BY <1>1, <1>3, <1>5, <3>2, AppendSpent
    <2> QED
      BY <1>2, <2>1 DEF SpentCalls, WrittenBy
  <1>14. AnswersTrue'
    <2> SUFFICES ASSUME NEW w \in Workers
                 PROVE  /\ reply[w].tag = "ack" => OwnEntry(w, reply[w].seq)'
                        /\ reply[w].tag = "nack" => last'[arg[w].inv] # arg[w].expectedLast
                        /\ ret[w].err = "ok" => OwnEntry(w, ret[w].seq)'
                        /\ ret[w].err = "conflict" => last'[arg[w].inv] # arg[w].expectedLast
      BY <1>2 DEF IInv, AnswersTrue
    <2>1. reply[w].seq \in Nat /\ ret[w].seq \in Nat
      BY <1>3 DEF TypeOK, Replies, Returns
    <2>2. last[arg[w].inv] # arg[w].expectedLast => last'[arg[w].inv] # arg[w].expectedLast
      BY <1>1, <1>3, <1>5, AppendSpent
    <2>3. reply[w].tag = "ack" => OwnEntry(w, reply[w].seq)'
      BY <1>1, <1>2, <1>3, <2>1, AppendOwnEntry DEF IInv, AnswersTrue
    <2>4. ret[w].err = "ok" => OwnEntry(w, ret[w].seq)'
      BY <1>1, <1>2, <1>3, <2>1, AppendOwnEntry DEF IInv, AnswersTrue
    <2> QED
      BY <2>2, <2>3, <2>4 DEF IInv, AnswersTrue
  <1>15. CallAppliedOnce'
    BY <1>4 DEF IInv, CallAppliedOnce, WrittenBy
  <1>16. JournalBeginsWithStart'
    BY <1>1, <1>3, AppendBegins DEF IInv, EngineAppend
  <1> QED
    BY <1>7, <1>8, <1>9, <1>10, <1>11, <1>12, <1>13, <1>14, <1>15, <1>16 DEF IInv

\* The stream applies a publish: its call is spent from then on.
LEMMA StreamApplyIInv ==
    ASSUME IInv, NEW m \in net, StreamApply(m)
    PROVE  IInv'
  <1> DEFINE e == [inv |-> m.inv, type |-> "Output", who |-> m.who, call |-> m.call]
  <1>1. TypeOK /\ m \in Publishes
    BY DEF IInv, TypeOK
  <1>2. /\ e \in Entry /\ AppendEntry(e)
        /\ e.inv = m.inv /\ e.type = "Output" /\ e.who = m.who /\ e.call = m.call
    BY <1>1 DEF StreamApply, Entry, EntryTypes, Publishes
  <1>3. /\ net' = net \ {m}
        /\ last[m.inv] = m.expect
        /\ UNCHANGED <<pc, call, arg, attempt, ret>>
    BY DEF StreamApply, client
  <1>4. \/ /\ Awaited(m)
           /\ reply' = [reply EXCEPT ![m.who] = [tag |-> "ack", seq |-> Len(log) + 1]]
        \/ reply' = reply
    BY DEF StreamApply, Answer
  <1> HIDE DEF e
  <1>5. /\ m.who \in Workers /\ m.inv \in Invs /\ m.call \in Nat
        /\ m.expect \in 1 .. Len(log)
    BY <1>1 DEF IInv, FencesPast, Publishes
  <1>6. \A n \in 1 .. Len(log') :
           \/ n \in 1 .. Len(log) /\ log'[n] = log[n]
           \/ n = Len(log) + 1 /\ log'[n].who = m.who /\ log'[n].call = m.call
    BY <1>1, <1>2, AppendEntryFacts
  <1>7. \A w \in Workers : arg[w].inv \in Invs /\ arg[w].expectedLast \in 0 .. Len(log)
    BY <1>1, <1>2, AppendEntryFacts DEF IInv, FencesPast, TypeOK
  <1>8. \A p \in net : p.who \in Workers /\ p.inv \in Invs /\ p.expect \in 1 .. Len(log)
    BY <1>1 DEF IInv, FencesPast, TypeOK, Publishes
  <1>9. Len(log) \in Nat /\ Len(log') = Len(log) + 1 /\ last'[m.inv] = Len(log) + 1
    BY <1>1, <1>2, AppendEntryFacts
  <1>10. TypeOK'
    <2>1. log' \in Seq(Entry) /\ last' \in [Invs -> Nat]
      BY <1>1, <1>2, AppendEntryFacts
    <2>2. reply' \in [Workers -> Replies]
      <3>1. reply \in [Workers -> Replies]
        BY <1>1 DEF TypeOK
      <3>2. [tag |-> "ack", seq |-> Len(log) + 1] \in Replies
        BY <1>9 DEF Replies
      <3> QED
        BY <1>4, <3>1, <3>2
    <2> QED
      BY <1>1, <1>3, <2>1, <2>2 DEF TypeOK
  <1>11. LastIsLast'
    BY <1>1, <1>2, AppendLast DEF IInv
  <1>12. CallsNumbered'
    BY <1>3, <1>5, <1>6 DEF IInv, CallsNumbered
  <1>13. FencesPast'
    BY <1>3, <1>7, <1>8, <1>9 DEF IInv, FencesPast
  <1>14. SameFence'
    BY <1>3 DEF IInv, SameFence
  <1>15. SpentPublishes'
    <2>1. ASSUME NEW p \in net, NEW n \in 1 .. Len(log'),
                 log'[n].who = p.who, log'[n].call = p.call
          PROVE  last'[p.inv] # p.expect
      <3>1. CASE n \in 1 .. Len(log) /\ log'[n] = log[n]
        <4>1. last[p.inv] # p.expect
          BY <2>1, <3>1 DEF IInv, SpentPublishes, WrittenBy
        <4> QED
          BY <1>1, <1>2, <1>8, <4>1, AppendSpent
      <3>2. CASE p.who = m.who /\ p.call = m.call
        <4>1. p.inv = m.inv /\ p.expect = m.expect
          BY <3>2 DEF IInv, SameFence
        <4> QED
          BY <1>5, <1>9, <4>1
      <3> QED
        BY <1>6, <2>1, <3>1, <3>2
    <2> QED
      BY <1>3, <2>1 DEF SpentPublishes, WrittenBy
  <1>16. SpentCalls'
    <2>1. ASSUME NEW w \in Workers, NEW n \in 1 .. Len(log'),
                 log'[n].who = w, log'[n].call = call[w]
          PROVE  last'[arg[w].inv] # arg[w].expectedLast
      <3>1. CASE n \in 1 .. Len(log) /\ log'[n] = log[n]
        <4>1. last[arg[w].inv] # arg[w].expectedLast
          BY <2>1, <3>1 DEF IInv, SpentCalls, WrittenBy
        <4> QED
          BY <1>1, <1>2, <1>7, <4>1, AppendSpent
      <3>2. CASE w = m.who /\ m.call = call[w]
        <4>1. arg[w].inv = m.inv /\ arg[w].expectedLast = m.expect
          BY <3>2 DEF IInv, SameFence
        <4> QED
          BY <1>5, <1>9, <4>1
      <3> QED
        BY <1>6, <2>1, <3>1, <3>2
    <2> QED
      BY <1>3, <2>1 DEF SpentCalls, WrittenBy
  <1>17. AnswersTrue'
    <2> SUFFICES ASSUME NEW w \in Workers
                 PROVE  /\ reply'[w].tag # "none" => pc[w] = "await"
                        /\ reply'[w].tag = "ack" => OwnEntry(w, reply[w].seq)'
                        /\ reply'[w].tag = "nack" => last'[arg[w].inv] # arg[w].expectedLast
                        /\ ret[w].err = "ok" => OwnEntry(w, ret[w].seq)'
                        /\ ret[w].err = "conflict" => last'[arg[w].inv] # arg[w].expectedLast
      BY <1>3 DEF IInv, AnswersTrue
    <2>1. reply[w].seq \in Nat /\ ret[w].seq \in Nat
      BY <1>1 DEF TypeOK, Replies, Returns
    <2>2. last[arg[w].inv] # arg[w].expectedLast => last'[arg[w].inv] # arg[w].expectedLast
      BY <1>1, <1>2, <1>7, AppendSpent
    <2>3. ret[w].err = "ok" => OwnEntry(w, ret[w].seq)'
      BY <1>1, <1>2, <1>3, <2>1, AppendOwnEntry DEF IInv, AnswersTrue
    <2>4. ret[w].err = "conflict" => last'[arg[w].inv] # arg[w].expectedLast
      BY <2>2 DEF IInv, AnswersTrue
    <2>5. CASE reply'[w] = reply[w]
      <3>1. reply[w].tag = "ack" => OwnEntry(w, reply[w].seq)'
        BY <1>1, <1>2, <1>3, <2>1, <2>5, AppendOwnEntry DEF IInv, AnswersTrue
      <3> QED
        BY <2>2, <2>3, <2>4, <2>5, <3>1 DEF IInv, AnswersTrue
    <2>6. CASE /\ w = m.who /\ Awaited(m)
               /\ reply'[w] = [tag |-> "ack", seq |-> Len(log) + 1]
      <3>1. /\ pc[w] = "await" /\ m.call = call[w]
            /\ m.inv = arg[w].inv /\ m.expect = arg[w].expectedLast
        BY <2>6 DEF Awaited, IInv, SameFence
      <3>2. log'[Len(log) + 1] = e /\ Len(log) + 1 \in 1 .. Len(log')
        BY <1>1, <1>2, AppendEntryFacts
      <3>3. \A n \in arg[w].expectedLast + 1 .. Len(log) : log'[n].inv # arg[w].inv
        <4>1. \A n \in arg[w].expectedLast + 1 .. Len(log) :
                 n \in 1 .. Len(log) /\ log'[n] = log[n]
          BY <1>1, <1>2, <1>7, <1>9, AppendEntryFacts
        <4>2. \A n \in 1 .. Len(log) : log[n].inv = arg[w].inv => n <= arg[w].expectedLast
          BY <1>3, <1>5, <3>1 DEF IInv, LastIsLast
        <4> QED
          BY <1>7, <1>9, <4>1, <4>2
      <3>4. OwnEntry(w, reply[w].seq)'
        BY <1>2, <1>3, <1>7, <1>9, <2>6, <3>1, <3>2, <3>3 DEF OwnEntry, WrittenBy
      <3> QED
        BY <2>3, <2>4, <2>6, <3>1, <3>4
    <2> QED
      BY <1>1, <1>4, <2>5, <2>6 DEF TypeOK
  <1>18. CallAppliedOnce'
    <2>1. ASSUME NEW n \in 1 .. Len(log)
          PROVE  ~WrittenBy(n, m.who, m.call)
      BY <1>3 DEF IInv, SpentPublishes
    <2> QED
      BY <1>6, <2>1 DEF IInv, CallAppliedOnce, WrittenBy
  <1>19. JournalBeginsWithStart'
    BY <1>1, <1>2, <1>3, <1>5, AppendBegins DEF IInv
  <1> QED
    BY <1>10, <1>11, <1>12, <1>13, <1>14, <1>15, <1>16, <1>17, <1>18, <1>19 DEF IInv

\* A refusal changes neither the journal nor what has been returned.
LEMMA StreamRejectIInv ==
    ASSUME IInv, NEW m \in net, StreamReject(m)
    PROVE  IInv'
  <1>1. TypeOK /\ m.who \in Workers
    BY DEF IInv, TypeOK, Publishes
  <1>2. /\ net' = net \ {m}
        /\ last[m.inv] # m.expect
        /\ UNCHANGED <<log, last, pc, call, arg, attempt, ret>>
    BY DEF StreamReject, client
  <1>3. \/ /\ Awaited(m)
           /\ reply' = [reply EXCEPT ![m.who] = [tag |-> "nack", seq |-> 0]]
        \/ reply' = reply
    BY DEF StreamReject, Answer
  <1>4. TypeOK'
    <2>1. reply \in [Workers -> Replies] /\ [tag |-> "nack", seq |-> 0] \in Replies
      BY <1>1 DEF TypeOK, Replies
    <2>2. reply' \in [Workers -> Replies]
      BY <1>3, <2>1
    <2> QED
      BY <1>1, <1>2, <2>2 DEF TypeOK
  <1>5. /\ LastIsLast' /\ CallsNumbered' /\ FencesPast' /\ SameFence'
        /\ SpentPublishes' /\ SpentCalls' /\ CallAppliedOnce' /\ JournalBeginsWithStart'
    BY <1>2 DEF IInv, LastIsLast, CallsNumbered, FencesPast, SameFence, SpentPublishes,
                SpentCalls, CallAppliedOnce, JournalBeginsWithStart, WrittenBy
  <1>6. AnswersTrue'
    <2> SUFFICES ASSUME NEW w \in Workers
                 PROVE  /\ reply'[w].tag # "none" => pc[w] = "await"
                        /\ reply'[w].tag = "ack" => OwnEntry(w, reply'[w].seq)
                        /\ reply'[w].tag = "nack" => last[arg[w].inv] # arg[w].expectedLast
      BY <1>2 DEF IInv, AnswersTrue, OwnEntry, WrittenBy
    <2>1. CASE reply'[w] = reply[w]
      BY <2>1 DEF IInv, AnswersTrue
    <2>2. CASE /\ w = m.who /\ Awaited(m)
               /\ reply'[w] = [tag |-> "nack", seq |-> 0]
      <3>1. pc[w] = "await" /\ m.inv = arg[w].inv /\ m.expect = arg[w].expectedLast
        BY <2>2 DEF Awaited, IInv, SameFence
      <3> QED
        BY <1>2, <2>2, <3>1
    <2> QED
      BY <1>1, <1>3, <2>1, <2>2 DEF TypeOK
  <1> QED
    BY <1>4, <1>5, <1>6 DEF IInv

\* A new call: its number is on no entry and no publish.
LEMMA SubmitResultIInv ==
    ASSUME IInv, NEW w \in Workers, NEW i \in Invs, NEW f \in 0 .. Len(log),
           SubmitResult(w, i, f)
    PROVE  IInv'
  <1>1. TypeOK
    BY DEF IInv
  <1>2. /\ pc[w] = "idle"
        /\ call' = [call EXCEPT ![w] = @ + 1]
        /\ arg' = [arg EXCEPT ![w] = [inv |-> i, expectedLast |-> f]]
        /\ attempt' = [attempt EXCEPT ![w] = 0]
        /\ UNCHANGED <<log, last, net, reply>>
    BY DEF SubmitResult, SubmitUsage, SubmitBegin, EnterCall, stream
  <1>3. \/ /\ pc' = [pc EXCEPT ![w] = "idle"]
           /\ ret' = [ret EXCEPT ![w] = [err |-> "usage", seq |-> 0]]
        \/ /\ f # 0
           /\ pc' = [pc EXCEPT ![w] = "loop"]
           /\ ret' = [ret EXCEPT ![w] = NoReturn]
    BY DEF SubmitResult, SubmitUsage, SubmitBegin, Return
  <1>4. /\ \A v \in Workers : call[v] \in Nat
        /\ call'[w] = call[w] + 1
        /\ \A v \in Workers \ {w} :
              call'[v] = call[v] /\ arg'[v] = arg[v] /\ pc'[v] = pc[v] /\ ret'[v] = ret[v]
        /\ arg'[w].expectedLast = f
    BY <1>1, <1>2, <1>3 DEF TypeOK
  <1>5. \A m \in net : m.who \in Workers /\ m.call \in Nat /\ m.call <= call[m.who]
    BY <1>1 DEF IInv, TypeOK, Publishes, CallsNumbered
  <1>6. \A n \in 1 .. Len(log) : log[n].call \in Nat
    <2>1. \A n \in 1 .. Len(log) : log[n] \in Entry
      BY <1>1 DEF TypeOK
    <2> QED
      BY <2>1 DEF Entry
  <1>7. /\ \A m \in net : ~(m.who = w /\ m.call = call'[w])
        /\ \A n \in 1 .. Len(log) : ~WrittenBy(n, w, call'[w])
    BY <1>4, <1>5, <1>6 DEF IInv, CallsNumbered, WrittenBy
  <1>8. TypeOK'
    <2>1. call' \in [Workers -> Nat] /\ attempt' \in [Workers -> 0 .. MaxAttempts]
      BY <1>1, <1>2, BoundsAssumption DEF TypeOK
    <2>2. arg' \in [Workers -> [inv : Invs, expectedLast : Nat]]
      BY <1>1, <1>2 DEF TypeOK
    <2>3. pc' \in [Workers -> {"idle", "loop", "await"}]
      BY <1>1, <1>3 DEF TypeOK
    <2>4. ret' \in [Workers -> Returns]
      <3>1. [err |-> "usage", seq |-> 0] \in Returns /\ NoReturn \in Returns
        BY DEF Returns, Outcomes, NoReturn
      <3>2. ret \in [Workers -> Returns]
        BY <1>1 DEF TypeOK
      <3> QED
        BY <1>3, <3>1, <3>2
    <2> QED
      BY <1>1, <1>2, <2>1, <2>2, <2>3, <2>4 DEF TypeOK
  <1>9. LastIsLast' /\ CallAppliedOnce' /\ JournalBeginsWithStart' /\ SpentPublishes'
    BY <1>2 DEF IInv, LastIsLast, CallAppliedOnce, JournalBeginsWithStart,
                SpentPublishes, WrittenBy
  <1>10. CallsNumbered'
    <2>1. ASSUME NEW n \in 1 .. Len(log), log[n].who \in Workers
          PROVE  log[n].call <= call'[log[n].who]
      BY <1>4, <1>6, <2>1 DEF IInv, CallsNumbered
    <2>2. ASSUME NEW m \in net PROVE m.call <= call'[m.who]
      BY <1>4, <1>5
    <2> QED
      BY <1>2, <2>1, <2>2 DEF CallsNumbered
  <1>11. FencesPast'
    <2>1. ASSUME NEW v \in Workers
          PROVE  /\ arg'[v].expectedLast <= Len(log)
                 /\ pc'[v] # "idle" => arg'[v].expectedLast # 0
      <3>1. pc'[w] # "idle" => f # 0
        BY <1>1, <1>3 DEF TypeOK
      <3>2. f <= Len(log)
        BY <1>1 DEF TypeOK
      <3> QED
        BY <1>4, <3>1, <3>2 DEF IInv, FencesPast
    <2> QED
      BY <1>2, <2>1 DEF IInv, FencesPast
  <1>12. SameFence'
    BY <1>2, <1>4, <1>5, <1>7 DEF IInv, SameFence
  <1>13. SpentCalls'
    BY <1>2, <1>4, <1>7 DEF IInv, SpentCalls, WrittenBy
  <1>14. AnswersTrue'
    <2>2. ASSUME NEW v \in Workers \ {w}
          PROVE  /\ reply[v].tag # "none" => pc'[v] = "await"
                 /\ reply[v].tag = "ack" => OwnEntry(v, reply[v].seq)'
                 /\ reply[v].tag = "nack" => last[arg'[v].inv] # arg'[v].expectedLast
                 /\ ret'[v].err = "ok" => OwnEntry(v, ret[v].seq)'
                 /\ ret'[v].err = "conflict" => last[arg'[v].inv] # arg'[v].expectedLast
                 /\ ret'[v].err = "usage" =>
                       \A m \in net : ~(m.who = v /\ m.call = call'[v])
                 /\ pc'[v] # "idle" => ret'[v].err = "none"
      BY <1>2, <1>4 DEF IInv, AnswersTrue, OwnEntry, WrittenBy
    <2>3. /\ reply[w].tag = "none"
          /\ ret'[w].err \in {"usage", "none"}
          /\ pc'[w] # "idle" => ret'[w].err = "none"
      <3>1. reply[w].tag = "none"
        BY <1>1, <1>2 DEF IInv, AnswersTrue, TypeOK, Replies
      <3> QED
        BY <1>1, <1>3, <3>1 DEF TypeOK, NoReturn
    <2> QED
      BY <1>2, <1>4, <1>7, <2>2, <2>3 DEF AnswersTrue
  <1> QED
    BY <1>8, <1>9, <1>10, <1>11, <1>12, <1>13, <1>14 DEF IInv

\* A publish carries the current call's number, subject and fence.
LEMMA PublishIInv ==
    ASSUME IInv, NEW w \in Workers, Publish(w)
    PROVE  IInv'
  <1> DEFINE m == Message(w, arg[w].expectedLast)
  <1>1. TypeOK
    BY DEF IInv
  <1>2. /\ pc[w] = "loop"
        /\ attempt[w] < MaxAttempts
        /\ attempt' = [attempt EXCEPT ![w] = @ + 1]
        /\ net' = net \cup {m}
        /\ pc' = [pc EXCEPT ![w] = "await"]
        /\ UNCHANGED <<log, last, reply, call, arg, ret>>
    BY DEF Publish
  <1>3. /\ m.who = w /\ m.call = call[w] /\ m.inv = arg[w].inv
        /\ m.expect = arg[w].expectedLast
        /\ m \in Publishes
    BY <1>1 DEF Message, Publishes, TypeOK
  <1>4. arg[w].expectedLast \in 1 .. Len(log)
    BY <1>1, <1>2 DEF IInv, FencesPast, TypeOK
  <1>5. reply[w].tag = "none" /\ ret[w].err = "none"
    BY <1>1, <1>2 DEF IInv, AnswersTrue, TypeOK
  <1> HIDE DEF m
  <1>6. TypeOK'
    BY <1>1, <1>2, <1>3, BoundsAssumption DEF TypeOK
  <1>7. LastIsLast' /\ CallAppliedOnce' /\ JournalBeginsWithStart' /\ SpentCalls'
    BY <1>2 DEF IInv, LastIsLast, CallAppliedOnce, JournalBeginsWithStart, SpentCalls,
                WrittenBy
  <1>8. CallsNumbered'
    BY <1>1, <1>2, <1>3 DEF IInv, CallsNumbered, TypeOK
  <1>9. FencesPast'
    BY <1>1, <1>2, <1>3, <1>4 DEF IInv, FencesPast, TypeOK
  <1>10. SameFence'
    BY <1>2, <1>3 DEF IInv, SameFence
  <1>11. SpentPublishes'
    BY <1>2, <1>3 DEF IInv, SpentPublishes, SpentCalls, WrittenBy
  <1>12. AnswersTrue'
    <2>1. ASSUME NEW v \in Workers
          PROVE  /\ reply[v].tag # "none" => pc'[v] = "await"
                 /\ ret[v].err = "usage" =>
                       \A p \in net' : ~(p.who = v /\ p.call = call[v])
                 /\ pc'[v] # "idle" => ret[v].err = "none"
      BY <1>1, <1>2, <1>3, <1>5 DEF IInv, AnswersTrue, TypeOK
    <2> QED
      BY <1>2, <2>1 DEF IInv, AnswersTrue, OwnEntry, WrittenBy
  <1> QED
    BY <1>6, <1>7, <1>8, <1>9, <1>10, <1>11, <1>12 DEF IInv

\* A wait that ends keeps IInv when what the call then returns is true.
LEMMA LeaveIInv ==
    ASSUME IInv, NEW w \in Workers, NEW p \in {"idle", "loop"}, NEW r \in Returns,
           UNCHANGED <<log, last, net, call, arg, attempt>>,
           pc' = [pc EXCEPT ![w] = p],
           ret' = [ret EXCEPT ![w] = r],
           \/ reply' = [reply EXCEPT ![w] = NoReply]
           \/ reply' = reply /\ reply[w].tag = "none",
           p = "loop" => pc[w] # "idle" /\ r.err = "none",
           r.err = "ok" => OwnEntry(w, r.seq),
           r.err = "conflict" => last[arg[w].inv] # arg[w].expectedLast,
           r.err # "usage"
    PROVE  IInv'
  <1>1. TypeOK
    BY DEF IInv
  <1>2. TypeOK'
    <2>1. reply' \in [Workers -> Replies]
      <3>1. reply \in [Workers -> Replies] /\ NoReply \in Replies
        BY <1>1 DEF TypeOK, Replies, NoReply
      <3> QED
        BY <3>1
    <2> QED
      BY <1>1, <2>1 DEF TypeOK
  <1>3. /\ LastIsLast' /\ CallsNumbered' /\ SameFence' /\ SpentPublishes' /\ SpentCalls'
        /\ CallAppliedOnce' /\ JournalBeginsWithStart'
    BY DEF IInv, LastIsLast, CallsNumbered, SameFence, SpentPublishes, SpentCalls,
           CallAppliedOnce, JournalBeginsWithStart, WrittenBy
  <1>4. FencesPast'
    BY <1>1 DEF IInv, FencesPast, TypeOK
  <1>5. AnswersTrue'
    <2>1. /\ reply'[w].tag = "none" /\ pc'[w] = p /\ ret'[w] = r
          /\ \A v \in Workers \ {w} :
                reply'[v] = reply[v] /\ pc'[v] = pc[v] /\ ret'[v] = ret[v]
      BY <1>1 DEF TypeOK, NoReply
    <2>2. ASSUME NEW v \in Workers \ {w}
          PROVE  /\ reply'[v].tag # "none" => pc'[v] = "await"
                 /\ reply'[v].tag = "ack" => OwnEntry(v, reply[v].seq)'
                 /\ reply'[v].tag = "nack" => last[arg[v].inv] # arg[v].expectedLast
                 /\ ret'[v].err = "ok" => OwnEntry(v, ret[v].seq)'
                 /\ ret'[v].err = "conflict" => last[arg[v].inv] # arg[v].expectedLast
                 /\ ret'[v].err = "usage" =>
                       \A m \in net : ~(m.who = v /\ m.call = call[v])
                 /\ pc'[v] # "idle" => ret'[v].err = "none"
      BY <2>1 DEF IInv, AnswersTrue, OwnEntry, WrittenBy
    <2>3. /\ r.err = "ok" => OwnEntry(w, ret[w].seq)'
          /\ pc'[w] # "idle" => r.err = "none"
      BY <2>1 DEF OwnEntry, WrittenBy
    <2> QED
      BY <2>1, <2>2, <2>3 DEF AnswersTrue
  <1> QED
    BY <1>2, <1>3, <1>4, <1>5 DEF IInv

\* Every way out of a wait.  A conflict is the broker's own refusal: the client's
\* errors are never classified as one (LocalErrsAssumption).
LEMMA CallStepIInv ==
    ASSUME IInv, NEW w \in Workers, CallStep(w) \/ Crash(w)
    PROVE  IInv'
  <1>1. TypeOK
    BY DEF IInv
  <1>2. NoReturn \in Returns /\ \A err \in Outcomes : [err |-> err, seq |-> 0] \in Returns
    BY DEF NoReturn, Returns, Outcomes
  <1>3. reply[w].seq \in Nat /\ ret[w] \in Returns
    BY <1>1 DEF TypeOK, Replies
  <1>4. CASE Publish(w)
    BY <1>4, PublishIInv
  <1>5. CASE PublishAcked(w)
    <2>1. OwnEntry(w, reply[w].seq)
      BY <1>5 DEF PublishAcked, IInv, AnswersTrue
    <2>2. [err |-> "ok", seq |-> reply[w].seq] \in Returns
      BY <1>3 DEF Returns, Outcomes
    <2> QED
      BY <1>5, <2>1, <2>2, LeaveIInv DEF PublishAcked, Return, stream
  <1>6. CASE \E e \in PubErrs(w) : PublishConflict(w, e)
    <2>1. reply[w].tag = "nack"
      BY <1>6, LocalErrsAssumption DEF PubErrs, PublishConflict
    <2>2. last[arg[w].inv] # arg[w].expectedLast
      BY <2>1 DEF IInv, AnswersTrue
    <2> QED
      BY <1>2, <1>6, <2>2, LeaveIInv DEF PublishConflict, Return, stream, Outcomes
  <1>7. CASE \E e \in PubErrs(w) : PublishFailed(w, e)
    BY <1>2, <1>7, LeaveIInv DEF PublishFailed, Return, stream, Outcomes
  <1>8. CASE \E e \in PubErrs(w) : PublishRetry(w, e)
    <2>1. ret' = [ret EXCEPT ![w] = ret[w]] /\ ret[w].err = "none"
      BY <1>1, <1>8 DEF PublishRetry, IInv, AnswersTrue, TypeOK
    <2> QED
      BY <1>3, <1>8, <2>1, LeaveIInv DEF PublishRetry, stream
  <1>9. CASE SubmitExhausted(w)
    <2>1. reply[w].tag = "none"
      BY <1>1, <1>9 DEF SubmitExhausted, IInv, AnswersTrue, TypeOK, Replies
    <2> QED
      BY <1>2, <1>9, <2>1, LeaveIInv DEF SubmitExhausted, Return, stream, Outcomes
  <1>10. CASE Crash(w)
    BY <1>2, <1>10, LeaveIInv DEF Crash, stream, NoReturn
  <1> QED
    BY <1>4, <1>5, <1>6, <1>7, <1>8, <1>9, <1>10 DEF CallStep

\* A step that changes nothing.
LEMMA StutterIInv ==
    ASSUME IInv, UNCHANGED vars
    PROVE  IInv'
  BY DEF vars, IInv, TypeOK, LastIsLast, CallsNumbered, FencesPast, SameFence,
         SpentPublishes, SpentCalls, AnswersTrue, CallAppliedOnce,
         JournalBeginsWithStart, OwnEntry, WrittenBy

\* Every step keeps the invariant.
LEMMA NextIInv == IInv /\ [Next]_vars => IInv'
  <1> SUFFICES ASSUME IInv, [Next]_vars PROVE IInv'
    OBVIOUS
  <1>1. CASE EngineStep
    BY <1>1, EngineAppendIInv DEF EngineStep
  <1>2. CASE StreamStep
    BY <1>2, StreamApplyIInv, StreamRejectIInv DEF StreamStep
  <1>3. CASE \E w \in Workers, i \in Invs, f \in 0 .. Len(log) : SubmitResult(w, i, f)
    BY <1>3, SubmitResultIInv
  <1>4. CASE \E w \in Workers : CallStep(w) \/ Crash(w)
    BY <1>4, CallStepIInv
  <1>5. CASE UNCHANGED vars
    BY <1>5, StutterIInv
  <1> QED
    BY <1>1, <1>2, <1>3, <1>4, <1>5 DEF Next

\* IInv holds in every reachable state.
THEOREM Invariance == Spec => []IInv
  BY InitIInv, NextIInv, PTL DEF Spec

------------------------------------------------------------------------------
\* The types of FatSubmit hold for every set of workers and invocations.
THEOREM TypeCorrect == Spec => []TypeOK
  <1>1. IInv => TypeOK
    BY DEF IInv
  <1> QED
    BY <1>1, Invariance, PTL

\* The publishes of a call, however many times it is retried and however late
\* they are handled, append at most one entry (fat.go:298).
THEOREM AppliedOnce == Spec => []CallAppliedOnce
  <1>1. IInv => CallAppliedOnce
    BY DEF IInv
  <1> QED
    BY <1>1, Invariance, PTL

\* A nil error names the call's own entry, next after the fence (fat.go:305).
THEOREM AckedTrue == Spec => []AckedIsOwnEntry
  <1>1. IInv => AckedIsOwnEntry
    BY DEF IInv, AnswersTrue, AckedIsOwnEntry, OwnEntry
  <1> QED
    BY <1>1, Invariance, PTL

\* No journal begins with an Output (fat.go:262).
THEOREM StartFirst == Spec => []JournalBeginsWithStart
  <1>1. IInv => JournalBeginsWithStart
    BY DEF IInv
  <1> QED
    BY <1>1, Invariance, PTL

\* What a caller has been told for certain stays true: after a nil error,
\* ErrFatConflict or ErrFatUsage none of the call's publishes is applied.
THEOREM SettledStays == Spec => SettledStaysSettled
  <1>1. ASSUME IInv, [Next]_vars
        PROVE  [\A w \in Workers :
                  Settled(w) /\ call'[w] = call[w] /\ log' # log
                  => ~(log'[Len(log')].who = w /\ log'[Len(log')].call = call[w])]_vars
    <2> SUFFICES ASSUME NEW w \in Workers, Settled(w), log' # log,
                        log'[Len(log')].who = w, log'[Len(log')].call = call[w]
                 PROVE  FALSE
      OBVIOUS
    <2>1. TypeOK
      BY <1>1 DEF IInv
    <2>2. CASE EngineStep
      <3>1. PICK i \in Invs, t \in {"Start", "Step", "Error"} : EngineAppend(i, t)
        BY <2>2 DEF EngineStep
      <3>2. LET e == [inv |-> i, type |-> t, who |-> Engine, call |-> 0]
            IN e \in Entry /\ AppendEntry(e)
        BY <3>1 DEF EngineAppend, Entry, EntryTypes
      <3>3. log'[Len(log')].who = Engine
        BY <2>1, <3>2, AppendEntryFacts
      <3> QED
        BY <3>3, EngineAssumption
    <2>3. CASE StreamStep
      <3>1. PICK m \in net : StreamApply(m) \/ StreamReject(m)
        BY <2>3 DEF StreamStep
      <3>2. StreamApply(m) /\ m \in Publishes
        BY <2>1, <3>1 DEF StreamReject, TypeOK
      <3>3. LET e == [inv |-> m.inv, type |-> "Output", who |-> m.who, call |-> m.call]
            IN e \in Entry /\ AppendEntry(e)
        BY <3>2 DEF StreamApply, Entry, EntryTypes, Publishes
      <3>4. m.who = w /\ m.call = call[w]
        BY <2>1, <3>3, AppendEntryFacts
      <3>5. m.inv = arg[w].inv /\ m.expect = arg[w].expectedLast
        BY <1>1, <3>4 DEF IInv, SameFence
      <3>6. last[arg[w].inv] = arg[w].expectedLast
        BY <3>2, <3>5 DEF StreamApply
      <3>7. CASE ret[w].err = "ok"
        BY <1>1, <3>6, <3>7 DEF IInv, AnswersTrue, OwnEntry, SpentCalls
      <3>8. CASE ret[w].err = "conflict"
        BY <1>1, <3>6, <3>8 DEF IInv, AnswersTrue
      <3>9. CASE ret[w].err = "usage"
        BY <1>1, <3>4, <3>9 DEF IInv, AnswersTrue
      <3> QED
        BY <3>7, <3>8, <3>9 DEF Settled
    <2>4. CASE \E v \in Workers, i \in Invs, f \in 0 .. Len(log) : SubmitResult(v, i, f)
      BY <2>4 DEF SubmitResult, SubmitUsage, SubmitBegin, stream
    <2>5. CASE \E v \in Workers : CallStep(v) \/ Crash(v)
      BY <2>5 DEF CallStep, Publish, PublishAcked, PublishConflict, PublishFailed,
                  PublishRetry, SubmitExhausted, Crash, stream
    <2>6. CASE UNCHANGED vars
      BY <2>6 DEF vars
    <2> QED
      BY <1>1, <2>2, <2>3, <2>4, <2>5, <2>6 DEF Next
  <1> QED
    BY <1>1, Invariance, PTL DEF Spec, SettledStaysSettled

------------------------------------------------------------------------------
(* The retries run out.                                                    *)

\* StepsLeft at each place of SubmitResult: positive inside it, and more while an
\* attempt is awaited than after it.
LEMMA StepsLeftIs ==
    ASSUME TypeOK, NEW w \in Workers
    PROVE  /\ pc[w] = "idle" => StepsLeft(w) = 0
           /\ pc[w] = "loop" => StepsLeft(w) = 2 * (MaxAttempts - attempt[w]) + 1
           /\ pc[w] = "await" => StepsLeft(w) = 2 * (MaxAttempts - attempt[w]) + 2
           /\ attempt[w] \in 0 .. MaxAttempts /\ MaxAttempts \in Nat
           /\ pc[w] \in {"idle", "loop", "await"}
  <1>1. pc[w] \in {"idle", "loop", "await"} /\ attempt[w] \in 0 .. MaxAttempts
    BY DEF TypeOK
  <1> QED
    BY <1>1, BoundsAssumption DEF StepsLeft

\* The steps of w itself: each of them leaves it fewer.
LEMMA OwnStepRunsOut ==
    ASSUME TypeOK, TypeOK', NEW w \in Workers, CallStep(w) \/ Crash(w)
    PROVE  StepsLeft(w)' < StepsLeft(w)
  <1>1. TypeOK => pc[w] \in {"idle", "loop", "await"} /\ attempt[w] \in 0 .. MaxAttempts
    BY DEF TypeOK
  <1>2. /\ pc'[w] = "idle" => StepsLeft(w)' = 0
        /\ pc'[w] = "loop" => StepsLeft(w)' = 2 * (MaxAttempts - attempt'[w]) + 1
        /\ pc'[w] = "await" => StepsLeft(w)' = 2 * (MaxAttempts - attempt'[w]) + 2
    BY DEF StepsLeft
  <1>3. CASE Publish(w)
    <2>1. /\ pc[w] = "loop" /\ attempt[w] < MaxAttempts
          /\ pc'[w] = "await" /\ attempt'[w] = attempt[w] + 1
      BY <1>3 DEF Publish, TypeOK
    <2> QED
      BY <1>2, <2>1, StepsLeftIs
  <1>4. CASE \E e \in PubErrs(w) : PublishRetry(w, e)
    <2>1. pc[w] = "await" /\ pc'[w] = "loop" /\ attempt' = attempt
      BY <1>4 DEF PublishRetry, TypeOK
    <2> QED
      BY <1>2, <2>1, StepsLeftIs
  <1>5. CASE pc[w] # "idle" /\ pc'[w] = "idle"
    BY <1>2, <1>5, StepsLeftIs
  <1>6. \/ PublishAcked(w) \/ SubmitExhausted(w) \/ Crash(w)
        \/ \E e \in PubErrs(w) : PublishConflict(w, e) \/ PublishFailed(w, e)
        => pc[w] # "idle" /\ pc'[w] = "idle"
    BY DEF PublishAcked, SubmitExhausted, Crash, PublishConflict, PublishFailed, Return,
           TypeOK
  <1> QED
    BY <1>3, <1>4, <1>5, <1>6 DEF CallStep

\* Whatever the others do leaves a call in progress where it is.
LEMMA OthersLeaveCall ==
    ASSUME TypeOK, NEW w \in Workers, pc[w] # "idle",
           \/ EngineStep
           \/ StreamStep
           \/ \E v \in Workers, i \in Invs, f \in 0 .. Len(log) : SubmitResult(v, i, f)
           \/ \E v \in Workers \ {w} : CallStep(v) \/ Crash(v)
           \/ UNCHANGED vars
    PROVE  pc'[w] = pc[w] /\ attempt'[w] = attempt[w] /\ ret'[w] = ret[w]
  <1> USE DEF TypeOK
  <1>1. CASE EngineStep \/ StreamStep
    BY <1>1 DEF EngineStep, EngineAppend, StreamStep, StreamApply, StreamReject, client
  <1>2. ASSUME NEW v \in Workers, NEW i \in Invs, NEW f \in 0 .. Len(log),
               SubmitResult(v, i, f)
        PROVE  pc'[w] = pc[w] /\ attempt'[w] = attempt[w] /\ ret'[w] = ret[w]
    BY <1>2 DEF SubmitResult, SubmitUsage, SubmitBegin, EnterCall, Return
  <1>3. ASSUME NEW v \in Workers \ {w}, CallStep(v) \/ Crash(v)
        PROVE  pc'[w] = pc[w] /\ attempt'[w] = attempt[w] /\ ret'[w] = ret[w]
    BY <1>3 DEF CallStep, Publish, PublishAcked, PublishConflict, PublishFailed,
                PublishRetry, SubmitExhausted, Crash, Return
  <1>4. CASE UNCHANGED vars
    BY <1>4 DEF vars
  <1> QED
    BY <1>1, <1>2, <1>3, <1>4

\* Every step inside SubmitResult brings its return nearer, for every retry budget;
\* nothing else moves it away (fat.go:298).
THEOREM RetriesEnd == Spec => RetriesRunOut
  <1>1. ASSUME IInv, IInv', [Next]_vars, NEW w \in Workers, pc[w] # "idle"
        PROVE  IF <<pc[w], attempt[w]>>' = <<pc[w], attempt[w]>>
               THEN ret'[w] = ret[w] ELSE StepsLeft(w)' < StepsLeft(w)
    <2>1. TypeOK /\ TypeOK'
      BY <1>1 DEF IInv
    <2>2. CASE CallStep(w) \/ Crash(w)
      <3>1. StepsLeft(w)' < StepsLeft(w)
        BY <2>1, <2>2, OwnStepRunsOut
      <3>2. <<pc[w], attempt[w]>>' = <<pc[w], attempt[w]>> => StepsLeft(w)' = StepsLeft(w)
        BY DEF StepsLeft
      <3>3. StepsLeft(w) \in Nat
        BY <2>1, StepsLeftIs
      <3> QED
        BY <3>1, <3>2, <3>3
    <2>3. CASE ~(CallStep(w) \/ Crash(w))
      <3>1. pc'[w] = pc[w] /\ attempt'[w] = attempt[w] /\ ret'[w] = ret[w]
        BY <1>1, <2>1, <2>3, OthersLeaveCall DEF Next
      <3> QED
        BY <3>1
    <2> QED
      BY <2>2, <2>3
  <1>2. IInv /\ IInv' /\ [Next]_vars
        => [\A w \in Workers : pc[w] # "idle" =>
              IF <<pc[w], attempt[w]>>' = <<pc[w], attempt[w]>>
              THEN ret'[w] = ret[w] ELSE StepsLeft(w)' < StepsLeft(w)]_vars
    BY <1>1
  <1> QED
    BY <1>2, Invariance, PTL DEF Spec, RetriesRunOut

------------------------------------------------------------------------------
(* FatSubmit implements FencedLog.                                         *)

\* The submission a publish carries, and the one its worker is pursuing.
SubmissionOf(m) == [who |-> m.who, call |-> m.call, inv |-> m.inv, expect |-> m.expect]
Pursued(w) ==
    [who |-> w, call |-> call[w], inv |-> arg[w].inv, expect |-> arg[w].expectedLast]

\* What it takes to be open.
LEMMA OpenIs ==
    ASSUME NEW o
    PROVE  o \in Open <=>
             /\ \/ \E m \in net : o = SubmissionOf(m)
                \/ \E w \in Workers : pc[w] # "idle" /\ o = Pursued(w)
             /\ last[o.inv] = o.expect
  BY DEF Open, SubmissionOf, Pursued

\* The same after a step.
LEMMA OpenIsNext ==
    ASSUME NEW o
    PROVE  o \in Open' <=>
             /\ \/ \E m \in net' : o = SubmissionOf(m)
                \/ \E w \in Workers : pc'[w] # "idle" /\ o = Pursued(w)'
             /\ last'[o.inv] = o.expect
  BY DEF Open, SubmissionOf, Pursued

\* The stream's own comparison says where a journal ends.
LEMMA EndsAtIs ==
    ASSUME TypeOK, LastIsLast, NEW i \in Invs, NEW f \in Nat
    PROVE  Fenced!EndsAt(i, f) <=> f # 0 /\ last[i] = f
  <1>1. /\ Len(log) \in Nat /\ last[i] \in Nat /\ last[i] <= Len(log)
        /\ last[i] # 0 => log[last[i]].inv = i
        /\ \A n \in 1 .. Len(log) : log[n].inv = i => n <= last[i]
    BY DEF TypeOK, LastIsLast
  <1>2. ASSUME f # 0, last[i] = f PROVE Fenced!EndsAt(i, f)
    BY <1>1, <1>2 DEF Fenced!EndsAt
  <1>3. ASSUME Fenced!EndsAt(i, f) PROVE f # 0 /\ last[i] = f
    <2>1. f \in 1 .. Len(log) /\ f <= last[i]
      BY <1>1, <1>3 DEF Fenced!EndsAt
    <2>2. last[i] \in 1 .. Len(log) /\ log[last[i]].inv = i
      BY <1>1, <2>1
    <2>3. last[i] \notin f + 1 .. Len(log)
      BY <1>3, <2>2 DEF Fenced!EndsAt
    <2> QED
      BY <2>1, <2>2, <2>3
  <1> QED
    BY <1>2, <1>3

\* An open submission is for an invocation, with a fence in the past.
LEMMA OpenPast ==
    ASSUME IInv, NEW o,
           \/ \E m \in net : o = SubmissionOf(m)
           \/ \E w \in Workers : o = Pursued(w)
    PROVE  o.inv \in Invs /\ o.expect \in 0 .. Len(log)
  <1>1. Len(log) \in Nat
    BY DEF IInv, TypeOK
  <1>2. \A m \in net : m.inv \in Invs /\ m.expect \in 0 .. Len(log)
    BY <1>1 DEF IInv, TypeOK, Publishes, FencesPast
  <1>3. \A w \in Workers : arg[w].inv \in Invs /\ arg[w].expectedLast \in 0 .. Len(log)
    BY <1>1 DEF IInv, TypeOK, FencesPast
  <1> QED
    BY <1>2, <1>3 DEF SubmissionOf, Pursued

\* An entry closes the submissions of its invocation and no others.
LEMMA AppendCloses ==
    ASSUME IInv, NEW e \in Entry, AppendEntry(e), UNCHANGED <<pc, call, arg>>,
           net' \subseteq net, \A m \in net \ net' : m.inv = e.inv
    PROVE  Open' = {o \in Open : o.inv # e.inv}
  <1>1. TypeOK /\ e.inv \in Invs
    BY DEF IInv, Entry
  <1>2. /\ Len(log) \in Nat
        /\ last'[e.inv] = Len(log) + 1
        /\ \A i \in Invs : i # e.inv => last'[i] = last[i]
    BY <1>1, AppendEntryFacts
  <1>3. \A w : Pursued(w)' = Pursued(w)
    BY DEF Pursued
  <1>4. ASSUME NEW o \in Open' PROVE o \in Open /\ o.inv # e.inv
    <2>1. /\ \/ \E m \in net : o = SubmissionOf(m)
             \/ \E w \in Workers : pc[w] # "idle" /\ o = Pursued(w)
          /\ last'[o.inv] = o.expect
      BY <1>3, <1>4, OpenIsNext
    <2>2. o.inv \in Invs /\ o.expect \in 0 .. Len(log)
      BY <2>1, OpenPast
    <2>3. o.inv # e.inv
      BY <1>2, <2>1, <2>2
    <2> QED
      BY <1>2, <2>1, <2>2, <2>3, OpenIs
  <1>5. ASSUME NEW o \in Open, o.inv # e.inv PROVE o \in Open'
    <2>1. /\ \/ \E m \in net : o = SubmissionOf(m)
             \/ \E w \in Workers : pc[w] # "idle" /\ o = Pursued(w)
          /\ last[o.inv] = o.expect
      BY OpenIs
    <2>2. o.inv \in Invs
      BY <2>1, OpenPast
    <2>3. last'[o.inv] = o.expect
      BY <1>2, <1>5, <2>1, <2>2
    <2>4. \A m \in net : o = SubmissionOf(m) => m \in net'
      BY <1>5 DEF SubmissionOf
    <2> QED
      BY <1>3, <2>1, <2>3, <2>4, OpenIsNext
  <1> QED
    BY <1>4, <1>5

\* The engine's append is an entry of the journal.
LEMMA EngineAppendImplements ==
    ASSUME IInv, NEW i \in Invs, NEW t \in {"Start", "Step", "Error"}, EngineAppend(i, t)
    PROVE  Fenced!EngineEntry
  <1> DEFINE e == [inv |-> i, type |-> t, who |-> Engine, call |-> 0]
  <1>1. e \in Entry /\ AppendEntry(e) /\ UNCHANGED <<net, pc, call, arg, ret>>
    BY DEF EngineAppend, client, Entry, EntryTypes
  <1>2. Open' = {o \in Open : o.inv # e.inv}
    BY <1>1, AppendCloses
  <1>3. Fenced!Journal(e)
    BY <1>1, <1>2 DEF Fenced!Journal, AppendEntry
  <1> QED
    BY <1>3 DEF Fenced!EngineEntry

\* Whichever attempt the stream applies, and however late, it is the submission
\* that takes effect.
LEMMA StreamApplyImplements ==
    ASSUME IInv, NEW m \in net, StreamApply(m)
    PROVE  Fenced!TakesEffect
  <1> DEFINE e == [inv |-> m.inv, type |-> "Output", who |-> m.who, call |-> m.call]
  <1>1. /\ e \in Entry /\ AppendEntry(e) /\ UNCHANGED <<pc, call, arg, ret>>
        /\ net' = net \ {m} /\ last[m.inv] = m.expect
    BY DEF IInv, TypeOK, StreamApply, client, Entry, EntryTypes, Publishes
  <1>2. Open' = {o \in Open : o.inv # e.inv}
    BY <1>1, AppendCloses
  <1>3. Fenced!Journal(e)
    BY <1>1, <1>2 DEF Fenced!Journal, AppendEntry
  <1>4. /\ SubmissionOf(m) \in Open
        /\ e = [inv |-> SubmissionOf(m).inv, type |-> "Output",
                who |-> SubmissionOf(m).who, call |-> SubmissionOf(m).call]
    BY <1>1, OpenIs DEF SubmissionOf
  <1> QED
    BY <1>3, <1>4 DEF Fenced!TakesEffect

\* A refusal is not visible: the journal had moved already.
LEMMA StreamRejectImplements ==
    ASSUME IInv, NEW m \in net, StreamReject(m)
    PROVE  UNCHANGED <<log, call, arg, ret, Open>>
  <1>1. /\ net' = net \ {m} /\ last[m.inv] # m.expect
        /\ UNCHANGED <<log, last, pc, call, arg, ret>>
    BY DEF StreamReject, client
  <1>2. \A o : o \in Open' <=> o \in Open
    <2>1. ASSUME NEW o PROVE o \in Open' <=> o \in Open
      <3>1. last[o.inv] = o.expect => o # SubmissionOf(m)
        BY <1>1 DEF SubmissionOf
      <3>2. \A w : Pursued(w)' = Pursued(w)
        BY <1>1 DEF Pursued
      <3> QED
        BY <1>1, <3>1, <3>2, OpenIs, OpenIsNext
    <2> QED
      BY <2>1
  <1>3. Open' = Open
    BY <1>2
  <1> QED
    BY <1>1, <1>3

\* A call that is refused, or begins, is a submission; with the fence of today it is
\* open, with an older one it never is.
LEMMA SubmitResultImplements ==
    ASSUME IInv, NEW w \in Workers, NEW i \in Invs, NEW f \in 0 .. Len(log),
           SubmitResult(w, i, f)
    PROVE  Fenced!Submit(w)
  <1> DEFINE o1 == [who |-> w, call |-> call[w] + 1, inv |-> i, expect |-> f]
  <1>1. TypeOK /\ LastIsLast /\ f \in Nat
    BY DEF IInv
  <1>2. /\ pc[w] = "idle"
        /\ call' = [call EXCEPT ![w] = @ + 1]
        /\ arg' = [arg EXCEPT ![w] = [inv |-> i, expectedLast |-> f]]
        /\ UNCHANGED <<log, last, net>>
    BY DEF SubmitResult, SubmitUsage, SubmitBegin, EnterCall, stream
  <1>3. /\ ret' = [ret EXCEPT ![w] = [err |-> IF f = 0 THEN "usage" ELSE "none", seq |-> 0]]
        /\ pc' = [pc EXCEPT ![w] = IF f = 0 THEN "idle" ELSE "loop"]
    BY DEF SubmitResult, SubmitUsage, SubmitBegin, Return, NoReturn
  <1>4. /\ Pursued(w)' = o1 /\ (pc'[w] # "idle" <=> f # 0)
        /\ \A v \in Workers \ {w} : Pursued(v)' = Pursued(v) /\ pc'[v] = pc[v]
    BY <1>1, <1>2, <1>3 DEF TypeOK, Pursued
  <1>5. Fenced!EndsAt(i, f) <=> f # 0 /\ last[i] = f
    BY <1>1, EndsAtIs
  <1>6. ASSUME NEW o
        PROVE  o \in Open' <=> o \in Open \/ (o = o1 /\ Fenced!EndsAt(i, f))
    <2>1. o1.inv = i /\ o1.expect = f
      OBVIOUS
    <2> HIDE DEF o1
    <2> QED
      BY <1>2, <1>4, <1>5, <2>1, OpenIs, OpenIsNext
  <1>7. Open' = Open \cup {o \in {o1} : Fenced!EndsAt(i, f)}
    BY <1>6
  <1> QED
    BY <1>2, <1>3, <1>7 DEF Fenced!Submit

\* A publish, the first or a retry, is the submission itself.
LEMMA PublishImplements ==
    ASSUME IInv, NEW w \in Workers, Publish(w)
    PROVE  UNCHANGED <<log, call, arg, ret, Open>>
  <1> DEFINE m == Message(w, arg[w].expectedLast)
  <1>1. /\ pc[w] = "loop" /\ pc' = [pc EXCEPT ![w] = "await"]
        /\ net' = net \cup {m}
        /\ UNCHANGED <<log, last, call, arg, ret>>
    BY DEF Publish
  <1>2. SubmissionOf(m) = Pursued(w)
    BY DEF SubmissionOf, Pursued, Message
  <1>3. \A v \in Workers : pc'[v] # "idle" <=> pc[v] # "idle"
    BY <1>1 DEF IInv, TypeOK
  <1>4. ASSUME NEW o PROVE o \in Open' <=> o \in Open
    <2>1. \A v : Pursued(v)' = Pursued(v)
      BY <1>1 DEF Pursued
    <2> HIDE DEF m
    <2> QED
      BY <1>1, <1>2, <1>3, <2>1, OpenIs, OpenIsNext
  <1>5. Open' = Open
    BY <1>4
  <1> QED
    BY <1>1, <1>5

\* The worker stops pursuing its submission: what no publish carries is closed.
LEMMA LeavingCloses ==
    ASSUME IInv, NEW w \in Workers, pc[w] # "idle", pc' = [pc EXCEPT ![w] = "idle"],
           UNCHANGED <<log, last, net, call, arg>>
    PROVE  Open' \in {Open, {o \in Open : o.who # w \/ o.call # call[w]}}
  <1>1. \A v \in Workers : pc'[v] # "idle" <=> v # w /\ pc[v] # "idle"
    BY DEF IInv, TypeOK
  <1>2. \A v : Pursued(v)' = Pursued(v)
    BY DEF Pursued
  <1>3. CASE \E m \in net : m.who = w /\ m.call = call[w]
    <2>1. PICK m \in net : m.who = w /\ m.call = call[w]
      BY <1>3
    <2>2. SubmissionOf(m) = Pursued(w)
      BY <2>1 DEF IInv, SameFence, SubmissionOf, Pursued
    <2>3. ASSUME NEW o PROVE o \in Open' <=> o \in Open
      BY <1>1, <1>2, <2>2, OpenIs, OpenIsNext
    <2>4. Open' = Open
      BY <2>3
    <2> QED
      BY <2>4
  <1>4. CASE \A m \in net : ~(m.who = w /\ m.call = call[w])
    <2>1. ASSUME NEW o
          PROVE  o \in Open' <=> o \in Open /\ (o.who # w \/ o.call # call[w])
      <3>1. \A m \in net : o = SubmissionOf(m) => o.who # w \/ o.call # call[w]
        BY <1>4 DEF SubmissionOf
      <3>2. \A v : o = Pursued(v) => o.who = v /\ (v = w => o.call = call[w])
        BY DEF Pursued
      <3> QED
        BY <1>1, <1>2, <3>1, <3>2, OpenIs, OpenIsNext
    <2>2. Open' = {o \in Open : o.who # w \/ o.call # call[w]}
      BY <2>1
    <2> QED
      BY <2>2
  <1> QED
    BY <1>3, <1>4

\* The caller returns, with r, or dies.
LEMMA LeaveImplements ==
    ASSUME IInv, NEW w \in Workers, NEW r, pc[w] # "idle",
           pc' = [pc EXCEPT ![w] = "idle"], ret' = [ret EXCEPT ![w] = r],
           UNCHANGED <<log, last, net, call, arg>>,
           Fenced!TrueOf(w, r)
    PROVE  Fenced!Leave(w)
  <1>1. ret[w].err = "none" /\ ret'[w] = r
    BY DEF IInv, AnswersTrue, TypeOK
  <1>2. Open' \in {Open, {o \in Open : o.who # w \/ o.call # call[w]}}
    BY LeavingCloses
  <1> QED
    BY <1>1, <1>2 DEF Fenced!Leave

\* Every way out of a call tells the caller nothing that is not so; another attempt
\* is not visible.
LEMMA CallStepImplements ==
    ASSUME IInv, NEW w \in Workers, CallStep(w) \/ Crash(w)
    PROVE  Fenced!Leave(w) \/ UNCHANGED <<log, call, arg, ret, Open>>
  <1>1. TypeOK /\ LastIsLast /\ arg[w].inv \in Invs /\ arg[w].expectedLast \in Nat
    BY DEF IInv, TypeOK
  <1>2. \A err \in {"substrate", "timeout", "none"} :
           Fenced!TrueOf(w, [err |-> err, seq |-> 0])
    BY DEF Fenced!TrueOf
  <1>3. CASE Publish(w)
    BY <1>3, PublishImplements
  <1>4. CASE PublishAcked(w)
    <2>1. OwnEntry(w, reply[w].seq)
      BY <1>4 DEF PublishAcked, IInv, AnswersTrue
    <2>2. log[reply[w].seq] \in Entry /\ reply[w].seq \in 1 .. Len(log) /\ Len(log) \in Nat
      BY <1>1, <2>1 DEF OwnEntry, TypeOK
    <2>3. log[reply[w].seq]
            = [inv |-> arg[w].inv, type |-> "Output", who |-> w, call |-> call[w]]
      BY <2>1, <2>2 DEF OwnEntry, WrittenBy, Entry
    <2>4. reply[w].seq \in arg[w].expectedLast + 1 .. Len(log)
      BY <1>1, <2>1, <2>2 DEF OwnEntry
    <2>5. Fenced!TrueOf(w, [err |-> "ok", seq |-> reply[w].seq])
      BY <2>1, <2>3, <2>4 DEF Fenced!TrueOf, OwnEntry
    <2> QED
      BY <1>4, <2>5, LeaveImplements DEF PublishAcked, Return, stream
  <1>5. CASE \E e \in PubErrs(w) : PublishConflict(w, e)
    <2>1. reply[w].tag = "nack"
      BY <1>5, LocalErrsAssumption DEF PubErrs, PublishConflict
    <2>2. last[arg[w].inv] # arg[w].expectedLast
      BY <2>1 DEF IInv, AnswersTrue
    <2>3. Fenced!TrueOf(w, [err |-> "conflict", seq |-> 0])
      BY <1>1, <2>2, EndsAtIs DEF Fenced!TrueOf
    <2> QED
      BY <1>5, <2>3, LeaveImplements DEF PublishConflict, Return, stream
  <1>6. CASE \E e \in PubErrs(w) : PublishFailed(w, e)
    BY <1>2, <1>6, LeaveImplements DEF PublishFailed, Return, stream
  <1>7. CASE \E e \in PubErrs(w) : PublishRetry(w, e)
    <2>1. /\ pc[w] = "await" /\ pc' = [pc EXCEPT ![w] = "loop"]
          /\ UNCHANGED <<log, last, net, call, arg, ret>>
      BY <1>7 DEF PublishRetry, stream
    <2>2. \A v \in Workers : pc'[v] # "idle" <=> pc[v] # "idle"
      BY <1>1, <2>1 DEF TypeOK
    <2>3. \A v : Pursued(v)' = Pursued(v)
      BY <2>1 DEF Pursued
    <2>4. ASSUME NEW o PROVE o \in Open' <=> o \in Open
      BY <2>1, <2>2, <2>3, OpenIs, OpenIsNext
    <2>5. Open' = Open
      BY <2>4
    <2> QED
      BY <2>1, <2>5
  <1>8. CASE SubmitExhausted(w)
    BY <1>2, <1>8, LeaveImplements DEF SubmitExhausted, Return, stream
  <1>9. CASE Crash(w)
    BY <1>2, <1>9, LeaveImplements DEF Crash, stream, NoReturn
  <1> QED
    BY <1>3, <1>4, <1>5, <1>6, <1>7, <1>8, <1>9 DEF CallStep

\* Before the first call nothing is open.
LEMMA InitImplements == Init => Fenced!Init
  <1> SUFFICES ASSUME Init PROVE Fenced!Init
    OBVIOUS
  <1>1. \A o : o \notin Open
    BY OpenIs DEF Init
  <1>2. Open = {}
    BY <1>1
  <1> QED
    BY <1>2 DEF Init, Fenced!Init, NoReturn

\* Every step of SubmitResult, the network and the stream is a step of the one
\* conditional append, or is not visible.
LEMMA NextImplements ==
    IInv /\ [Next]_vars => [Fenced!Next]_<<log, call, arg, ret, Open>>
  <1> SUFFICES ASSUME IInv, [Next]_vars
               PROVE  Fenced!Next \/ UNCHANGED <<log, call, arg, ret, Open>>
    OBVIOUS
  <1>1. CASE EngineStep
    BY <1>1, EngineAppendImplements DEF EngineStep, Fenced!Next
  <1>2. CASE StreamStep
    BY <1>2, StreamApplyImplements, StreamRejectImplements DEF StreamStep, Fenced!Next
  <1>3. CASE \E w \in Workers, i \in Invs, f \in 0 .. Len(log) : SubmitResult(w, i, f)
    BY <1>3, SubmitResultImplements DEF Fenced!Next
  <1>4. CASE \E w \in Workers : CallStep(w) \/ Crash(w)
    BY <1>4, CallStepImplements DEF Fenced!Next
  <1>5. CASE UNCHANGED vars
    BY <1>5 DEF vars, Open
  <1> QED
    BY <1>1, <1>2, <1>3, <1>4, <1>5 DEF Next

\* Three attempts with lost, late and repeated answers are one conditional append
\* (fat.go:296), for all workers and invocations and every retry budget.
THEOREM ImplementsFenced == Spec => ImplementsFencedLog
  <1>1. Init => Fenced!Init
    BY InitImplements
  <1>2. IInv /\ [Next]_vars => [Fenced!Next]_<<log, call, arg, ret, Open>>
    BY NextImplements
  <1> QED
    BY <1>1, <1>2, Invariance, PTL DEF Spec, ImplementsFencedLog, Fenced!Spec
==============================================================================
