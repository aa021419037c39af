---------------------------- MODULE HistoryProofs ----------------------------
(* Theorems about History, for every length of the transcript, any number of *)
(* turns kept or sent, any number of calls, lives and compactions.           *)
EXTENDS History, TLAPS, FiniteSetTheorems, WellFoundedInduction, NaturalsInduction,
        SequenceTheorems

------------------------------------------------------------------------------
(* Types                                                                     *)

RecordSet ==
    [type : {"other", "user", "assistant", "call", "end"}]
        \cup [type : {"result"}, call : Nat]
        \cup [type : {"compaction"}, from : Nat, to : Nat, trigger : {"auto", "manual"},
              off : BOOLEAN]
ViewSet == [messages : Seq(MessageSet), turnMap : Seq(Nat), nextTurn : Nat,
            compacted : BOOLEAN, taskRecorded : BOOLEAN]
GoodView(v) == v \in ViewSet /\ Len(v.turnMap) = Len(v.messages)

(* Everything has its type; a batch under way has a call without a result.   *)
TypeInv ==
    /\ phase \in Phase
    /\ todo \in Seq(Nat) /\ (phase \in {"tools", "canceling"} => todo # <<>>)
    /\ log \in Seq(RecordSet) /\ log # <<>>
    /\ GoodView(view)
    /\ cache # Absent => cache.len \in 1..Len(log) /\ GoodView(cache.view)
    /\ pending \in {"none", "auto", "manual"} /\ autoArmed \in BOOLEAN
    /\ lives \in 1..MaxLives /\ offRecord \in BOOLEAN

------------------------------------------------------------------------------
(* Numbers                                                                   *)

(* What holds of zero, and after each number it holds of, holds of all.      *)
LEMMA Climb ==
    ASSUME NEW T, 0 \in T, \A n \in Nat : n \in T => n + 1 \in T
    PROVE  Nat \subseteq T
  <1> DEFINE D == Nat \ T
             R == {ss \in Nat \X Nat : ss[1] < ss[2]}
  <1> SUFFICES ASSUME D # {} PROVE FALSE
    OBVIOUS
  <1>1. IsWellFoundedOn(R, Nat)
    BY NatLessThanWellFounded DEF OpToRel
  <1> HIDE DEF R
  <1>2. PICK d \in D : \A y \in D : <<y, d>> \notin R
    BY <1>1, WFMin
  <1>3. d \in Nat /\ d # 0
    OBVIOUS
  <1>4. d - 1 \in Nat /\ d - 1 < d /\ (d - 1) + 1 = d
    BY <1>3
  <1>5. d - 1 \in T
    BY <1>2, <1>3, <1>4 DEF R
  <1>6. d \in T
    BY <1>4, <1>5
  <1> QED BY <1>2, <1>6

(* Of numbers that are bounded one is the greatest.                          *)
LEMMA Greatest ==
    ASSUME NEW n \in Nat, NEW S \in SUBSET (1..n), S # {}
    PROVE  \E m \in S : \A y \in S : y <= m
  <1> DEFINE U == {k \in Nat : k <= n => \A y \in S : y <= n - k}
  <1> SUFFICES ASSUME ~ \E m \in S : \A y \in S : y <= m PROVE FALSE
    OBVIOUS
  <1>1. 0 \in U
    OBVIOUS
  <1>2. \A k \in Nat : k \in U => k + 1 \in U
    <2> SUFFICES ASSUME NEW k \in Nat, k + 1 <= n, k \in U PROVE \A y \in S : y <= n - (k + 1)
      OBVIOUS
    <2>1. \A y \in S : y \in Nat /\ y <= n - k
      OBVIOUS
    <2>2. n - k \notin S
      BY <2>1
    <2> QED BY <2>1, <2>2
  <1> HIDE DEF U
  <1>3. n \in U
    BY <1>1, <1>2, Climb
  <1>4. \A y \in S : y <= n - n
    BY <1>3 DEF U
  <1>5. PICK y \in S : TRUE
    OBVIOUS
  <1>6. y <= 0 /\ y >= 1
    BY <1>4, <1>5
  <1> QED BY <1>6

Above(S, i) == {j \in S : j >= i}

(* Of more than k numbers one has k - 1 of the others above it.              *)
LEMMA FromTheEnd ==
    ASSUME NEW n \in Nat, NEW S \in SUBSET (1..n), NEW k \in Nat, 0 < k, k <= Cardinality(S)
    PROVE  \E i \in S : Cardinality(Above(S, i)) = k
  <1> DEFINE T == {m \in Nat : m <= Cardinality(S) =>
                      \E i \in 1..(n + 1) : Cardinality(Above(S, i)) = m /\ (m > 0 => i \in S)}
  <1>1. IsFiniteSet(S) /\ Cardinality(S) \in Nat
    <2>1. IsFiniteSet(1..n)
      BY FS_Interval
    <2> QED BY <2>1, FS_Subset, FS_CardinalityType
  <1>2. 0 \in T
    <2>1. Above(S, n + 1) = {}
      <3>1. \A j \in S : j \in Nat /\ ~(j >= n + 1)
        OBVIOUS
      <3> QED BY <3>1 DEF Above
    <2>2. Cardinality(Above(S, n + 1)) = 0 /\ n + 1 \in 1..(n + 1)
      BY <2>1, FS_EmptySet
    <2> QED BY <2>2
  <1>3. \A m \in Nat : m \in T => m + 1 \in T
    <2> SUFFICES ASSUME NEW m \in Nat, m \in T, m + 1 <= Cardinality(S)
                 PROVE  \E i \in 1..(n + 1) : Cardinality(Above(S, i)) = m + 1 /\ i \in S
      OBVIOUS
    <2>1. PICK i \in 1..(n + 1) : Cardinality(Above(S, i)) = m
      BY <1>1
    <2> DEFINE Rest == S \ Above(S, i)
    <2>2. Above(S, i) # S
      BY <1>1, <2>1
    <2>3. Rest # {} /\ Rest \in SUBSET (1..n)
      BY <2>2 DEF Above
    <2>4. PICK x \in Rest : \A y \in Rest : y <= x
      BY <2>3, Greatest
    <2>5. Above(S, x) = Above(S, i) \cup {x} /\ x \notin Above(S, i) /\ x \in S
      <3>1. \A j \in S : j \in Int /\ (j >= i \/ j <= x)
        BY <2>4 DEF Above
      <3>2. x \in S /\ ~(x >= i) /\ x \in Int
        BY <2>4 DEF Above
      <3>3. \A j \in S : j >= x <=> (j >= i \/ j = x)
        BY <3>1, <3>2
      <3> QED BY <3>2, <3>3 DEF Above
    <2>6. IsFiniteSet(Above(S, i))
      BY <1>1, FS_Subset DEF Above
    <2>7. Cardinality(Above(S, x)) = m + 1
      <3>1. Cardinality(Above(S, i) \cup {x}) = Cardinality(Above(S, i)) + 1
        BY <2>5, <2>6, FS_AddElement
      <3> QED BY <2>1, <2>5, <3>1
    <2> QED BY <2>5, <2>7
  <1> HIDE DEF T
  <1>4. k \in T
    BY <1>2, <1>3, Climb
  <1> QED BY <1>4 DEF T

------------------------------------------------------------------------------
(* The place of a cut                                                        *)

(* A cut is inside the conversation, and what comes after it is a turn.      *)
LEMMA CutIsTurn ==
    ASSUME NEW messages \in Seq(MessageSet), NEW from \in Nat, from <= Len(messages),
           NEW kept \in Nat
    PROVE  /\ CutBefore(messages, from, kept) \in from..Len(messages)
           /\ CutBefore(messages, from, kept) > from =>
                  \/ CutBefore(messages, from, kept) = Len(messages)
                  \/ messages[CutBefore(messages, from, kept) + 1].role = "user"
  <1> DEFINE starts == TurnStarts(messages, from)
             cut == CutBefore(messages, from, kept)
  <1>1. /\ starts \in SUBSET (1..Len(messages)) /\ Len(messages) \in Nat
        /\ \A i \in starts : /\ i \in (from + 1)..Len(messages)
                             /\ i = from + 1 \/ messages[i].role = "user"
    BY DEF TurnStarts
  <1>2. IsFiniteSet(starts) /\ Cardinality(starts) \in Nat
    <2>1. IsFiniteSet(1..Len(messages))
      BY <1>1, FS_Interval
    <2> QED BY <1>1, <2>1, FS_Subset, FS_CardinalityType
  <1> HIDE DEF starts
  <1>3. cut = IF Cardinality(starts) <= kept THEN from
              ELSE IF kept = 0 THEN Len(messages)
              ELSE (CHOOSE i \in starts : Cardinality(Above(starts, i)) = kept) - 1
    BY DEF CutBefore, starts, Above
  <1> HIDE DEF cut
  <1>4. CASE Cardinality(starts) <= kept \/ kept = 0
    BY <1>1, <1>3, <1>4 DEF cut
  <1>5. CASE ~(Cardinality(starts) <= kept) /\ kept # 0
    <2>1. \E i \in starts : Cardinality(Above(starts, i)) = kept
      <3>1. 0 < kept /\ kept <= Cardinality(starts)
        BY <1>2, <1>5
      <3> QED BY <1>1, <3>1, FromTheEnd
    <2>2. PICK i \in starts : cut = i - 1
      BY <1>3, <1>5, <2>1
    <2> QED BY <1>1, <2>2 DEF cut
  <1> QED BY <1>4, <1>5

------------------------------------------------------------------------------
(* Sequences                                                                 *)

(* What is in a sequence to which an element was added.                      *)
LEMMA Added ==
    ASSUME NEW S, NEW s \in Seq(S), NEW e \in S, NEW t, t = Append(s, e)
    PROVE  /\ t \in Seq(S) /\ t # <<>> /\ Len(s) \in Nat /\ Len(t) = Len(s) + 1
           /\ t[Len(t)] = e
           /\ \A i \in 1..Len(s) : i \in 1..Len(t) /\ t[i] = s[i]
           /\ \A i \in 1..Len(t) : i = Len(t) \/ (i \in 1..Len(s) /\ t[i] = s[i])
  OBVIOUS

(* What is in a sequence in which one element stands for some.               *)
IsSplice(S, s, from, to, x, t) ==
    /\ t \in Seq(S) /\ Len(s) \in Nat /\ Len(t) = from + 1 + (Len(s) - to)
    /\ t[from + 1] = x
    /\ \A i \in 1..from : t[i] = s[i]
    /\ \A i \in (from + 2)..Len(t) : t[i] = s[i - (from + 1) + to]

(* Splice makes one.                                                         *)
LEMMA Spliced ==
    ASSUME NEW S, NEW s \in Seq(S), NEW x \in S, NEW from \in Nat, NEW to \in Nat,
           from <= to, to <= Len(s)
    PROVE  IsSplice(S, s, from, to, x, Splice(s, from, to, x))
  <1> DEFINE t == Splice(s, from, to, x)
  <1>1. Len(s) \in Nat
    OBVIOUS
  <1> DEFINE before == SubSeq(s, 1, from)
             after == SubSeq(s, to + 1, Len(s))
  <1>2. before \in Seq(S) /\ Len(before) = from /\ \A i \in 1..from : before[i] = s[i]
    BY <1>1
  <1>3. after \in Seq(S) /\ Len(after) = Len(s) - to
        /\ \A i \in 1..(Len(s) - to) : after[i] = s[to + i]
    BY <1>1
  <1>4. t = before \o <<x>> \o after
    BY DEF Splice
  <1> HIDE DEF before, after, t
  <1>5. /\ t \in Seq(S) /\ Len(t) = from + 1 + (Len(s) - to)
        /\ t[from + 1] = x
    <2> DEFINE start == Append(before, x)
    <2>1. /\ start \in Seq(S) /\ Len(start) = from + 1 /\ start[from + 1] = x
          /\ start = before \o <<x>>
      BY <1>2
    <2> HIDE DEF start
    <2>2. t = start \o after
      BY <1>4, <2>1
    <2>3. t \in Seq(S) /\ Len(t) = Len(start) + Len(after) /\ t[from + 1] = start[from + 1]
      <3>1. t \in Seq(S) /\ Len(t) = Len(start) + Len(after)
        <4>1. start \in Seq(S) /\ after \in Seq(S)
          BY <1>3, <2>1
        <4> QED BY <2>2, <4>1
      <3>2. \A i \in 1..Len(start) : t[i] = start[i]
        BY <1>3, <2>1, <2>2
      <3>3. from + 1 \in 1..Len(start)
        BY <2>1
      <3> QED BY <3>1, <3>2, <3>3
    <2> QED BY <1>3, <2>1, <2>3
  <1>6. \A i \in 1..from : t[i] = s[i]
    BY <1>1, <1>2, <1>3, <1>4
  <1>7. \A i \in (from + 2)..Len(t) : t[i] = after[i - (from + 1)]
    BY <1>1, <1>2, <1>3, <1>4, <1>5
  <1>8. ASSUME NEW i \in (from + 2)..Len(t) PROVE t[i] = s[i - (from + 1) + to]
    <2>1. PICK k \in 1..(Len(s) - to) : k = i - (from + 1)
      BY <1>1, <1>5
    <2>2. t[i] = s[to + k]
      BY <1>3, <1>7, <2>1
    <2>3. to + k = i - (from + 1) + to
      BY <2>1
    <2> QED BY <2>2, <2>3
  <1> QED BY <1>1, <1>5, <1>6, <1>8 DEF IsSplice, t

------------------------------------------------------------------------------
(* Replaying                                                                 *)

(* What a replay has after each record.                                      *)
Steps(records, n, s) ==
    s = [i \in 0..n |-> IF i = 0 THEN <<>> ELSE ReplayRecord(records, s[i - 1], i)]

(* A replay can be made.                                                     *)
LEMMA StepsExist ==
    ASSUME NEW records, NEW n \in Nat
    PROVE  \E s : Steps(records, n, s)
  <1> DEFINE T == {k \in Nat : \E s : Steps(records, k, s)}
  <1>1. 0 \in T
    <2>1. Steps(records, 0, [i \in 0..0 |-> <<>>])
      BY DEF Steps
    <2> QED BY <2>1
  <1>2. \A k \in Nat : k \in T => k + 1 \in T
    <2> SUFFICES ASSUME NEW k \in Nat, k \in T PROVE \E s : Steps(records, k + 1, s)
      OBVIOUS
    <2>1. PICK s : Steps(records, k, s)
      OBVIOUS
    <2> DEFINE t == [i \in 0..(k + 1) |->
                        IF i = k + 1 THEN ReplayRecord(records, s[k], k + 1) ELSE s[i]]
    <2>2. \A i \in 0..k : s[i] = IF i = 0 THEN <<>> ELSE ReplayRecord(records, s[i - 1], i)
      BY <2>1 DEF Steps
    <2>3. \A i \in 0..(k + 1) :
             t[i] = IF i = 0 THEN <<>> ELSE ReplayRecord(records, t[i - 1], i)
      BY <2>2
    <2>4. Steps(records, k + 1, t)
      BY <2>3 DEF Steps
    <2> QED BY <2>4
  <1> HIDE DEF T
  <1>3. n \in T
    BY <1>1, <1>2, Climb
  <1> QED BY <1>3 DEF T

(* A replay, record by record.                                               *)
LEMMA ReplayIs ==
    ASSUME NEW records, Len(records) \in Nat
    PROVE  \E s : /\ s[0] = <<>>
                  /\ \A k \in 1..Len(records) : s[k] = ReplayRecord(records, s[k - 1], k)
                  /\ Replay(records) = s[Len(records)]
  <1> DEFINE n == Len(records)
             s == CHOOSE t : Steps(records, n, t)
  <1>1. Replay(records) = s[n]
    BY DEF Replay, Steps
  <1>2. Steps(records, n, s)
    BY StepsExist
  <1> HIDE DEF s
  <1>3. s[0] = <<>> /\ \A k \in 1..n : s[k] = ReplayRecord(records, s[k - 1], k)
    BY <1>2 DEF Steps
  <1> QED BY <1>1, <1>3

(* A record's part depends on the records up to it alone.                    *)
LEMMA RecordPart ==
    ASSUME NEW records, NEW more, NEW messages, NEW i \in Nat, i > 0,
           more[i] = records[i], i > 1 => more[i - 1] = records[i - 1]
    PROVE  ReplayRecord(more, messages, i) = ReplayRecord(records, messages, i)
  BY DEF ReplayRecord

(* s is what a replay has after each of the records that are more.           *)
GoesOn(records, more, s) ==
    /\ s[Len(records)] = Replay(records)
    /\ \A k \in (Len(records) + 1)..Len(more) : s[k] = ReplayRecord(more, s[k - 1], k)
    /\ Replay(more) = s[Len(more)]

(* A replay of more records goes on from that of the first.                  *)
LEMMA ReplayGoesOn ==
    ASSUME NEW records, NEW more, Len(records) \in Nat, Len(more) \in Nat,
           Len(records) <= Len(more), \A i \in 1..Len(records) : more[i] = records[i]
    PROVE  \E s : GoesOn(records, more, s)
  <1>0. PICK n \in Nat : n = Len(records)
    OBVIOUS
  <1>1. PICK t : /\ t[0] = <<>>
                 /\ \A k \in 1..n : t[k] = ReplayRecord(records, t[k - 1], k)
                 /\ Replay(records) = t[n]
    BY <1>0, ReplayIs
  <1>2. PICK s : /\ s[0] = <<>>
                 /\ \A k \in 1..Len(more) : s[k] = ReplayRecord(more, s[k - 1], k)
                 /\ Replay(more) = s[Len(more)]
    BY ReplayIs
  <1> DEFINE T == {k \in Nat : k <= n => s[k] = t[k]}
  <1>3. 0 \in T
    BY <1>1, <1>2
  <1>4. \A k \in Nat : k \in T => k + 1 \in T
    <2> SUFFICES ASSUME NEW k \in Nat, k \in T, k + 1 <= n PROVE s[k + 1] = t[k + 1]
      BY <1>0
    <2>1. s[k] = t[k]
      OBVIOUS
    <2>2. s[k + 1] = ReplayRecord(more, s[k], k + 1)
      BY <1>0, <1>2
    <2>3. t[k + 1] = ReplayRecord(records, t[k], k + 1)
      BY <1>1
    <2>4. more[k + 1] = records[k + 1] /\ (k + 1 > 1 => more[(k + 1) - 1] = records[(k + 1) - 1])
      BY <1>0
    <2>5. ReplayRecord(more, s[k], k + 1) = ReplayRecord(records, s[k], k + 1)
      BY <2>4, RecordPart
    <2> QED BY <2>1, <2>2, <2>3, <2>5
  <1> HIDE DEF T
  <1>5. n \in T
    BY <1>3, <1>4, Climb
  <1>6. s[n] = t[n]
    BY <1>5 DEF T
  <1>7. s[n] = Replay(records)
    BY <1>1, <1>6
  <1>8. \A k \in (n + 1)..Len(more) : s[k] = ReplayRecord(more, s[k - 1], k)
    BY <1>0, <1>2
  <1>9. GoesOn(records, more, s)
    BY <1>0, <1>2, <1>7, <1>8 DEF GoesOn
  <1> QED BY <1>9

(* A replay of one record more.                                              *)
LEMMA ReplayOneMore ==
    ASSUME NEW records \in Seq(RecordSet), NEW r \in RecordSet, NEW more,
           more = Append(records, r)
    PROVE  /\ Replay(more) = ReplayRecord(more, Replay(records), Len(records) + 1)
           /\ Len(records) \in Nat /\ more[Len(records) + 1] = r
  <1>1. /\ Len(records) \in Nat /\ Len(more) = Len(records) + 1
        /\ \A i \in 1..Len(records) : more[i] = records[i]
        /\ more[Len(records) + 1] = r
    BY Added
  <1>2. PICK s : GoesOn(records, more, s)
    <2>1. /\ Len(records) \in Nat /\ Len(more) \in Nat /\ Len(records) <= Len(more)
          /\ \A i \in 1..Len(records) : more[i] = records[i]
      BY <1>1
    <2> QED BY <2>1, ReplayGoesOn
  <1>3. s[Len(records) + 1] = ReplayRecord(more, s[(Len(records) + 1) - 1], Len(records) + 1)
    BY <1>1, <1>2 DEF GoesOn
  <1>4. (Len(records) + 1) - 1 = Len(records)
    BY <1>1
  <1> QED BY <1>1, <1>2, <1>3, <1>4 DEF GoesOn

(* Records of other kinds add nothing.                                       *)
LEMMA ReplayQuiet ==
    ASSUME NEW records \in Seq(RecordSet), NEW type \in {"other", "end"}, NEW more,
           more = Append(records, Record(type))
    PROVE  Replay(more) = Replay(records)
  <1>1. Record(type) \in RecordSet /\ Record(type).type = type
    BY DEF RecordSet, Record
  <1>2. /\ Replay(more) = ReplayRecord(more, Replay(records), Len(records) + 1)
        /\ more[Len(records) + 1].type = type
    BY <1>1, ReplayOneMore
  <1> QED BY <1>2 DEF ReplayRecord

(* A user's message.                                                         *)
LEMMA ReplayUser ==
    ASSUME NEW records \in Seq(RecordSet), NEW more, more = Append(records, Record("user"))
    PROVE  Replay(more) = Append(Replay(records), UserMessage(Len(records) + 1))
  <1>1. Record("user") \in RecordSet /\ Record("user").type = "user"
    BY DEF RecordSet, Record
  <1>2. /\ Replay(more) = ReplayRecord(more, Replay(records), Len(records) + 1)
        /\ more[Len(records) + 1].type = "user"
    BY <1>1, ReplayOneMore
  <1> QED BY <1>2 DEF ReplayRecord

(* A call's result.                                                          *)
LEMMA ReplayResult ==
    ASSUME NEW records \in Seq(RecordSet), NEW call \in Nat, NEW more,
           more = Append(records, Result(call))
    PROVE  Replay(more) = Append(Replay(records), ToolMessage(Len(records) + 1, call))
  <1>1. /\ Result(call) \in RecordSet /\ Result(call).type = "result"
        /\ Result(call).call = call
    BY DEF RecordSet, Result
  <1>2. /\ Replay(more) = ReplayRecord(more, Replay(records), Len(records) + 1)
        /\ more[Len(records) + 1] = Result(call)
    BY <1>1, ReplayOneMore
  <1> QED BY <1>1, <1>2 DEF ReplayRecord

(* A compaction whose range fits.                                            *)
LEMMA ReplayCompaction ==
    ASSUME NEW records \in Seq(RecordSet), NEW r \in RecordSet, r.type = "compaction",
           r.from \in Nat, r.to \in Nat, r.from <= r.to,
           Len(Replay(records)) \in Nat, r.to <= Len(Replay(records)),
           NEW more, more = Append(records, r)
    PROVE  Replay(more) = Splice(Replay(records), r.from, r.to, UserMessage(Len(records) + 1))
  <1>1. /\ Replay(more) = ReplayRecord(more, Replay(records), Len(records) + 1)
        /\ more[Len(records) + 1] = r
    BY ReplayOneMore
  <1>2. /\ AtMost(r.from, Len(Replay(records))) = r.from
        /\ AtMost(r.to, Len(Replay(records))) = r.to
    BY DEF AtMost
  <1> QED BY <1>1, <1>2 DEF ReplayRecord

(* The last element is replaced.                                             *)
LEMMA LastReplaced ==
    ASSUME NEW S, NEW s \in Seq(S), NEW t \in Seq(S), NEW e \in S, Len(t) = Len(s) + 1,
           \A i \in 1..Len(s) : t[i] = s[i]
    PROVE  [t EXCEPT ![Len(t)] = e] = Append(s, e)
  <1>1. PICK n \in 1..Len(t) : n = Len(t)
    OBVIOUS
  <1>2. /\ [t EXCEPT ![n] = e] \in Seq(S) /\ Len([t EXCEPT ![n] = e]) = Len(t)
        /\ \A i \in 1..Len(t) : [t EXCEPT ![n] = e][i] = IF i = n THEN e ELSE t[i]
    BY ExceptSeq
  <1>3. PICK f : f = [t EXCEPT ![n] = e]
    OBVIOUS
  <1>4. /\ f \in Seq(S) /\ Len(f) = Len(t)
        /\ \A i \in 1..Len(t) : f[i] = IF i = n THEN e ELSE t[i]
    BY <1>2, <1>3
  <1>5. PICK u : u = Append(s, e)
    OBVIOUS
  <1>6. /\ u \in Seq(S) /\ Len(u) = Len(s) + 1 /\ u[Len(u)] = e
        /\ \A i \in 1..Len(s) : u[i] = s[i]
    BY <1>5, Added
  <1>7. Len(f) = Len(u) /\ \A i \in 1..Len(f) : f[i] = u[i]
    BY <1>1, <1>4, <1>6
  <1>8. f = u
    BY <1>4, <1>6, <1>7, SeqEqual
  <1> QED BY <1>1, <1>3, <1>5, <1>8

(* A message with other calls.                                               *)
LEMMA OtherCalls ==
    ASSUME NEW role, NEW rec, NEW calls, NEW others, NEW m,
           m = [role |-> role, rec |-> rec, calls |-> calls]
    PROVE  [m EXCEPT !.calls = others] = [role |-> role, rec |-> rec, calls |-> others]
  OBVIOUS

WithAsked(s, rec, calls) == Append(s, AssistantMessage(rec, calls))
WithCall(s, c) == [s EXCEPT ![Len(s)].calls = @ \cup {c}]

(* The last message takes one more call.                                     *)
LEMMA Folded ==
    ASSUME NEW s \in Seq(MessageSet), NEW rec \in Nat, NEW calls \in SUBSET Nat, NEW c \in Nat
    PROVE  WithCall(WithAsked(s, rec, calls), c) = WithAsked(s, rec, calls \cup {c})
  <1>1. PICK more \in SUBSET Nat : more = calls \cup {c}
    OBVIOUS
  <1>2. PICK m : m = AssistantMessage(rec, calls)
    OBVIOUS
  <1>3. PICK e : e = AssistantMessage(rec, more)
    OBVIOUS
  <1>4. m \in MessageSet /\ m.calls = calls /\ e \in MessageSet
    BY <1>2, <1>3 DEF AssistantMessage, MessageSet
  <1>5. [m EXCEPT !.calls = more] = e
    BY <1>2, <1>3, OtherCalls DEF AssistantMessage
  <1>6. PICK t : t = Append(s, m)
    OBVIOUS
  <1>7. /\ t \in Seq(MessageSet) /\ Len(t) = Len(s) + 1 /\ t[Len(t)] = m
        /\ \A i \in 1..Len(s) : t[i] = s[i]
    BY <1>4, <1>6, Added
  <1>8. [t EXCEPT ![Len(t)] = e] = Append(s, e)
    BY <1>4, <1>7, LastReplaced
  <1>9. [t[Len(t)] EXCEPT !.calls = @ \cup {c}] = e
    BY <1>1, <1>4, <1>5, <1>7
  <1>10. WithCall(t, c) = [t EXCEPT ![Len(t)] = e]
    BY <1>9 DEF WithCall
  <1> QED BY <1>1, <1>2, <1>3, <1>6, <1>8, <1>10 DEF WithAsked

Answered(answered) == IF answered THEN 1 ELSE 0

(* What is in a transcript to which an answer was added.                     *)
WithAnswer(records, answered, calls, more) ==
    /\ more \in Seq(RecordSet) /\ Len(records) \in Nat
    /\ Len(more) = Len(records) + Answered(answered) + calls
    /\ \A i \in 1..Len(records) : more[i] = records[i]
    /\ answered => more[Len(records) + 1] = Record("assistant")
    /\ \A k \in (Len(records) + Answered(answered) + 1)..Len(more) : more[k] = Record("call")

(* The records of an answer.                                                 *)
LEMMA AnswerIs ==
    ASSUME NEW records \in Seq(RecordSet), NEW answered \in BOOLEAN, NEW calls \in Nat,
           NEW more, more = records \o AnswerRecords(answered, calls)
    PROVE  WithAnswer(records, answered, calls, more)
  <1> DEFINE first == IF answered THEN <<Record("assistant")>> ELSE <<>>
             rest == [i \in 1..calls |-> Record("call")]
             own == first \o rest
  <1>1. Record("assistant") \in RecordSet /\ Record("call") \in RecordSet
    BY DEF Record, RecordSet
  <1>2. /\ first \in Seq(RecordSet) /\ Len(first) = Answered(answered)
        /\ answered => first[1] = Record("assistant")
    BY <1>1 DEF Answered
  <1>3. /\ rest \in Seq(RecordSet) /\ Len(rest) = calls
        /\ \A i \in 1..calls : rest[i] = Record("call")
    BY <1>1
  <1> HIDE DEF first, rest
  <1>4. /\ own \in Seq(RecordSet) /\ Len(own) = Answered(answered) + calls
        /\ \A i \in 1..(Answered(answered) + calls) :
              own[i] = IF i <= Answered(answered) THEN first[i] ELSE rest[i - Answered(answered)]
    <2>1. first \in Seq(RecordSet) /\ rest \in Seq(RecordSet)
      BY <1>2, <1>3
    <2>2. /\ first \o rest \in Seq(RecordSet) /\ Len(first \o rest) = Len(first) + Len(rest)
          /\ \A i \in 1..(Len(first) + Len(rest)) :
                (first \o rest)[i] = IF i <= Len(first) THEN first[i] ELSE rest[i - Len(first)]
      BY <2>1, ConcatProperties
    <2> QED BY <1>2, <1>3, <2>2
  <1>5. more = records \o own
    BY DEF AnswerRecords, first, rest
  <1> HIDE DEF own
  <1>6. /\ more \in Seq(RecordSet) /\ Len(records) \in Nat
        /\ Len(more) = Len(records) + Len(own)
        /\ \A i \in 1..(Len(records) + Len(own)) :
              more[i] = IF i <= Len(records) THEN records[i] ELSE own[i - Len(records)]
    <2>1. /\ records \o own \in Seq(RecordSet)
          /\ Len(records \o own) = Len(records) + Len(own)
          /\ \A i \in 1..(Len(records) + Len(own)) :
                (records \o own)[i] = IF i <= Len(records) THEN records[i] ELSE own[i - Len(records)]
      BY <1>4, ConcatProperties
    <2>2. Len(records) \in Nat
      OBVIOUS
    <2> QED BY <1>5, <2>1, <2>2
  <1>7. PICK L \in Nat, a \in {0, 1}, n \in Nat :
            /\ L = Len(records) /\ a = Answered(answered) /\ (answered => a = 1)
            /\ Len(own) = a + calls /\ n = L + a + calls /\ Len(more) = n
    BY <1>4, <1>6 DEF Answered
  <1>8. n = L + a + calls /\ (answered => a = 1)
    BY <1>7
  <1>9. ASSUME NEW k \in (L + a + 1)..n PROVE more[k] = Record("call")
    <2>1. /\ k - L \in 1..(a + calls) /\ ~(k - L <= a) /\ (k - L) - a \in 1..calls
          /\ k \in 1..(L + (a + calls)) /\ ~(k <= L)
      BY <1>8
    <2>2. more[k] = own[k - L]
      BY <1>6, <1>7, <2>1
    <2>3. own[k - L] = rest[(k - L) - a]
      BY <1>4, <1>7, <2>1
    <2> QED BY <1>3, <2>1, <2>2, <2>3
  <1>10. ASSUME answered PROVE more[L + 1] = Record("assistant")
    <2>1. /\ L + 1 \in 1..(L + (a + calls)) /\ ~(L + 1 <= L) /\ (L + 1) - L = 1
          /\ 1 \in 1..(a + calls) /\ 1 <= a
      BY <1>8, <1>10
    <2>2. more[L + 1] = own[1]
      BY <1>6, <1>7, <2>1
    <2>3. own[1] = first[1]
      BY <1>4, <1>7, <2>1
    <2> QED BY <1>2, <1>10, <2>2, <2>3
  <1>11. \A i \in 1..L : more[i] = records[i]
    BY <1>6, <1>7
  <1> QED BY <1>6, <1>7, <1>9, <1>10, <1>11 DEF WithAnswer

\* The calls of the answer that comes after these records.
CallsAfter(records, answered, calls) ==
    {Len(records) + Answered(answered) + i : i \in 1..calls}

(* An answer is one message, whatever its records.                           *)
LEMMA ReplayAnswer ==
    ASSUME NEW records \in Seq(RecordSet), NEW answered \in BOOLEAN, NEW calls \in Nat,
           answered \/ calls > 0, Replay(records) \in Seq(MessageSet),
           records # <<>> => records[Len(records)].type \notin {"assistant", "call"},
           NEW more, more = records \o AnswerRecords(answered, calls)
    PROVE  Replay(more) = WithAsked(Replay(records), Len(records) + 1,
                                    CallsAfter(records, answered, calls))
  <1> DEFINE b == Answered(answered)
             M == Replay(records)
             Asked(j) == {Len(records) + b + i : i \in 1..j}
             Reply(j) == WithAsked(M, Len(records) + 1, Asked(j))
  <1>0. PICK L \in Nat : L = Len(records)
    OBVIOUS
  <1>1. /\ b \in {0, 1} /\ (answered <=> b = 1) /\ Len(more) = L + b + calls
        /\ \A i \in 1..L : more[i] = records[i]
        /\ answered => more[L + 1] = Record("assistant")
        /\ \A k \in (L + b + 1)..Len(more) : more[k] = Record("call")
    <2>1. b \in {0, 1} /\ (answered <=> b = 1)
      BY DEF Answered
    <2>2. WithAnswer(records, answered, calls, more)
      BY AnswerIs
    <2> QED BY <1>0, <2>1, <2>2 DEF WithAnswer
  <1> HIDE DEF b
  <1>2. PICK s : GoesOn(records, more, s)
    <2>1. /\ Len(records) \in Nat /\ Len(more) \in Nat /\ Len(records) <= Len(more)
          /\ \A i \in 1..Len(records) : more[i] = records[i]
      BY <1>0, <1>1
    <2> QED BY <2>1, ReplayGoesOn
  <1>3. /\ s[L] = M /\ Replay(more) = s[L + b + calls]
        /\ \A k \in (L + 1)..(L + b + calls) : s[k] = ReplayRecord(more, s[k - 1], k)
    BY <1>0, <1>1, <1>2 DEF GoesOn
  <1>4. Record("assistant").type = "assistant" /\ Record("call").type = "call"
    BY DEF Record
  <1>5. \A j \in Nat : Asked(j) \in SUBSET Nat /\ Asked(j + 1) = Asked(j) \cup {L + b + j + 1}
    <2> SUFFICES ASSUME NEW j \in Nat
                 PROVE  Asked(j) \in SUBSET Nat /\ Asked(j + 1) = Asked(j) \cup {L + b + j + 1}
      OBVIOUS
    <2>1. Asked(j) \in SUBSET Nat
      BY <1>0, <1>1
    <2>2. \A i \in 1..(j + 1) : i \in 1..j \/ i = j + 1
      OBVIOUS
    <2>3. Asked(j + 1) \subseteq Asked(j) \cup {L + b + j + 1}
      <3> SUFFICES ASSUME NEW i \in 1..(j + 1)
                   PROVE  Len(records) + b + i \in Asked(j) \cup {L + b + j + 1}
        OBVIOUS
      <3>1. CASE i \in 1..j
        BY <3>1
      <3>2. CASE i = j + 1
        BY <1>0, <1>1, <3>2
      <3> QED BY <2>2, <3>1, <3>2
    <2>4. Asked(j) \subseteq Asked(j + 1)
      OBVIOUS
    <2>5. L + b + j + 1 \in Asked(j + 1)
      <3>1. j + 1 \in 1..(j + 1) /\ Len(records) + b + (j + 1) = L + b + j + 1
        BY <1>0, <1>1
      <3> QED BY <3>1
    <2> QED BY <2>1, <2>3, <2>4, <2>5
  <1>6. Asked(0) = {}
    OBVIOUS
  <1>61. \A rec, k \in Nat : \A asked \in SUBSET Nat :
            WithCall(WithAsked(M, rec, asked), k) = WithAsked(M, rec, asked \cup {k})
    <2> SUFFICES ASSUME NEW rec \in Nat, NEW k \in Nat, NEW asked \in SUBSET Nat
         PROVE  WithCall(WithAsked(M, rec, asked), k) = WithAsked(M, rec, asked \cup {k})
      OBVIOUS
    <2>1. M \in Seq(MessageSet)
      OBVIOUS
    <2> HIDE DEF M
    <2> QED BY ONLY <2>1, k \in Nat, rec \in Nat, asked \in SUBSET Nat, Folded
  <1> DEFINE T == {j \in Nat : 1 <= b + j /\ j <= calls => s[L + b + j] = Reply(j)}
  <1>7. 0 \in T
    <2> SUFFICES ASSUME answered, b = 1 PROVE s[L + 1] = Reply(0)
      BY <1>0, <1>1
    <2>1. s[L + 1] = ReplayRecord(more, M, L + 1)
      <3>1. L + 1 \in (L + 1)..(L + b + calls) /\ (L + 1) - 1 = L
        OBVIOUS
      <3> QED BY <1>3, <3>1
    <2>2. more[L + 1].type = "assistant"
      BY <1>1, <1>4
    <2>3. s[L + 1] = Append(M, AssistantMessage(L + 1, {}))
      BY <2>1, <2>2 DEF ReplayRecord
    <2> QED BY <1>0, <1>6, <2>3 DEF WithAsked
  <1>8. \A j \in Nat : j \in T => j + 1 \in T
    <2> SUFFICES ASSUME NEW j \in Nat, j \in T, j + 1 <= calls
                 PROVE  s[L + b + (j + 1)] = Reply(j + 1)
      <3> HIDE DEF Reply
      <3> QED OBVIOUS
    <2>0. PICK k \in Nat : /\ k = L + b + j + 1 /\ k > 0 /\ k = L + b + (j + 1)
                          /\ k - 1 = L + b + j /\ k \in (L + 1)..(L + b + calls)
                          /\ k \in (L + b + 1)..Len(more)
      <3>1. b \in Nat /\ Len(more) = L + b + calls
        BY <1>1
      <3>2. L + b + j + 1 \in Nat
        BY <3>1
      <3> QED BY <3>1, <3>2
    <2>1. s[k] = ReplayRecord(more, s[k - 1], k) /\ more[k].type = "call"
      BY <1>1, <1>3, <1>4, <2>0
    <2>2. CASE b + j = 0
      <3>1. b = 0 /\ j = 0 /\ k = L + 1 /\ k - 1 = L /\ ~answered
        BY <1>0, <1>1, <2>0, <2>2
      <3>2. k > 1 => more[k - 1].type \notin {"assistant", "call"}
        BY <1>0, <1>1, <3>1
      <3>3. s[k] = Append(s[k - 1], AssistantMessage(k, {k}))
        BY <2>1, <3>2 DEF ReplayRecord
      <3>4. Asked(j + 1) = {k}
        BY <1>5, <1>6, <2>0, <3>1
      <3> QED BY <1>0, <1>3, <2>0, <3>1, <3>3, <3>4 DEF WithAsked
    <2>3. CASE b + j # 0
      <3>1. s[k - 1] = Reply(j)
        BY <1>0, <1>1, <2>0, <2>3
      <3>2. k > 1 /\ more[k - 1].type \in {"assistant", "call"}
        <4>1. CASE j = 0
          BY <1>0, <1>1, <1>4, <2>0, <2>3, <4>1
        <4>2. CASE j # 0
          <5>1. k - 1 \in (L + b + 1)..Len(more) /\ k > 1
            BY <1>0, <1>1, <2>0, <4>2
          <5> QED BY <1>1, <1>4, <5>1
        <4> QED BY <4>1, <4>2
      <3>3. s[k] = WithCall(s[k - 1], k)
        BY <2>1, <3>2 DEF ReplayRecord, WithCall
      <3>4. Len(records) + 1 \in Nat /\ Asked(j) \in SUBSET Nat
        BY <1>0, <1>5
      <3> HIDE DEF Asked
      <3>5. WithCall(Reply(j), k) = WithAsked(M, Len(records) + 1, Asked(j) \cup {k})
        <4>1. WithCall(WithAsked(M, Len(records) + 1, Asked(j)), k)
                  = WithAsked(M, Len(records) + 1, Asked(j) \cup {k})
          BY ONLY <3>4, <1>61, k \in Nat
        <4> QED BY <4>1
      <3>6. Asked(j + 1) = Asked(j) \cup {k}
        BY <1>5, <2>0
      <3> QED BY <2>0, <3>1, <3>3, <3>5, <3>6
    <2> QED BY <2>2, <2>3
  <1> HIDE DEF T, Reply
  <1>9. calls \in T /\ 1 <= b + calls
    <2>1. calls \in T
      BY <1>7, <1>8, Climb
    <2> QED BY <1>1, <2>1
  <1>10. Replay(more) = Reply(calls)
    BY <1>3, <1>9 DEF T
  <1> QED BY <1>10 DEF Reply, CallsAfter, b

(* What a record does to the conversation keeps its type.                    *)
LEMMA ReplayRecordType ==
    ASSUME NEW records \in Seq(RecordSet), NEW messages \in Seq(MessageSet),
           NEW i \in 1..Len(records),
           i > 1 /\ records[i - 1].type \in {"assistant", "call"} => messages # <<>>
    PROVE  /\ ReplayRecord(records, messages, i) \in Seq(MessageSet)
           /\ records[i].type \in {"assistant", "call"}
                 => ReplayRecord(records, messages, i) # <<>>
  <1> DEFINE r == records[i]
             after == ReplayRecord(records, messages, i)
  <1>1. r \in RecordSet /\ i \in Nat
    OBVIOUS
  <1>2. \A e \in MessageSet : Append(messages, e) \in Seq(MessageSet) /\ Append(messages, e) # <<>>
    OBVIOUS
  <1>3. CASE r.type = "user"
    <2>1. after = Append(messages, UserMessage(i)) /\ UserMessage(i) \in MessageSet
      BY <1>1, <1>3 DEF ReplayRecord, UserMessage, MessageSet
    <2> QED BY <1>2, <2>1
  <1>4. CASE r.type = "assistant"
    <2>1. after = Append(messages, AssistantMessage(i, {})) /\ AssistantMessage(i, {}) \in MessageSet
      BY <1>1, <1>4 DEF ReplayRecord, AssistantMessage, MessageSet
    <2> QED BY <1>2, <2>1
  <1>5. CASE r.type = "call"
    <2>1. CASE i > 1 /\ records[i - 1].type \in {"assistant", "call"}
      <3>1. after = [messages EXCEPT ![Len(messages)].calls = @ \cup {i}]
        BY <1>5, <2>1 DEF ReplayRecord
      <3>2. PICK n \in 1..Len(messages) : n = Len(messages)
        BY <2>1
      <3>3. PICK e \in MessageSet : e = [messages[n] EXCEPT !.calls = @ \cup {i}]
        <4>1. messages[n] \in MessageSet
          OBVIOUS
        <4>2. messages[n].calls \cup {i} \in SUBSET Nat
          BY <1>1, <4>1 DEF MessageSet
        <4>3. [messages[n] EXCEPT !.calls = messages[n].calls \cup {i}] \in MessageSet
          BY <4>1, <4>2 DEF MessageSet
        <4> QED BY <4>3
      <3>4. /\ [messages EXCEPT ![n] = e] \in Seq(MessageSet)
            /\ Len([messages EXCEPT ![n] = e]) = Len(messages)
        BY ExceptSeq
      <3>5. after = [messages EXCEPT ![n] = e]
        BY <3>1, <3>2, <3>3
      <3> QED BY <3>2, <3>4, <3>5
    <2>2. CASE ~(i > 1 /\ records[i - 1].type \in {"assistant", "call"})
      <3>1. after = Append(messages, AssistantMessage(i, {i}))
        BY <1>5, <2>2 DEF ReplayRecord
      <3>2. AssistantMessage(i, {i}) \in MessageSet
        BY <1>1 DEF AssistantMessage, MessageSet
      <3> QED BY <1>2, <3>1, <3>2
    <2> QED BY <2>1, <2>2
  <1>6. CASE r.type = "result"
    <2>1. r.call \in Nat
      BY <1>1, <1>6 DEF RecordSet
    <2>2. after = Append(messages, ToolMessage(i, r.call)) /\ ToolMessage(i, r.call) \in MessageSet
      BY <1>1, <1>6, <2>1 DEF ReplayRecord, ToolMessage, MessageSet
    <2> QED BY <1>2, <1>6, <2>2
  <1>7. CASE r.type = "compaction"
    <2> DEFINE from == AtMost(r.from, Len(messages))
               to == AtMost(r.to, Len(messages))
    <2>1. r.from \in Nat /\ r.to \in Nat /\ Len(messages) \in Nat
      BY <1>1, <1>7 DEF RecordSet
    <2>2. from \in Nat /\ to \in Nat /\ to <= Len(messages)
      BY <2>1 DEF AtMost
    <2>3. after = IF from <= to THEN Splice(messages, from, to, UserMessage(i)) ELSE messages
      BY <1>7 DEF ReplayRecord
    <2>4. UserMessage(i) \in MessageSet
      BY <1>1 DEF UserMessage, MessageSet
    <2> HIDE DEF from, to
    <2>5. from <= to => Splice(messages, from, to, UserMessage(i)) \in Seq(MessageSet)
      <3>1. ASSUME from <= to
            PROVE  IsSplice(MessageSet, messages, from, to, UserMessage(i),
                            Splice(messages, from, to, UserMessage(i)))
        BY <2>2, <2>4, <3>1, Spliced
      <3> QED BY <3>1 DEF IsSplice
    <2> QED BY <1>7, <2>3, <2>5
  <1>8. CASE r.type \notin {"user", "assistant", "call", "result", "compaction"}
    BY <1>8 DEF ReplayRecord
  <1> QED BY <1>3, <1>4, <1>5, <1>6, <1>7, <1>8

(* A replay is a conversation.                                               *)
LEMMA ReplayType ==
    ASSUME NEW records \in Seq(RecordSet)
    PROVE  Replay(records) \in Seq(MessageSet)
  <1>0. PICK n \in Nat : n = Len(records)
    OBVIOUS
  <1>1. PICK s : /\ s[0] = <<>>
                 /\ \A k \in 1..n : s[k] = ReplayRecord(records, s[k - 1], k)
                 /\ Replay(records) = s[n]
    BY <1>0, ReplayIs
  <1> DEFINE T == {k \in Nat : k <= n =>
                      /\ s[k] \in Seq(MessageSet)
                      /\ k > 0 /\ records[k].type \in {"assistant", "call"} => s[k] # <<>>}
  <1>2. 0 \in T
    <2>1. s[0] \in Seq(MessageSet)
      BY <1>1, EmptySeq
    <2> QED BY <2>1
  <1>3. \A k \in Nat : k \in T => k + 1 \in T
    <2> SUFFICES ASSUME NEW k \in Nat, k \in T, k + 1 <= n
                 PROVE  /\ s[k + 1] \in Seq(MessageSet)
                        /\ records[k + 1].type \in {"assistant", "call"} => s[k + 1] # <<>>
      OBVIOUS
    <2>1. PICK i \in 1..n : i = k + 1 /\ i - 1 = k
      OBVIOUS
    <2>2. /\ s[k] \in Seq(MessageSet)
          /\ i > 1 /\ records[i - 1].type \in {"assistant", "call"} => s[k] # <<>>
      BY <2>1
    <2>3. s[i] = ReplayRecord(records, s[k], i)
      BY <1>1, <2>1
    <2>4. i \in 1..Len(records)
      BY <1>0
    <2>5. /\ ReplayRecord(records, s[k], i) \in Seq(MessageSet)
          /\ records[i].type \in {"assistant", "call"} => ReplayRecord(records, s[k], i) # <<>>
      BY <2>2, <2>4, ReplayRecordType
    <2> QED BY <2>1, <2>3, <2>5
  <1> HIDE DEF T
  <1>4. n \in T
    BY <1>2, <1>3, Climb
  <1> QED BY <1>1, <1>4 DEF T

(* A replayed view is a view.                                                *)
LEMMA ReplayedType ==
    ASSUME NEW records \in Seq(RecordSet)
    PROVE  GoodView(Replayed(records)) /\ Replayed(records).messages = Replay(records)
  <1> DEFINE m == Replay(records)
             numbers == BuildTurnMap(m)
  <1>1. m \in Seq(MessageSet) /\ Len(m) \in Nat /\ DOMAIN m = 1..Len(m)
    BY ReplayType
  <1> HIDE DEF m
  <1>2. \A i \in 1..Len(m) : Cardinality({j \in 2..i : m[j].role = "user"}) \in Nat
    <2> SUFFICES ASSUME NEW i \in 1..Len(m)
                 PROVE  Cardinality({j \in 2..i : m[j].role = "user"}) \in Nat
      OBVIOUS
    <2>1. IsFiniteSet(2..i)
      BY FS_Interval
    <2> QED BY <2>1, FS_Subset, FS_CardinalityType
  <1>3. numbers = [i \in 1..Len(m) |-> Cardinality({j \in 2..i : m[j].role = "user"})]
    BY <1>1 DEF BuildTurnMap
  <1> HIDE DEF numbers
  <1>4. numbers \in Seq(Nat) /\ Len(numbers) = Len(m)
    <2>1. numbers \in [1..Len(m) -> Nat]
      BY <1>2, <1>3
    <2> QED BY <1>1, <2>1
  <1>5. Replayed(records) =
            [messages |-> m, turnMap |-> numbers,
             nextTurn |-> IF m = <<>> THEN 0 ELSE Last(numbers) + 1,
             compacted |-> \E i \in DOMAIN records : records[i].type = "compaction",
             taskRecorded |-> TRUE]
    BY DEF Replayed, m, numbers
  <1>6. (IF m = <<>> THEN 0 ELSE Last(numbers) + 1) \in Nat
    BY <1>1, <1>4 DEF Last
  <1>7. (\E i \in DOMAIN records : records[i].type = "compaction") \in BOOLEAN
    OBVIOUS
  <1>8. Replayed(records) \in ViewSet
    BY <1>1, <1>4, <1>5, <1>6, <1>7 DEF ViewSet
  <1>9. Replayed(records).turnMap = numbers /\ Replayed(records).messages = m
    BY <1>5
  <1> QED BY <1>4, <1>8, <1>9 DEF GoodView, m

------------------------------------------------------------------------------
(* The invariant                                                             *)

\* No compaction was computed over a conversation the transcript did not hold.
Clean(records) ==
    \A i \in 1..Len(records) : records[i].type = "compaction" => ~records[i].off
\* A cache as long as the transcript holds the conversation.
CacheAgrees == cache # Absent /\ cache.len = Len(log) => cache.view = view
\* A transcript that was ended has its cache.
EndCached == cache # Absent /\ log[Len(log)].type = "end" => cache.len = Len(log)
\* An answer starts a message of its own.
StreamClean == phase = "streaming" => log[Len(log)].type \notin {"assistant", "call"}
\* A replay gives the conversation, also while the session is away.
Faithful == ~offRecord /\ Clean(log) => Replay(log) = view.messages

Inv == TypeInv /\ CacheAgrees /\ EndCached /\ StreamClean /\ Faithful

------------------------------------------------------------------------------
(* What the operations do to the transcript and to the view                  *)

(* The records that are written.                                             *)
LEMMA RecordTypesAre ==
    /\ \A type \in {"other", "user", "assistant", "call", "end"} :
          Record(type) \in RecordSet /\ Record(type).type = type
    /\ Other = Record("other")
    /\ \A call \in Nat : Result(call) \in RecordSet /\ Result(call).type = "result"
  BY DEF Record, RecordSet, Other, Result

(* The messages that are pushed.                                             *)
LEMMA MessageTypes ==
    /\ \A rec \in Nat : UserMessage(rec) \in MessageSet
    /\ \A rec \in Nat : \A calls \in SUBSET Nat : AssistantMessage(rec, calls) \in MessageSet
    /\ \A rec, call \in Nat : ToolMessage(rec, call) \in MessageSet
    /\ Synthetic \in MessageSet
  BY DEF UserMessage, AssistantMessage, ToolMessage, Synthetic, MessageSet

(* The transcript has grown.                                                 *)
Grown(old, new) ==
    /\ new \in Seq(RecordSet) /\ new # <<>> /\ Len(old) \in Nat /\ Len(new) > Len(old)
    /\ \A i \in 1..Len(old) : new[i] = old[i]

(* By one record.                                                            *)
LEMMA GrownByOne ==
    ASSUME NEW old \in Seq(RecordSet), NEW r \in RecordSet, NEW new, new = Append(old, r)
    PROVE  Grown(old, new) /\ new[Len(new)] = r
  BY Added DEF Grown

(* Twice.                                                                    *)
LEMMA GrownTwice ==
    ASSUME NEW old, NEW mid, NEW new, Grown(old, mid), Grown(mid, new)
    PROVE  Grown(old, new)
  <1>1. \A i \in 1..Len(old) : i \in 1..Len(mid)
    BY DEF Grown
  <1>2. Len(new) > Len(old) /\ Len(old) \in Nat
    BY DEF Grown
  <1> QED BY <1>1, <1>2 DEF Grown

(* What was clean before is clean in the part that was there.                *)
LEMMA CleanBefore ==
    ASSUME NEW old, NEW new, Grown(old, new), Clean(new)
    PROVE  Clean(old)
  BY DEF Grown, Clean

(* Push adds a message and a number for it.                                  *)
LEMMA PushView ==
    ASSUME NEW v, GoodView(v), NEW m \in MessageSet
    PROVE  GoodView(Push(v, m)) /\ Push(v, m).messages = Append(v.messages, m)
  <1> DEFINE w == Push(v, m)
             starts == v.messages = <<>> \/ m.role = "user"
             number == IF starts THEN v.nextTurn ELSE Last(v.turnMap)
             next == IF starts THEN v.nextTurn + 1 ELSE v.nextTurn
  <1>1. /\ v.messages \in Seq(MessageSet) /\ v.turnMap \in Seq(Nat) /\ v.nextTurn \in Nat
        /\ v \in ViewSet /\ Len(v.turnMap) = Len(v.messages)
    BY DEF GoodView, ViewSet
  <1>2. number \in Nat /\ next \in Nat
    <2>1. CASE starts
      BY <1>1, <2>1
    <2>2. CASE ~starts
      <3>1. Len(v.turnMap) \in 1..Len(v.turnMap)
        BY <1>1, <2>2
      <3> QED BY <1>1, <2>2, <3>1 DEF Last
    <2> QED BY <2>1, <2>2
  <1>3. w = [v EXCEPT !.messages = Append(v.messages, m), !.turnMap = Append(v.turnMap, number),
                      !.nextTurn = next]
    BY DEF Push
  <1> HIDE DEF number, next, w
  <1>4. w \in ViewSet /\ w.messages = Append(v.messages, m) /\ w.turnMap = Append(v.turnMap, number)
    <2>1. /\ Append(v.messages, m) \in Seq(MessageSet)
          /\ Append(v.turnMap, number) \in Seq(Nat)
      BY <1>1, <1>2
    <2> QED BY <1>1, <1>2, <1>3, <2>1 DEF ViewSet
  <1>5. Len(w.turnMap) = Len(w.messages)
    BY <1>1, <1>2, <1>4
  <1> QED BY <1>4, <1>5 DEF GoodView, w

(* The view after a compaction.                                              *)
LEMMA CompactedIs ==
    ASSUME GoodView(view), NEW from \in Nat, NEW to \in Nat, from <= to,
           to <= Len(view.messages), NEW rec \in Nat
    PROVE  /\ GoodView(CompactedView(from, to, rec))
           /\ CompactedView(from, to, rec).messages
                 = Splice(view.messages, from, to, UserMessage(rec))
  <1>1. /\ view.messages \in Seq(MessageSet) /\ view.turnMap \in Seq(Nat)
        /\ view.nextTurn \in Nat /\ view \in ViewSet
        /\ Len(view.turnMap) = Len(view.messages)
    BY DEF GoodView, ViewSet
  <1>2. PICK vm \in Seq(MessageSet), vt \in Seq(Nat) :
            vm = view.messages /\ vt = view.turnMap /\ Len(vt) = Len(vm) /\ to <= Len(vm)
    BY <1>1
  <1>3. PICK m : m = Splice(vm, from, to, UserMessage(rec))
    OBVIOUS
  <1>4. PICK n : n = Splice(vt, from, to, view.nextTurn)
    OBVIOUS
  <1>5. m \in Seq(MessageSet) /\ Len(m) = from + 1 + (Len(vm) - to)
    <2>1. UserMessage(rec) \in MessageSet /\ to <= Len(vm)
      BY <1>2, MessageTypes
    <2>2. IsSplice(MessageSet, vm, from, to, UserMessage(rec),
                   Splice(vm, from, to, UserMessage(rec)))
      BY <2>1, Spliced
    <2> QED BY <1>3, <2>2 DEF IsSplice
  <1>6. n \in Seq(Nat) /\ Len(n) = from + 1 + (Len(vt) - to)
    <2>1. view.nextTurn \in Nat /\ to <= Len(vt)
      BY <1>1, <1>2
    <2>2. IsSplice(Nat, vt, from, to, view.nextTurn, Splice(vt, from, to, view.nextTurn))
      BY <2>1, Spliced
    <2> QED BY <1>4, <2>2 DEF IsSplice
  <1>7. PICK w : w = CompactedView(from, to, rec)
    OBVIOUS
  <1>8. w = [view EXCEPT !.messages = m, !.turnMap = n, !.nextTurn = view.nextTurn + 1,
                         !.compacted = TRUE]
    BY <1>2, <1>3, <1>4, <1>7 DEF CompactedView
  <1>9. w \in ViewSet /\ w.messages = m /\ w.turnMap = n
    <2>1. view = [messages |-> view.messages, turnMap |-> view.turnMap,
                  nextTurn |-> view.nextTurn, compacted |-> view.compacted,
                  taskRecorded |-> view.taskRecorded] /\ view.taskRecorded \in BOOLEAN
      BY <1>1 DEF ViewSet
    <2>2. w = [messages |-> m, turnMap |-> n, nextTurn |-> view.nextTurn + 1,
               compacted |-> TRUE, taskRecorded |-> view.taskRecorded]
      BY <1>8, <2>1
    <2> QED BY <1>1, <1>5, <1>6, <2>1, <2>2 DEF ViewSet
  <1>10. Len(w.turnMap) = Len(w.messages)
    BY <1>2, <1>5, <1>6, <1>9
  <1>11. GoodView(w)
    BY <1>9, <1>10 DEF GoodView
  <1> QED BY <1>2, <1>3, <1>7, <1>9, <1>11

(* One element at the end, or two.                                           *)
LEMMA AppendIs ==
    ASSUME NEW S, NEW s \in Seq(S), NEW a \in S, NEW b \in S
    PROVE  /\ s \o <<>> = s
           /\ s \o <<a>> = Append(s, a)
           /\ s \o <<a, b>> = Append(Append(s, a), b)
  OBVIOUS

\* What the conversation and a replay say stays the same.
Follows == Clean(log') => /\ Clean(log)
                          /\ Replay(log) = view.messages => Replay(log') = view'.messages

\* The k-th record is that of a user's message, which goes to the conversation
\* and to its replay.
UserAt(k) ==
    /\ k \in (Len(log) + 1)..Len(log') /\ log'[k].type = "user"
    /\ \A i \in (Len(log) + 1)..Len(log') : i # k => log'[i].type = "other"
    /\ Replay(log') = Append(Replay(log), UserMessage(k))
    /\ view'.messages = Append(view.messages, UserMessage(k))
    /\ view'.compacted = view.compacted

(* A user's message is written and pushed.                                   *)
LEMMA UserPushed ==
    ASSUME TypeInv, NEW before \in {<<>>, <<Other>>}, PushUser(before)
    PROVE  /\ Grown(log, log') /\ log'[Len(log')].type \in {"user", "other"}
           /\ Len(log) + Len(before) + 1 <= Len(log')
           /\ GoodView(view') /\ Follows
           /\ \E k \in Nat : UserAt(k)
  <1>1. log \in Seq(RecordSet) /\ Len(log) \in Nat /\ log # <<>> /\ GoodView(view)
    BY DEF TypeInv
  <1>2. /\ Record("user") \in RecordSet /\ Other \in RecordSet /\ Other = Record("other")
        /\ Record("user").type = "user" /\ Other.type = "other"
    BY RecordTypesAre
  <1>3. PICK one \in Seq(RecordSet) :
            /\ one = log \o before /\ Len(one) = Len(log) + Len(before)
            /\ Replay(one) = Replay(log) /\ (one = log \/ Grown(log, one))
            /\ \A i \in (Len(log) + 1)..Len(one) : one[i].type = "other"
    <2>1. CASE before = <<>>
      <3>1. log \o <<>> = log
        BY <1>1, <1>2, AppendIs
      <3>2. Len(before) = 0 /\ \A i \in (Len(log) + 1)..Len(log) : FALSE
        BY <1>1, <2>1
      <3> QED BY <1>1, <2>1, <3>1, <3>2
    <2>2. CASE before = <<Other>>
      <3>1. log \o <<Other>> = Append(log, Other)
        BY <1>1, <1>2, AppendIs
      <3>2. PICK t \in Seq(RecordSet) : t = Append(log, Other) /\ Len(t) = Len(log) + 1
        <4>1. PICK t : t = Append(log, Other)
          OBVIOUS
        <4>2. t \in Seq(RecordSet) /\ Len(t) = Len(log) + 1
          BY <1>1, <1>2, <4>1, Added
        <4> QED BY <4>1, <4>2
      <3>3. Replay(t) = Replay(log)
        BY <1>1, <1>2, <3>2, ReplayQuiet
      <3>4. Grown(log, t)
        BY <1>1, <1>2, <3>2, GrownByOne
      <3>5. Len(before) = 1
        BY <2>2
      <3>6. \A i \in (Len(log) + 1)..Len(t) : t[i].type = "other"
        <4>1. t[Len(t)] = Other /\ \A i \in (Len(log) + 1)..Len(t) : i = Len(t)
          BY <1>1, <1>2, <3>2, Added
        <4> QED BY <1>2, <4>1
      <3> QED BY <2>2, <3>1, <3>2, <3>3, <3>4, <3>5, <3>6
    <2> QED BY <2>1, <2>2
  <1>4. PICK two \in Seq(RecordSet) :
            /\ two = Append(one, Record("user")) /\ Grown(one, two)
            /\ two[Len(two)] = Record("user")
            /\ Replay(two) = Append(Replay(log), UserMessage(Len(one) + 1))
    <2>1. PICK t : t = Append(one, Record("user"))
      OBVIOUS
    <2>2. Grown(one, t) /\ t[Len(t)] = Record("user")
      BY <1>2, <2>1, GrownByOne
    <2>3. Replay(t) = Append(Replay(one), UserMessage(Len(one) + 1))
      BY <2>1, ReplayUser
    <2> QED BY <1>3, <2>1, <2>2, <2>3 DEF Grown
  <1>5. Grown(log, two)
    <2>1. CASE one = log
      BY <1>4, <2>1
    <2>2. CASE Grown(log, one)
      BY <1>4, <2>2, GrownTwice
    <2> QED BY <1>3, <2>1, <2>2
  <1>6. PICK three \in Seq(RecordSet) :
            /\ three = Append(two, Other) /\ Grown(two, three)
            /\ three[Len(three)] = Other /\ Replay(three) = Replay(two)
    <2>1. PICK t : t = Append(two, Other)
      OBVIOUS
    <2>2. Grown(two, t) /\ t[Len(t)] = Other
      BY <1>2, <2>1, GrownByOne
    <2>3. Replay(t) = Replay(two)
      BY <1>2, <2>1, ReplayQuiet
    <2> QED BY <2>1, <2>2, <2>3 DEF Grown
  <1>7. log' = two \/ log' = three
    <2>1. log' = one \o UserRecords
      BY <1>3 DEF PushUser
    <2>2. one \o <<Record("user")>> = two /\ one \o <<Record("user"), Other>> = three
      BY <1>2, <1>4, <1>6, AppendIs
    <2>3. UserRecords = <<Record("user")>> \/ UserRecords = <<Record("user"), Other>>
      BY DEF UserRecords
    <2> QED BY <2>1, <2>2, <2>3
  <1>8. /\ Grown(log, log') /\ log'[Len(log')].type \in {"user", "other"}
        /\ Replay(log') = Append(Replay(log), UserMessage(Len(one) + 1))
    <2>1. CASE log' = two
      BY <1>2, <1>4, <1>5, <2>1
    <2>2. CASE log' = three
      <3>1. Grown(log, three)
        BY <1>5, <1>6, GrownTwice
      <3> QED BY <1>2, <1>4, <1>6, <2>2, <3>1
    <2> QED BY <1>7, <2>1, <2>2
  <1>9. GoodView(view') /\ view'.messages = Append(view.messages, UserMessage(Len(one) + 1))
    <2>1. PICK m \in MessageSet : m = UserMessage(Len(one) + 1)
      BY <1>3, MessageTypes
    <2>2. PICK w : w = Push(view, m)
      OBVIOUS
    <2>3. GoodView(w) /\ w.messages = Append(view.messages, m)
      BY <1>1, <2>2, PushView
    <2>4. view' = [w EXCEPT !.taskRecorded = TRUE]
      BY <1>3, <2>1, <2>2 DEF PushUser
    <2>5. view' \in ViewSet /\ view'.messages = w.messages /\ view'.turnMap = w.turnMap
      BY <2>3, <2>4 DEF GoodView, ViewSet
    <2> QED BY <2>1, <2>3, <2>5 DEF GoodView
  <1>10. Clean(log') => Clean(log)
    BY <1>8, CleanBefore
  <1>11. Len(log) + Len(before) + 1 <= Len(log')
    <2>1. PICK n \in Nat : n = Len(one)
      BY <1>3
    <2>2. Len(two) \in Nat /\ Len(two) > n /\ Len(three) \in Nat /\ Len(three) > Len(two)
      BY <1>4, <1>6, <2>1 DEF Grown
    <2>3. Len(log') >= n + 1
      BY <1>7, <2>1, <2>2
    <2> QED BY <1>3, <2>1, <2>3
  <1>12. PICK k \in Nat : k = Len(one) + 1 /\ k > Len(log) /\ Len(two) = k
    <2>1. Len(two) = Len(one) + 1 /\ Len(one) \in Nat /\ Len(one) >= Len(log)
      BY <1>1, <1>2, <1>3, <1>4, Added
    <2> QED BY <1>1, <2>1
  <1>13. two[k].type = "user" /\ \A i \in (Len(log) + 1)..(k - 1) : two[i].type = "other"
    <2>1. Len(one) \in Nat /\ \A i \in (Len(log) + 1)..(k - 1) : i \in 1..Len(one)
      BY <1>1, <1>12
    <2>2. \A i \in 1..Len(one) : two[i] = one[i]
      BY <1>4 DEF Grown
    <2>3. Len(one) = k - 1
      BY <1>12, <2>1
    <2> QED BY <1>2, <1>3, <1>4, <1>12, <2>1, <2>2, <2>3
  <1>14. /\ k \in (Len(log) + 1)..Len(log') /\ log'[k].type = "user"
         /\ \A i \in (Len(log) + 1)..Len(log') : i # k => log'[i].type = "other"
    <2>1. CASE log' = two
      <3>1. \A i \in (Len(log) + 1)..k : i # k => i \in (Len(log) + 1)..(k - 1)
        BY <1>1
      <3> QED BY <1>1, <1>12, <1>13, <2>1, <3>1
    <2>2. CASE log' = three
      <3>1. Len(three) = k + 1 /\ three[k + 1] = Other /\ \A i \in 1..k : three[i] = two[i]
        BY <1>2, <1>6, <1>12, Added
      <3>2. \A i \in (Len(log) + 1)..(k + 1) :
                i # k => i = k + 1 \/ (i \in (Len(log) + 1)..(k - 1) /\ i \in 1..k)
        BY <1>1
      <3>3. k \in 1..k /\ k \in (Len(log) + 1)..(k + 1)
        BY <1>1, <1>12
      <3> QED BY <1>2, <1>13, <2>2, <3>1, <3>2, <3>3
    <2> QED BY <1>7, <2>1, <2>2
  <1>15. view'.compacted = view.compacted
    <2>1. PICK m : m = UserMessage(Len(log) + Len(before) + 1)
      OBVIOUS
    <2>2. view' = [Push(view, m) EXCEPT !.taskRecorded = TRUE]
      BY <2>1 DEF PushUser
    <2>3. Push(view, m).compacted = view.compacted
      BY <1>1 DEF GoodView, ViewSet, Push
    <2>4. view'.compacted = Push(view, m).compacted
      BY <1>1, <2>2 DEF GoodView, ViewSet, Push
    <2> QED BY <2>3, <2>4
  <1>16. UserAt(k)
    BY <1>8, <1>9, <1>12, <1>14, <1>15 DEF UserAt
  <1> QED BY <1>8, <1>9, <1>10, <1>11, <1>16 DEF Follows

(* A record that is no part of the conversation is written.                  *)
LEMMA OtherWritten ==
    ASSUME TypeInv, NEW type \in {"other", "end"}, log' = Append(log, Record(type)),
           view'.messages = view.messages
    PROVE  Grown(log, log') /\ log'[Len(log')].type = type /\ Follows
  <1>1. log \in Seq(RecordSet) /\ Record(type) \in RecordSet /\ Record(type).type = type
    BY RecordTypesAre DEF TypeInv
  <1>2. Grown(log, log') /\ log'[Len(log')] = Record(type)
    BY <1>1, GrownByOne
  <1>3. Replay(log') = Replay(log)
    BY <1>1, ReplayQuiet
  <1>4. Clean(log') => Clean(log)
    BY <1>2, CleanBefore
  <1> QED BY <1>1, <1>2, <1>3, <1>4 DEF Follows

(* An answer is written and pushed.                                          *)
LEMMA AnswerPushed ==
    ASSUME TypeInv, log[Len(log)].type \notin {"assistant", "call"},
           NEW answered \in BOOLEAN, NEW calls \in Nat, answered \/ calls > 0,
           PushAnswer(answered, calls)
    PROVE  Grown(log, log') /\ log'[Len(log')].type \in {"assistant", "call"}
           /\ GoodView(view') /\ Follows
  <1>1. log \in Seq(RecordSet) /\ Len(log) \in Nat /\ log # <<>> /\ GoodView(view)
    BY DEF TypeInv
  <1>2. PICK more : more = log' /\ more = log \o AnswerRecords(answered, calls)
    BY DEF PushAnswer
  <1>3. WithAnswer(log, answered, calls, more)
    BY <1>1, <1>2, AnswerIs
  <1>4. PICK a \in {0, 1} : a = Answered(answered) /\ (answered => a = 1) /\ a + calls > 0
    BY DEF Answered
  <1>5. Grown(log, more)
    <2>1. Len(more) = Len(log) + a + calls
      BY <1>3, <1>4 DEF WithAnswer
    <2>2. Len(more) > Len(log)
      BY <1>1, <1>4, <2>1
    <2>3. more # <<>>
      BY <1>1, <2>2
    <2> QED BY <1>3, <2>2, <2>3 DEF WithAnswer, Grown
  <1>6. more[Len(more)].type \in {"assistant", "call"}
    <2>1. Len(more) = Len(log) + a + calls
      BY <1>3, <1>4 DEF WithAnswer
    <2>2. Record("assistant").type = "assistant" /\ Record("call").type = "call"
      BY DEF Record
    <2>3. CASE calls > 0
      <3>1. Len(more) \in (Len(log) + a + 1)..Len(more)
        BY <1>1, <2>1, <2>3
      <3> QED BY <1>3, <1>4, <2>2, <3>1 DEF WithAnswer
    <2>4. CASE calls = 0
      <3>1. answered /\ Len(more) = Len(log) + 1
        <4>1. answered
          BY <2>4
        <4>2. a = 1
          BY <1>4, <4>1
        <4> QED BY <1>1, <2>1, <2>4, <4>1, <4>2
      <3> QED BY <1>3, <2>2, <3>1 DEF WithAnswer
    <2> QED BY <2>3, <2>4
  <1>7. Replay(log) \in Seq(MessageSet)
    BY <1>1, ReplayType
  <1>8. Replay(more) = WithAsked(Replay(log), Len(log) + 1, CallsAfter(log, answered, calls))
    BY <1>1, <1>2, <1>7, ReplayAnswer
  <1>9. CallRecords(answered, calls) = CallsAfter(log, answered, calls)
    BY DEF CallRecords, CallsFrom, CallsAfter, Answered
  <1>10. PICK m \in MessageSet : m = AssistantMessage(Len(log) + 1, CallRecords(answered, calls))
    <2>1. CallRecords(answered, calls) \in SUBSET Nat
      BY <1>1, <1>4, <1>9 DEF CallsAfter
    <2> QED BY <1>1, <2>1, MessageTypes
  <1>11. view' = Push(view, m)
    BY <1>10 DEF PushAnswer
  <1>12. GoodView(view') /\ view'.messages = Append(view.messages, m)
    BY <1>1, <1>11, PushView
  <1>13. Clean(log') => Clean(log)
    BY <1>2, <1>5, CleanBefore
  <1> QED BY <1>2, <1>5, <1>6, <1>8, <1>9, <1>10, <1>12, <1>13 DEF Follows, WithAsked

(* A result is written and pushed.                                           *)
LEMMA ResultPushed ==
    ASSUME TypeInv, NEW call \in Nat, log' = Append(log, Result(call)),
           NEW pushed, pushed = Push(view, ToolMessage(Len(log) + 1, call))
    PROVE  /\ Grown(log, log') /\ log'[Len(log')].type = "result"
           /\ GoodView(pushed)
           /\ Clean(log') => /\ Clean(log)
                             /\ Replay(log) = view.messages => Replay(log') = pushed.messages
  <1>1. /\ log \in Seq(RecordSet) /\ Len(log) \in Nat /\ GoodView(view)
        /\ Result(call) \in RecordSet /\ Result(call).type = "result"
    BY RecordTypesAre DEF TypeInv
  <1>2. Grown(log, log') /\ log'[Len(log')] = Result(call)
    BY <1>1, GrownByOne
  <1>3. Replay(log') = Append(Replay(log), ToolMessage(Len(log) + 1, call))
    BY <1>1, ReplayResult
  <1>4. PICK m \in MessageSet : m = ToolMessage(Len(log) + 1, call)
    BY <1>1, MessageTypes
  <1>5. GoodView(pushed) /\ pushed.messages = Append(view.messages, m)
    BY <1>1, <1>4, PushView
  <1>6. Clean(log') => Clean(log)
    BY <1>2, CleanBefore
  <1> QED BY <1>1, <1>2, <1>3, <1>4, <1>5, <1>6

(* A compaction is written and the view cut, or there is nothing to cut.     *)
LEMMA CompactDone ==
    ASSUME TypeInv, Faithful, NEW trigger \in {"auto", "manual"}, NEW requested,
           Compact(trigger, requested), offRecord' = offRecord
    PROVE  /\ \/ log' = log /\ view' = view
              \/ Grown(log, log') /\ log'[Len(log')].type = "compaction"
           /\ GoodView(view') /\ Faithful'
           /\ \/ pending' = requested /\ autoArmed' = autoArmed
              \/ UsageFrom(requested, autoArmed)
  <1> DEFINE from == IF view.messages = <<>> THEN 0 ELSE 1
             to == CutBefore(view.messages, from, KeepRecentTurns)
  <1>1. /\ log \in Seq(RecordSet) /\ Len(log) \in Nat /\ log # <<>> /\ GoodView(view)
        /\ offRecord \in BOOLEAN
    BY DEF TypeInv
  <1>2. PICK vm \in Seq(MessageSet) : vm = view.messages
    BY <1>1 DEF GoodView, ViewSet
  <1>3. from \in Nat /\ from <= Len(vm) /\ Len(vm) \in Nat
    BY <1>2
  <1> HIDE DEF from
  <1>4. to \in from..Len(vm)
    <2>1. KeepRecentTurns \in Nat
      BY HistoryAssumption
    <2>2. CutBefore(vm, from, KeepRecentTurns) \in from..Len(vm)
      BY <1>3, <2>1, CutIsTurn
    <2> QED BY <1>2, <2>2
  <1>5. to \in Nat /\ from <= to /\ to <= Len(vm)
    BY <1>3, <1>4
  <1> HIDE DEF to
  <1>6. \/ log' = log /\ view' = view /\ pending' = requested /\ autoArmed' = autoArmed
        \/ /\ log' = Append(log, Compaction(from, to, trigger))
           /\ view' = CompactedView(from, to, Len(log) + 1)
           /\ UsageFrom(requested, autoArmed)
    BY DEF Compact, from, to
  <1>7. CASE log' = log /\ view' = view /\ pending' = requested /\ autoArmed' = autoArmed
    BY <1>1, <1>7 DEF Faithful
  <1>8. CASE /\ log' = Append(log, Compaction(from, to, trigger))
             /\ view' = CompactedView(from, to, Len(log) + 1)
             /\ UsageFrom(requested, autoArmed)
    <2>1. PICK r \in RecordSet :
              /\ r = Compaction(from, to, trigger) /\ r.type = "compaction"
              /\ r.from = from /\ r.to = to /\ r.off = offRecord
      <3>1. PICK r : r = [type |-> "compaction", from |-> from, to |-> to,
                          trigger |-> trigger, off |-> offRecord]
        OBVIOUS
      <3>2. r \in [type : {"compaction"}, from : Nat, to : Nat, trigger : {"auto", "manual"},
                   off : BOOLEAN]
        BY <1>1, <1>3, <1>5, <3>1
      <3>3. r \in RecordSet
        BY <3>2 DEF RecordSet
      <3> QED BY <3>1, <3>3 DEF Compaction
    <2>2. Grown(log, log') /\ log'[Len(log')] = r
      BY <1>1, <1>8, <2>1, GrownByOne
    <2>3. GoodView(view') /\ view'.messages = Splice(vm, from, to, UserMessage(Len(log) + 1))
      BY <1>1, <1>2, <1>3, <1>5, <1>8, CompactedIs
    <2>4. ASSUME ~offRecord, Clean(log') PROVE Replay(log') = view'.messages
      <3>1. Replay(log) = vm
        BY <1>2, <2>2, <2>4, CleanBefore DEF Faithful
      <3>2. /\ r.from \in Nat /\ r.to \in Nat /\ r.from <= r.to
            /\ Len(Replay(log)) \in Nat /\ r.to <= Len(Replay(log)) /\ log' = Append(log, r)
        BY <1>3, <1>5, <1>8, <2>1, <3>1
      <3>3. Replay(log') = Splice(Replay(log), r.from, r.to, UserMessage(Len(log) + 1))
        BY <1>1, <2>1, <3>2, ReplayCompaction
      <3> QED BY <2>1, <2>3, <3>1, <3>3
    <2>5. Faithful'
      BY <2>4 DEF Faithful
    <2> QED BY <1>8, <2>1, <2>2, <2>3, <2>5
  <1> QED BY <1>6, <1>7, <1>8

(* Part of an answer is written.                                             *)
LEMMA AnswerBegun ==
    ASSUME TypeInv, NEW answered \in BOOLEAN, NEW calls \in Nat,
           NEW n \in 1..Len(AnswerRecords(answered, calls)),
           log' = log \o SubSeq(AnswerRecords(answered, calls), 1, n)
    PROVE  Grown(log, log') /\ log'[Len(log')].type # "end"
  <1> DEFINE S == {Record("assistant"), Record("call")}
             own == AnswerRecords(answered, calls)
  <1>1. log \in Seq(RecordSet) /\ Len(log) \in Nat
    BY DEF TypeInv
  <1>2. S \subseteq RecordSet /\ \A r \in S : r.type # "end"
    BY DEF Record, RecordSet
  <1>3. own \in Seq(S)
    <2> DEFINE first == IF answered THEN <<Record("assistant")>> ELSE <<>>
               rest == [i \in 1..calls |-> Record("call")]
    <2>1. Record("assistant") \in S /\ Record("call") \in S
      OBVIOUS
    <2> HIDE DEF S
    <2>2. first \in Seq(S) /\ rest \in Seq(S)
      <3>1. first \in Seq(S)
        BY <2>1
      <3>2. rest \in Seq(S)
        BY <2>1
      <3> QED BY <3>1, <3>2
    <2>3. own = first \o rest
      BY DEF AnswerRecords
    <2> HIDE DEF own, first, rest
    <2>4. first \o rest \in Seq(S)
      BY <2>2, ConcatProperties
    <2> QED BY <2>3, <2>4
  <1> HIDE DEF S, own
  <1>4. PICK part \in Seq(S) : part = SubSeq(own, 1, n) /\ Len(part) = n
    <2>1. n \in Nat /\ n >= 1 /\ n <= Len(own)
      BY <1>3 DEF own
    <2>2. \A i \in 1..n : own[i] \in S
      BY <1>3, <2>1
    <2>3. SubSeq(own, 1, n) \in Seq(S) /\ Len(SubSeq(own, 1, n)) = IF 1 <= n THEN n - 1 + 1 ELSE 0
      BY <2>1, <2>2, SubSeqProperties
    <2>4. PICK part : part = SubSeq(own, 1, n)
      OBVIOUS
    <2>5. part \in Seq(S)
      BY <2>3, <2>4
    <2>6. Len(part) = IF 1 <= n THEN n - 1 + 1 ELSE 0
      BY <2>3, <2>4
    <2>7. Len(part) = n
      BY <2>1, <2>6
    <2> QED BY <2>4, <2>5, <2>7
  <1>5. part \in Seq(RecordSet) /\ n \in Nat /\ n >= 1 /\ part[n] \in S
    <2>1. n \in Nat /\ n >= 1
      BY <1>3 DEF own
    <2>2. part \in Seq(RecordSet)
      BY <1>2, SeqMonotonic
    <2> QED BY <1>4, <2>1, <2>2
  <1>6. PICK new : new = log' /\ new = log \o part
    BY <1>4 DEF own
  <1>7. /\ new \in Seq(RecordSet) /\ Len(new) = Len(log) + n
        /\ \A i \in 1..(Len(log) + n) :
              new[i] = IF i <= Len(log) THEN log[i] ELSE part[i - Len(log)]
    <2>1. /\ log \o part \in Seq(RecordSet) /\ Len(log \o part) = Len(log) + Len(part)
          /\ \A i \in 1..(Len(log) + Len(part)) :
                (log \o part)[i] = IF i <= Len(log) THEN log[i] ELSE part[i - Len(log)]
      BY <1>1, <1>5, ConcatProperties
    <2> QED BY <1>4, <1>6, <2>1
  <1>8. PICK L \in Nat : L = Len(log)
    BY <1>1
  <1>9. Grown(log, new)
    <2>1. L + n > L /\ \A i \in 1..L : i \in 1..(L + n) /\ i <= L
      BY <1>5
    <2>2. Len(new) > Len(log) /\ \A i \in 1..Len(log) : new[i] = log[i]
      BY <1>7, <1>8, <2>1
    <2>3. new # <<>>
      BY <1>5, <1>7, <1>8
    <2> QED BY <1>1, <1>7, <2>2, <2>3 DEF Grown
  <1>10. new[Len(new)] = part[n]
    <2>1. L + n \in 1..(L + n) /\ ~(L + n <= L) /\ (L + n) - L = n
      BY <1>5
    <2> QED BY <1>7, <1>8, <2>1
  <1> QED BY <1>2, <1>5, <1>6, <1>9, <1>10

------------------------------------------------------------------------------
(* The invariant is kept                                                     *)

(* A cache that stays while the transcript grows is no longer loaded.        *)
LEMMA CacheKept ==
    ASSUME TypeInv, cache' = cache, Grown(log, log')
    PROVE  /\ CacheAgrees'
           /\ cache' # Absent => cache'.len \in 1..Len(log') /\ GoodView(cache'.view)
           /\ log'[Len(log')].type # "end" => EndCached'
  <1>1. Len(log) \in Nat /\ Len(log') \in Nat /\ Len(log') > Len(log)
    BY DEF Grown
  <1>2. cache # Absent => cache.len \in 1..Len(log) /\ GoodView(cache.view)
    BY DEF TypeInv
  <1> QED BY <1>1, <1>2 DEF CacheAgrees, EndCached

(* A cache that is written is that of the conversation.                      *)
LEMMA CacheWritten ==
    ASSUME log' \in Seq(RecordSet), log' # <<>>, GoodView(view'), WriteViewCache
    PROVE  /\ CacheAgrees' /\ EndCached'
           /\ cache' # Absent => cache'.len \in 1..Len(log') /\ GoodView(cache'.view)
  <1>1. cache'.len = Len(log') /\ cache'.view = view'
    BY DEF WriteViewCache
  <1>2. Len(log') \in 1..Len(log')
    OBVIOUS
  <1> QED BY <1>1, <1>2 DEF CacheAgrees, EndCached

(* What a step that keeps a replay in step with the conversation keeps.      *)
LEMMA FaithKept ==
    ASSUME Faithful, Follows, offRecord' = offRecord
    PROVE  Faithful'
  BY DEF Faithful, Follows

(* A request for a compaction is one of its kinds.                           *)
LEMMA UsageTypes ==
    ASSUME NEW requested \in {"none", "auto", "manual"}, NEW armed \in BOOLEAN,
           UsageFrom(requested, armed)
    PROVE  pending' \in {"none", "auto", "manual"} /\ autoArmed' \in BOOLEAN
  <1>1. Request(requested, "auto") \in {"none", "auto", "manual"}
    BY DEF Request
  <1>2. pending' \in {"none", "auto", "manual"}
    BY <1>1 DEF UsageFrom
  <1>3. autoArmed' \in BOOLEAN
    <2>1. PICK over \in BOOLEAN : autoArmed' = IF AutoCompact THEN ~over ELSE armed
      BY DEF UsageFrom
    <2> QED BY <2>1
  <1> QED BY <1>2, <1>3

(* A user's message.                                                         *)
LEMMA UserInputKeeps ==
    ASSUME Inv, UserInput PROVE Inv'
  <1>1. TypeInv /\ Faithful
    BY DEF Inv
  <1>2. /\ PushUser(<<>>) /\ phase' = "streaming" /\ EmitContextUsage
        /\ UNCHANGED <<todo, cache, lives, offRecord>>
    BY DEF UserInput
  <1>3. /\ Grown(log, log') /\ log'[Len(log')].type \in {"user", "other"}
        /\ GoodView(view') /\ Follows
    BY <1>1, <1>2, UserPushed
  <1>4. /\ CacheAgrees' /\ EndCached'
        /\ cache' # Absent => cache'.len \in 1..Len(log') /\ GoodView(cache'.view)
    BY <1>1, <1>2, <1>3, CacheKept
  <1>5. pending' \in {"none", "auto", "manual"} /\ autoArmed' \in BOOLEAN
    BY <1>1, <1>2, UsageTypes DEF TypeInv, EmitContextUsage
  <1>6. TypeInv'
    BY <1>1, <1>2, <1>3, <1>4, <1>5 DEF TypeInv, Grown, Phase
  <1>7. Faithful'
    BY <1>1, <1>2, <1>3, FaithKept
  <1>8. StreamClean'
    BY <1>3 DEF StreamClean
  <1> QED BY <1>4, <1>6, <1>7, <1>8 DEF Inv

(* An answer with calls.                                                     *)
LEMMA AnswerWithCallsKeeps ==
    ASSUME Inv, NEW answered \in BOOLEAN, NEW calls \in 1..MaxCalls,
           AnswerWithCalls(answered, calls)
    PROVE  Inv'
  <1>1. TypeInv /\ Faithful /\ StreamClean /\ calls \in Nat /\ calls > 0
    BY HistoryAssumption DEF Inv
  <1>2. /\ PushAnswer(answered, calls) /\ phase' = "tools" /\ EmitContextUsage
        /\ todo' = [i \in 1..calls |-> CallsFrom(answered) + i]
        /\ UNCHANGED <<cache, lives, offRecord>> /\ phase = "streaming"
    BY DEF AnswerWithCalls, PushAnswer
  <1>3. /\ Grown(log, log') /\ log'[Len(log')].type \in {"assistant", "call"}
        /\ GoodView(view') /\ Follows
    <2>1. log[Len(log)].type \notin {"assistant", "call"}
      BY <1>1, <1>2 DEF StreamClean
    <2> QED BY <1>1, <1>2, <2>1, AnswerPushed
  <1>4. /\ CacheAgrees' /\ EndCached'
        /\ cache' # Absent => cache'.len \in 1..Len(log') /\ GoodView(cache'.view)
    BY <1>1, <1>2, <1>3, CacheKept
  <1>5. pending' \in {"none", "auto", "manual"} /\ autoArmed' \in BOOLEAN
    BY <1>1, <1>2, UsageTypes DEF TypeInv, EmitContextUsage
  <1>6. todo' \in Seq(Nat) /\ todo' # <<>>
    <2>1. PICK from \in Nat : from = CallsFrom(answered)
      <3>1. Len(log) \in Nat
        BY <1>1 DEF TypeInv
      <3> QED BY <3>1 DEF CallsFrom
    <2>2. PICK t : t = todo'
      OBVIOUS
    <2>3. t = [i \in 1..calls |-> from + i]
      BY <1>2, <2>1, <2>2
    <2>4. t \in Seq(Nat) /\ Len(t) = calls
      BY <1>1, <2>3
    <2> QED BY <1>1, <2>2, <2>4
  <1>7. TypeInv'
    BY <1>1, <1>2, <1>3, <1>4, <1>5, <1>6 DEF TypeInv, Grown, Phase
  <1>8. Faithful'
    BY <1>1, <1>2, <1>3, FaithKept
  <1>9. StreamClean'
    BY <1>2 DEF StreamClean
  <1> QED BY <1>4, <1>7, <1>8, <1>9 DEF Inv

(* An answer without calls.                                                  *)
LEMMA AnswerKeeps ==
    ASSUME Inv, NEW answered \in BOOLEAN, Answer(answered) PROVE Inv'
  <1>1. TypeInv /\ Faithful /\ StreamClean /\ CacheAgrees /\ EndCached
    BY DEF Inv
  <1>2. /\ PushAnswer(answered, 0) \/ RecordReasoning
        /\ phase' \in {"ending", "checking"} /\ EmitContextUsage
        /\ UNCHANGED <<todo, cache, lives>> /\ phase = "streaming"
    BY DEF Answer
  <1>3. pending' \in {"none", "auto", "manual"} /\ autoArmed' \in BOOLEAN
    BY <1>1, <1>2, UsageTypes DEF TypeInv, EmitContextUsage
  <1>4. /\ log' \in Seq(RecordSet) /\ log' # <<>> /\ GoodView(view') /\ offRecord' \in BOOLEAN
        /\ CacheAgrees' /\ EndCached' /\ Faithful'
        /\ cache' # Absent => cache'.len \in 1..Len(log') /\ GoodView(cache'.view)
    <2>1. CASE PushAnswer(answered, 0) /\ answered
      <3>1. /\ Grown(log, log') /\ log'[Len(log')].type \in {"assistant", "call"}
            /\ GoodView(view') /\ Follows
        <4>1. log[Len(log)].type \notin {"assistant", "call"}
          BY <1>1, <1>2 DEF StreamClean
        <4>2. PICK n \in Nat : n = 0
          OBVIOUS
        <4>3. PushAnswer(answered, n) /\ (answered \/ n > 0)
          BY <2>1, <4>2
        <4> QED BY <1>1, <4>1, <4>3, AnswerPushed
      <3>2. /\ CacheAgrees' /\ EndCached'
            /\ cache' # Absent => cache'.len \in 1..Len(log') /\ GoodView(cache'.view)
        BY <1>1, <1>2, <3>1, CacheKept
      <3>3. offRecord' = offRecord
        BY <2>1 DEF PushAnswer
      <3>4. Faithful'
        BY <1>1, <3>1, <3>3, FaithKept
      <3> QED BY <1>1, <3>1, <3>2, <3>3, <3>4 DEF Grown, TypeInv
    <2>2. CASE PushAnswer(answered, 0) /\ ~answered
      <3>1. AnswerRecords(answered, 0) = <<>>
        BY <2>2 DEF AnswerRecords
      <3>2. log' = log /\ view' = view /\ offRecord' = offRecord
        BY <1>1, <2>2, <3>1 DEF PushAnswer, TypeInv
      <3> QED BY <1>1, <1>2, <3>2 DEF TypeInv, CacheAgrees, EndCached, Faithful
    <2>3. CASE RecordReasoning
      <3>1. log' = Append(log, Record("assistant")) /\ view' = view /\ offRecord' = TRUE
        BY <2>3 DEF RecordReasoning
      <3>2. Grown(log, log') /\ log'[Len(log')].type = "assistant"
        BY <1>1, <3>1, RecordTypesAre, GrownByOne DEF TypeInv
      <3>3. /\ CacheAgrees' /\ EndCached'
            /\ cache' # Absent => cache'.len \in 1..Len(log') /\ GoodView(cache'.view)
        BY <1>1, <1>2, <3>2, CacheKept
      <3> QED BY <1>1, <3>1, <3>2, <3>3 DEF Grown, TypeInv, Faithful
    <2> QED BY <1>2, <2>1, <2>2, <2>3
  <1>5. TypeInv'
    BY <1>1, <1>2, <1>3, <1>4 DEF TypeInv, Phase
  <1>6. StreamClean'
    BY <1>2 DEF StreamClean
  <1> QED BY <1>4, <1>5, <1>6 DEF Inv

(* A record that is no part of the conversation, the cache staying.          *)
LEMMA QuietlyKept ==
    ASSUME Inv, log' = Append(log, Other), view' = view,
           UNCHANGED <<todo, cache, pending, autoArmed, lives, offRecord>>,
           phase' \in Phase \ {"tools", "canceling"}
    PROVE  Inv'
  <1>1. TypeInv /\ Faithful
    BY DEF Inv
  <1>2. Grown(log, log') /\ log'[Len(log')].type = "other" /\ Follows
    <2>1. log' = Append(log, Record("other")) /\ view'.messages = view.messages
      BY RecordTypesAre
    <2> QED BY <1>1, <2>1, OtherWritten
  <1>3. /\ CacheAgrees' /\ EndCached'
        /\ cache' # Absent => cache'.len \in 1..Len(log') /\ GoodView(cache'.view)
    BY <1>1, <1>2, CacheKept
  <1>4. TypeInv'
    BY <1>1, <1>2, <1>3 DEF TypeInv, Grown
  <1>5. Faithful'
    BY <1>1, <1>2, FaithKept
  <1>6. StreamClean'
    BY <1>2 DEF StreamClean
  <1> QED BY <1>3, <1>4, <1>5, <1>6 DEF Inv

(* The stream fails.                                                         *)
LEMMA StreamFailsKeeps ==
    ASSUME Inv, StreamFails PROVE Inv'
  BY QuietlyKept DEF StreamFails, SameUsage, Phase

(* A result.                                                                 *)
LEMMA IngestToolResultKeeps ==
    ASSUME Inv, NEW attached \in BOOLEAN, IngestToolResult(attached) PROVE Inv'
  <1>1. TypeInv /\ Faithful
    BY DEF Inv
  <1>2. PICK pushed : pushed = Push(view, ToolMessage(Len(log) + 1, Head(todo)))
    OBVIOUS
  <1>3. /\ log' = Append(log, Result(Head(todo))) /\ todo' = Tail(todo) /\ EmitContextUsage
        /\ view' = IF attached THEN Push(pushed, Synthetic) ELSE pushed
        /\ offRecord' = (offRecord \/ attached)
        /\ \/ todo' # <<>> /\ phase' = "tools"
           \/ todo' = <<>> /\ phase' \in {"streaming", "halted"}
        /\ UNCHANGED <<cache, lives>>
    BY <1>2 DEF IngestToolResult
  <1>4. Head(todo) \in Nat /\ todo' \in Seq(Nat)
    BY <1>1, <1>3 DEF TypeInv, IngestToolResult
  <1>5. /\ Grown(log, log') /\ log'[Len(log')].type = "result" /\ GoodView(pushed)
        /\ Clean(log') => /\ Clean(log)
                          /\ Replay(log) = view.messages => Replay(log') = pushed.messages
    BY <1>1, <1>2, <1>3, <1>4, ResultPushed
  <1>6. GoodView(view')
    BY <1>3, <1>5, PushView, MessageTypes
  <1>7. /\ CacheAgrees' /\ EndCached'
        /\ cache' # Absent => cache'.len \in 1..Len(log') /\ GoodView(cache'.view)
    BY <1>1, <1>3, <1>5, CacheKept
  <1>8. pending' \in {"none", "auto", "manual"} /\ autoArmed' \in BOOLEAN
    BY <1>1, <1>3, UsageTypes DEF TypeInv, EmitContextUsage
  <1>9. offRecord' \in BOOLEAN
    BY <1>3
  <1>10. TypeInv'
    BY <1>1, <1>3, <1>4, <1>5, <1>6, <1>7, <1>8, <1>9 DEF TypeInv, Grown, Phase
  <1>11. Faithful'
    <2>1. ASSUME ~offRecord' PROVE ~offRecord /\ ~attached /\ view' = pushed
      BY <1>3, <2>1
    <2> QED BY <1>1, <1>5, <2>1 DEF Faithful
  <1>12. StreamClean'
    BY <1>5 DEF StreamClean
  <1> QED BY <1>7, <1>10, <1>11, <1>12 DEF Inv

(* The user interrupts the batch, or asks for a compaction.                  *)
LEMMA CancelToolsKeeps ==
    ASSUME Inv, CancelTools \/ CompactCommand PROVE Inv'
  <1>1. /\ TypeInv /\ Faithful /\ StreamClean /\ CacheAgrees /\ EndCached
    BY DEF Inv
  <1>2. UNCHANGED <<todo, log, view, cache, autoArmed, lives, offRecord>>
    BY DEF CancelTools, CompactCommand
  <1>3. pending' \in {"none", "auto", "manual"}
    BY <1>1 DEF TypeInv, CancelTools, CompactCommand, Request
  <1>4. /\ phase' = phase \/ (phase = "tools" /\ phase' = "canceling")
    BY DEF CancelTools, CompactCommand
  <1>5. TypeInv'
    BY <1>1, <1>2, <1>3, <1>4 DEF TypeInv, Phase
  <1>6. CacheAgrees' /\ EndCached' /\ Faithful' /\ StreamClean'
    BY <1>1, <1>2, <1>4 DEF CacheAgrees, EndCached, Faithful, StreamClean
  <1> QED BY <1>5, <1>6 DEF Inv

(* The result of a canceled call.                                            *)
LEMMA PushCanceledResultKeeps ==
    ASSUME Inv, PushCanceledResult PROVE Inv'
  <1>1. TypeInv /\ Faithful
    BY DEF Inv
  <1>2. PICK pushed : pushed = Push(view, ToolMessage(Len(log) + 1, Head(todo)))
    OBVIOUS
  <1>3. /\ log' = Append(log, Result(Head(todo))) /\ todo' = Tail(todo) /\ view' = pushed
        /\ phase' = IF todo' = <<>> THEN "ending" ELSE "canceling"
        /\ UNCHANGED <<cache, pending, autoArmed, lives, offRecord>>
    BY <1>2 DEF PushCanceledResult, SameUsage
  <1>4. Head(todo) \in Nat /\ todo' \in Seq(Nat)
    BY <1>1, <1>3 DEF TypeInv, PushCanceledResult
  <1>5. /\ Grown(log, log') /\ log'[Len(log')].type = "result" /\ GoodView(pushed)
        /\ Clean(log') => /\ Clean(log)
                          /\ Replay(log) = view.messages => Replay(log') = pushed.messages
    BY <1>1, <1>2, <1>3, <1>4, ResultPushed
  <1>6. /\ CacheAgrees' /\ EndCached'
        /\ cache' # Absent => cache'.len \in 1..Len(log') /\ GoodView(cache'.view)
    BY <1>1, <1>3, <1>5, CacheKept
  <1>7. TypeInv'
    BY <1>1, <1>3, <1>4, <1>5, <1>6 DEF TypeInv, Grown, Phase
  <1>8. Faithful'
    BY <1>1, <1>3, <1>5 DEF Faithful
  <1>9. StreamClean'
    BY <1>3 DEF StreamClean
  <1> QED BY <1>6, <1>7, <1>8, <1>9 DEF Inv

(* The completion checks.                                                    *)
LEMMA ChecksEndKeeps ==
    ASSUME Inv, ChecksEnd PROVE Inv'
  <1>1. TypeInv /\ Faithful
    BY DEF Inv
  <1>2. /\ log' = Append(log, Other) /\ UNCHANGED <<todo, cache, lives>>
        /\ \/ /\ phase' = "ending" /\ UNCHANGED <<view, offRecord, pending, autoArmed>>
           \/ /\ view' = Push(view, Synthetic) /\ offRecord' = TRUE /\ EmitContextUsage
              /\ phase' \in {"streaming", "halted"}
    BY DEF ChecksEnd, SameUsage
  <1>3. CASE phase' = "ending" /\ UNCHANGED <<view, offRecord, pending, autoArmed>>
    BY <1>2, <1>3, QuietlyKept DEF Phase
  <1>4. CASE /\ view' = Push(view, Synthetic) /\ offRecord' = TRUE /\ EmitContextUsage
             /\ phase' \in {"streaming", "halted"}
    <2>1. Grown(log, log') /\ log'[Len(log')].type = "other"
      BY <1>1, <1>2, RecordTypesAre, GrownByOne DEF TypeInv
    <2>2. GoodView(view')
      BY <1>1, <1>4, PushView, MessageTypes DEF TypeInv
    <2>3. /\ CacheAgrees' /\ EndCached'
          /\ cache' # Absent => cache'.len \in 1..Len(log') /\ GoodView(cache'.view)
      BY <1>1, <1>2, <2>1, CacheKept
    <2>4. pending' \in {"none", "auto", "manual"} /\ autoArmed' \in BOOLEAN
      BY <1>1, <1>4, UsageTypes DEF TypeInv, EmitContextUsage
    <2>5. TypeInv'
      BY <1>1, <1>2, <1>4, <2>1, <2>2, <2>3, <2>4 DEF TypeInv, Grown, Phase
    <2>6. Faithful' /\ StreamClean'
      BY <1>4, <2>1 DEF Faithful, StreamClean
    <2> QED BY <2>3, <2>5, <2>6 DEF Inv
  <1> QED BY <1>2, <1>3, <1>4

(* A halt is resolved.                                                       *)
LEMMA ResolveHaltKeeps ==
    ASSUME Inv, ResolveHalt PROVE Inv'
  <1>1. TypeInv /\ Faithful
    BY DEF Inv
  <1>2. /\ UNCHANGED <<todo, cache, lives, offRecord>>
        /\ \/ /\ log' = Append(log, Other) /\ phase' \in {"streaming", "ending"}
              /\ UNCHANGED <<view, pending, autoArmed>>
           \/ PushUser(<<Other>>) /\ EmitContextUsage /\ phase' = "streaming"
    BY DEF ResolveHalt, SameUsage
  <1>3. CASE /\ log' = Append(log, Other) /\ phase' \in {"streaming", "ending"}
             /\ UNCHANGED <<view, pending, autoArmed>>
    BY <1>2, <1>3, QuietlyKept DEF Phase
  <1>4. CASE PushUser(<<Other>>) /\ EmitContextUsage /\ phase' = "streaming"
    <2>1. /\ Grown(log, log') /\ log'[Len(log')].type \in {"user", "other"}
          /\ GoodView(view') /\ Follows
      BY <1>1, <1>4, UserPushed
    <2>2. /\ CacheAgrees' /\ EndCached'
          /\ cache' # Absent => cache'.len \in 1..Len(log') /\ GoodView(cache'.view)
      BY <1>1, <1>2, <2>1, CacheKept
    <2>3. pending' \in {"none", "auto", "manual"} /\ autoArmed' \in BOOLEAN
      BY <1>1, <1>4, UsageTypes DEF TypeInv, EmitContextUsage
    <2>4. TypeInv'
      BY <1>1, <1>2, <1>4, <2>1, <2>2, <2>3 DEF TypeInv, Grown, Phase
    <2>5. Faithful'
      BY <1>1, <1>2, <2>1, FaithKept
    <2>6. StreamClean'
      BY <2>1 DEF StreamClean
    <2> QED BY <2>2, <2>4, <2>5, <2>6 DEF Inv
  <1> QED BY <1>2, <1>3, <1>4

(* The end of a turn.                                                        *)
LEMMA TurnEndKeeps ==
    ASSUME Inv, TurnEnd PROVE Inv'
  <1>1. TypeInv /\ Faithful
    BY DEF Inv
  <1>2. /\ phase' = "idle" /\ WriteViewCache /\ UNCHANGED <<todo, lives, offRecord>>
        /\ IF pending = "none" THEN UNCHANGED <<log, view, pending, autoArmed>>
           ELSE Compact(pending, "none")
    BY DEF TurnEnd
  <1>3. /\ log' \in Seq(RecordSet) /\ log' # <<>> /\ GoodView(view') /\ Faithful'
        /\ pending' \in {"none", "auto", "manual"} /\ autoArmed' \in BOOLEAN
    <2>1. CASE pending = "none"
      BY <1>1, <1>2, <2>1 DEF TypeInv, Faithful
    <2>2. CASE pending # "none"
      <3>1. PICK trigger \in {"auto", "manual"} : trigger = pending
        BY <1>1, <2>2 DEF TypeInv
      <3>2. Compact(trigger, "none")
        BY <1>2, <2>2, <3>1
      <3>3. /\ \/ log' = log /\ view' = view
               \/ Grown(log, log') /\ log'[Len(log')].type = "compaction"
            /\ GoodView(view') /\ Faithful'
            /\ \/ pending' = "none" /\ autoArmed' = autoArmed
               \/ UsageFrom("none", autoArmed)
        BY <1>1, <1>2, <3>2, CompactDone
      <3>4. pending' \in {"none", "auto", "manual"} /\ autoArmed' \in BOOLEAN
        <4>1. autoArmed \in BOOLEAN
          BY <1>1 DEF TypeInv
        <4> QED BY <3>3, <4>1, UsageTypes
      <3> QED BY <1>1, <3>3, <3>4 DEF TypeInv, Grown
    <2> QED BY <2>1, <2>2
  <1>4. /\ CacheAgrees' /\ EndCached'
        /\ cache' # Absent => cache'.len \in 1..Len(log') /\ GoodView(cache'.view)
    BY <1>2, <1>3, CacheWritten
  <1>5. TypeInv'
    BY <1>1, <1>2, <1>3, <1>4 DEF TypeInv, Phase
  <1>6. StreamClean'
    BY <1>2 DEF StreamClean
  <1> QED BY <1>3, <1>4, <1>5, <1>6 DEF Inv

(* A compaction between turns.                                               *)
LEMMA IdleCompactKeeps ==
    ASSUME Inv, IdleCompact PROVE Inv'
  <1>1. TypeInv /\ Faithful /\ CacheAgrees /\ EndCached
    BY DEF Inv
  <1>2. /\ phase = "idle" /\ Compact("manual", pending) /\ UNCHANGED <<phase, todo, lives, offRecord>>
        /\ IF log' # log THEN WriteViewCache ELSE UNCHANGED cache
    BY DEF IdleCompact
  <1>3. /\ \/ log' = log /\ view' = view
           \/ Grown(log, log') /\ log'[Len(log')].type = "compaction"
        /\ GoodView(view') /\ Faithful'
        /\ \/ pending' = pending /\ autoArmed' = autoArmed
           \/ UsageFrom(pending, autoArmed)
    BY <1>1, <1>2, CompactDone
  <1>4. pending' \in {"none", "auto", "manual"} /\ autoArmed' \in BOOLEAN
    <2>1. autoArmed \in BOOLEAN /\ pending \in {"none", "auto", "manual"}
      BY <1>1 DEF TypeInv
    <2> QED BY <1>3, <2>1, UsageTypes
  <1>5. log' \in Seq(RecordSet) /\ log' # <<>>
    BY <1>1, <1>3 DEF TypeInv, Grown
  <1>6. /\ CacheAgrees' /\ EndCached'
        /\ cache' # Absent => cache'.len \in 1..Len(log') /\ GoodView(cache'.view)
    <2>1. CASE log' # log
      BY <1>2, <1>3, <1>5, <2>1, CacheWritten
    <2>2. CASE log' = log
      <3>1. view' = view /\ cache' = cache
        BY <1>2, <1>3, <2>2 DEF Grown
      <3> QED BY <1>1, <2>2, <3>1 DEF TypeInv, CacheAgrees, EndCached
    <2> QED BY <2>1, <2>2
  <1>7. TypeInv'
    BY <1>1, <1>2, <1>3, <1>4, <1>5, <1>6 DEF TypeInv
  <1>8. StreamClean'
    BY <1>2 DEF StreamClean
  <1> QED BY <1>3, <1>6, <1>7, <1>8 DEF Inv

(* A record between turns, or the end of the session.                        *)
LEMMA IdleWriteKeeps ==
    ASSUME Inv, IdleWrite \/ EndSession PROVE Inv'
  <1>1. TypeInv /\ Faithful
    BY DEF Inv
  <1>2. PICK type \in {"other", "end"} :
            /\ log' = Append(log, Record(type)) /\ view' = view /\ WriteViewCache
            /\ phase' \in {"idle", "away"}
            /\ UNCHANGED <<todo, pending, autoArmed, lives, offRecord>>
    BY RecordTypesAre DEF IdleWrite, EndSession, SameUsage
  <1>3. Grown(log, log') /\ log'[Len(log')].type = type /\ Follows
    BY <1>1, <1>2, OtherWritten
  <1>4. log' \in Seq(RecordSet) /\ log' # <<>> /\ GoodView(view')
    BY <1>1, <1>2, <1>3 DEF TypeInv, Grown
  <1>5. /\ CacheAgrees' /\ EndCached'
        /\ cache' # Absent => cache'.len \in 1..Len(log') /\ GoodView(cache'.view)
    BY <1>2, <1>4, CacheWritten
  <1>6. TypeInv'
    BY <1>1, <1>2, <1>4, <1>5 DEF TypeInv, Phase
  <1>7. Faithful'
    BY <1>1, <1>2, <1>3, FaithKept
  <1>8. StreamClean'
    BY <1>2 DEF StreamClean
  <1> QED BY <1>5, <1>6, <1>7, <1>8 DEF Inv

(* The process dies between two handlers.                                    *)
LEMMA CrashKeeps ==
    ASSUME Inv, Crash PROVE Inv'
  <1>1. TypeInv /\ Faithful /\ CacheAgrees /\ EndCached
    BY DEF Inv
  <1>2. /\ log' = log \/ log' = Append(log, Other)
        /\ phase' = "away" /\ todo' = <<>> /\ view' = view
        /\ UNCHANGED <<cache, pending, autoArmed, lives, offRecord>>
    BY DEF Crash, SameUsage
  <1>3. /\ log' \in Seq(RecordSet) /\ log' # <<>> /\ Faithful' /\ CacheAgrees' /\ EndCached'
        /\ cache' # Absent => cache'.len \in 1..Len(log') /\ GoodView(cache'.view)
    <2>1. CASE log' = log
      BY <1>1, <1>2, <2>1 DEF TypeInv, Faithful, CacheAgrees, EndCached
    <2>2. CASE log' = Append(log, Other)
      <3>1. log' = Append(log, Record("other")) /\ view'.messages = view.messages
        BY <1>2, <2>2, RecordTypesAre
      <3>2. Grown(log, log') /\ log'[Len(log')].type = "other" /\ Follows
        BY <1>1, <3>1, OtherWritten
      <3>3. Faithful'
        BY <1>1, <1>2, <3>2, FaithKept
      <3>4. /\ CacheAgrees' /\ EndCached'
            /\ cache' # Absent => cache'.len \in 1..Len(log') /\ GoodView(cache'.view)
        BY <1>1, <1>2, <3>2, CacheKept
      <3> QED BY <3>2, <3>3, <3>4 DEF Grown
    <2> QED BY <1>2, <2>1, <2>2
  <1>4. todo' \in Seq(Nat)
    BY <1>2, EmptySeq
  <1>5. TypeInv'
    BY <1>1, <1>2, <1>3, <1>4 DEF TypeInv, Phase
  <1>6. StreamClean'
    BY <1>2 DEF StreamClean
  <1> QED BY <1>3, <1>5, <1>6 DEF Inv

(* It dies while an answer is written.                                       *)
LEMMA CrashAnsweringKeeps ==
    ASSUME Inv, NEW answered \in BOOLEAN, NEW calls \in 0..MaxCalls,
           CrashAnswering(answered, calls)
    PROVE  Inv'
  <1>1. TypeInv /\ calls \in Nat
    BY HistoryAssumption DEF Inv
  <1>2. /\ phase = "streaming" /\ phase' = "away" /\ offRecord' = TRUE
        /\ UNCHANGED <<todo, view, cache, pending, autoArmed, lives>>
    BY DEF CrashAnswering, SameUsage
  <1>3. PICK n \in 1..Len(AnswerRecords(answered, calls)) :
            log' = log \o SubSeq(AnswerRecords(answered, calls), 1, n)
    BY DEF CrashAnswering
  <1>4. Grown(log, log') /\ log'[Len(log')].type # "end"
    BY <1>1, <1>3, AnswerBegun
  <1>5. /\ CacheAgrees' /\ EndCached'
        /\ cache' # Absent => cache'.len \in 1..Len(log') /\ GoodView(cache'.view)
    BY <1>1, <1>2, <1>4, CacheKept
  <1>6. TypeInv'
    BY <1>1, <1>2, <1>4, <1>5 DEF TypeInv, Grown, Phase
  <1>7. StreamClean' /\ Faithful'
    BY <1>2 DEF StreamClean, Faithful
  <1> QED BY <1>5, <1>6, <1>7 DEF Inv

(* The sidecar is lost.                                                      *)
LEMMA LoseCacheKeeps ==
    ASSUME Inv, LoseCache PROVE Inv'
  BY DEF Inv, LoseCache, TypeInv, CacheAgrees, EndCached, StreamClean, Faithful

(* A resume.                                                                 *)
LEMMA ResumeSessionKeeps ==
    ASSUME Inv, ResumeSession PROVE Inv'
  <1>1. TypeInv /\ Faithful /\ CacheAgrees /\ EndCached
    BY DEF Inv
  <1>2. /\ phase' = "idle" /\ lives < MaxLives /\ lives' = lives + 1
        /\ UsageFrom("none", TRUE) /\ UNCHANGED <<todo, log, cache>>
    BY DEF ResumeSession
  <1>3. pending' \in {"none", "auto", "manual"} /\ autoArmed' \in BOOLEAN
    BY <1>2, UsageTypes
  <1>4. lives' \in 1..MaxLives
    BY <1>1, <1>2, HistoryAssumption DEF TypeInv
  <1>5. /\ GoodView(view') /\ CacheAgrees' /\ Faithful' /\ offRecord' \in BOOLEAN
    <2>1. CASE CacheValid
      <3>1. view' = cache.view /\ cache.view = view
        BY <1>1, <2>1 DEF ResumeSession, CacheValid, CacheAgrees
      <3>2. offRecord' = offRecord
        BY <1>1, <2>1 DEF ResumeSession, TypeInv
      <3> QED BY <1>1, <1>2, <3>1, <3>2 DEF TypeInv, CacheAgrees, Faithful
    <2>2. CASE ~CacheValid
      <3>1. view' = Replayed(log) /\ offRecord' = FALSE
        BY <2>2 DEF ResumeSession
      <3>2. GoodView(view') /\ view'.messages = Replay(log)
        BY <1>1, <3>1, ReplayedType DEF TypeInv
      <3>3. CacheAgrees'
        BY <1>2, <2>2 DEF CacheValid, CacheAgrees
      <3> QED BY <1>2, <3>1, <3>2, <3>3 DEF Faithful
    <2> QED BY <2>1, <2>2
  <1>6. TypeInv'
    BY <1>1, <1>2, <1>3, <1>4, <1>5 DEF TypeInv, Phase
  <1>7. EndCached' /\ StreamClean'
    BY <1>1, <1>2 DEF EndCached, StreamClean
  <1> QED BY <1>5, <1>6, <1>7 DEF Inv

(* Every step keeps the invariant.                                           *)
LEMMA StepKeepsInv ==
    ASSUME Inv, [Next]_vars PROVE Inv'
  <1>1. CASE UserInput
    BY <1>1, UserInputKeeps
  <1>2. CASE StreamFails
    BY <1>2, StreamFailsKeeps
  <1>3. CASE CancelTools \/ CompactCommand
    BY <1>3, CancelToolsKeeps
  <1>4. CASE PushCanceledResult
    BY <1>4, PushCanceledResultKeeps
  <1>5. CASE \E answered \in BOOLEAN : Answer(answered)
    BY <1>5, AnswerKeeps
  <1>6. CASE \E answered \in BOOLEAN : \E calls \in 1..MaxCalls : AnswerWithCalls(answered, calls)
    BY <1>6, AnswerWithCallsKeeps
  <1>7. CASE \E answered \in BOOLEAN : \E calls \in 0..MaxCalls : CrashAnswering(answered, calls)
    BY <1>7, CrashAnsweringKeeps
  <1>8. CASE \E attached \in {FALSE, Attachments} : IngestToolResult(attached)
    <2>1. PICK attached \in BOOLEAN : IngestToolResult(attached)
      BY <1>8, HistoryAssumption
    <2> QED BY <2>1, IngestToolResultKeeps
  <1>9. CASE ChecksEnd
    BY <1>9, ChecksEndKeeps
  <1>10. CASE ResolveHalt
    BY <1>10, ResolveHaltKeeps
  <1>11. CASE TurnEnd
    BY <1>11, TurnEndKeeps
  <1>12. CASE IdleCompact
    BY <1>12, IdleCompactKeeps
  <1>13. CASE IdleWrite \/ EndSession
    BY <1>13, IdleWriteKeeps
  <1>14. CASE Crash
    BY <1>14, CrashKeeps
  <1>15. CASE LoseCache
    BY <1>15, LoseCacheKeeps
  <1>16. CASE ResumeSession
    BY <1>16, ResumeSessionKeeps
  <1>17. CASE UNCHANGED vars
    BY <1>17 DEF Inv, TypeInv, CacheAgrees, EndCached, StreamClean, Faithful, vars
  <1>18. CASE Left \/ Full
    BY <1>17, <1>18 DEF Left, Full
  <1> QED BY <1>1, <1>2, <1>3, <1>4, <1>5, <1>6, <1>7, <1>8, <1>9, <1>10, <1>11, <1>12,
             <1>13, <1>14, <1>15, <1>16, <1>17, <1>18 DEF Next

(* It holds of a session that was just opened.                               *)
LEMMA InitInv ==
    ASSUME Init PROVE Inv
  <1>1. /\ phase = "idle" /\ todo = <<>> /\ log = <<Other>> /\ view = Fresh /\ cache = Absent
        /\ pending = "none" /\ autoArmed = TRUE /\ lives = 1 /\ offRecord = FALSE
    BY DEF Init
  <1>2. /\ log \in Seq(RecordSet) /\ Len(log) = 1 /\ log[1] = Record("other") /\ log # <<>>
        /\ Record("other").type = "other"
    BY <1>1, RecordTypesAre
  <1>3. Fresh \in ViewSet /\ Fresh.messages = <<>> /\ Fresh.turnMap = <<>>
    BY EmptySeq DEF Fresh, ViewSet
  <1>4. GoodView(view)
    BY <1>1, <1>3 DEF GoodView
  <1>5. Replay(log) = <<>>
    <2>1. PICK records : records = log /\ Len(records) \in Nat /\ Len(records) = 1
      BY <1>2
    <2>2. PICK s : /\ s[0] = <<>>
                   /\ \A k \in 1..Len(records) : s[k] = ReplayRecord(records, s[k - 1], k)
                   /\ Replay(records) = s[Len(records)]
      <3>1. Len(records) \in Nat
        BY <2>1
      <3> QED BY ONLY <3>1, ReplayIs
    <2>3. s[1] = ReplayRecord(records, s[1 - 1], 1) /\ 1 - 1 = 0 /\ Replay(records) = s[1]
      BY <2>1, <2>2
    <2>4. ReplayRecord(records, <<>>, 1) = <<>>
      BY <1>2, <2>1 DEF ReplayRecord
    <2> QED BY <2>1, <2>2, <2>3, <2>4
  <1>6. todo \in Seq(Nat)
    BY <1>1, EmptySeq
  <1>7. TypeInv
    <2>1. lives \in 1..MaxLives
      BY <1>1, HistoryAssumption
    <2>2. cache = Absent /\ phase \in Phase /\ phase \notin {"tools", "canceling"}
      BY <1>1 DEF Phase
    <2>3. autoArmed \in BOOLEAN /\ offRecord \in BOOLEAN /\ pending \in {"none", "auto", "manual"}
      BY <1>1
    <2> QED BY <1>2, <1>4, <1>6, <2>1, <2>2, <2>3 DEF TypeInv
  <1>8. CacheAgrees /\ EndCached /\ StreamClean
    BY <1>1 DEF CacheAgrees, EndCached, StreamClean
  <1>9. Faithful
    BY <1>1, <1>3, <1>5 DEF Faithful
  <1> QED BY <1>7, <1>8, <1>9 DEF Inv

(* The invariant holds in every state.                                       *)
LEMMA SpecInv == Spec => []Inv
  <1>1. Init => Inv
    BY InitInv
  <1>2. Inv /\ [Next]_vars => Inv'
    BY StepKeepsInv
  <1> QED BY <1>1, <1>2, PTL DEF Spec

------------------------------------------------------------------------------
(* The theorems                                                              *)

(* HC-7, resume.rs rebuild_conversation: as long as the conversation and the *)
(* transcript hold the same messages, replaying the transcript gives the     *)
(* conversation, in the middle of a batch, across compactions, crashes and   *)
(* resumes.                                                                  *)
THEOREM ReplayCorrect == Spec => []ReplayFaithful
  <1>1. ASSUME Inv PROVE ReplayFaithful
    <2>1. log \in Seq(RecordSet) /\ DOMAIN log = 1..Len(log)
      BY <1>1 DEF Inv, TypeInv
    <2> QED BY <1>1, <2>1 DEF Inv, Faithful, Clean, ReplayFaithful
  <1> QED BY <1>1, SpecInv, PTL

(* FR-5, view_cache.rs and session.rs: a cache that is loaded holds what the *)
(* conversation was when the session was last alive, also after a crash; and *)
(* after a clean end it is always loaded, unless the file is gone.           *)
THEOREM ResumeCorrect == Spec => ResumeRestoresView
  <1> DEFINE Resumed == phase = "away" /\ phase' = "idle"
                        /\ (CacheValid \/ (cache # Absent /\ Last(log).type = "end"))
  <1>1. ASSUME Inv, [Next]_vars, Resumed PROVE view' = view
    <2>1. ResumeSession
      <3>1. phase = "away" /\ phase' = "idle"
        BY <1>1
      <3> QED BY <1>1, <3>1 DEF Next, vars, UserInput, StreamFails, CancelTools, PushCanceledResult,
                Answer, AnswerWithCalls, CrashAnswering, IngestToolResult, ChecksEnd, ResolveHalt,
                CompactCommand, TurnEnd, IdleCompact, IdleWrite, EndSession, Crash, LoseCache,
                Left, Full
    <2>2. CacheValid
      BY <1>1 DEF Inv, EndCached, CacheValid, Last
    <2> QED BY <1>1, <2>1, <2>2 DEF Inv, CacheAgrees, CacheValid, ResumeSession
  <1>2. Inv /\ [Next]_vars => [Resumed => view' = view]_vars
    BY <1>1
  <1> QED BY <1>2, SpecInv, PTL DEF Spec, ResumeRestoresView

------------------------------------------------------------------------------
(* The numbers of turns, and the records messages come from                  *)

\* A number is one turn's, and the next is new.
Named(m, t, next) ==
    /\ \A i \in 1..Len(m) : t[i] < next
    /\ \A i \in 1..Len(m) : i > 1 /\ m[i].role # "user" => t[i] = t[i - 1]
    /\ \A i, j \in 1..Len(m) : i < j /\ m[j].role = "user" => t[i] # t[j]
\* A record is one message's, and among the first n.
Apart(m, n) ==
    /\ \A i \in 1..Len(m) : m[i].rec <= n
    /\ \A i, j \in 1..Len(m) : m[i].rec = m[j].rec /\ m[i].rec # 0 => i = j
\* A message of both has the same number in both.
SameNumbers(m, t, m2, t2) ==
    \A i \in 1..Len(m), j \in 1..Len(m2) :
        m[i].rec = m2[j].rec /\ m[i].rec # 0 => t[i] = t2[j]
\* A sequence with one more element.
Longer(s, e, s2) ==
    /\ Len(s) \in Nat /\ Len(s2) = Len(s) + 1 /\ s2[Len(s) + 1] = e
    /\ \A i \in 1..Len(s) : s2[i] = s[i]

(* A message is added.                                                       *)
LEMMA NamedLonger ==
    ASSUME NEW m \in Seq(MessageSet), NEW t \in Seq(Nat), Len(t) = Len(m), NEW next \in Nat,
           Named(m, t, next), NEW e \in MessageSet, NEW number \in Nat, NEW next2 \in Nat,
           NEW m2 \in Seq(MessageSet), NEW t2 \in Seq(Nat),
           Longer(m, e, m2), Longer(t, number, t2),
           \/ /\ e.role = "user" \/ Len(m) = 0
              /\ number = next /\ next2 = next + 1
           \/ /\ e.role # "user" /\ Len(m) > 0
              /\ number = t[Len(t)] /\ next2 = next
    PROVE  Named(m2, t2, next2)
  <1>1. PICK n \in Nat : n = Len(m) /\ Len(m2) = n + 1 /\ n = Len(t)
    BY DEF Longer
  <1>2. /\ m2[n + 1] = e /\ t2[n + 1] = number
        /\ \A i \in 1..n : m2[i] = m[i] /\ t2[i] = t[i] /\ t[i] \in Nat
    BY <1>1 DEF Longer
  <1>3. \A i \in 1..(n + 1) : i \in 1..n \/ i = n + 1
    OBVIOUS
  <1>4. \A i \in 1..n : t[i] < next
    BY <1>1 DEF Named
  <1>5. number < next2 /\ next <= next2
    <2>1. CASE number = next /\ next2 = next + 1
      BY <2>1
    <2>2. CASE e.role # "user" /\ Len(m) > 0 /\ number = t[Len(t)] /\ next2 = next
      <3>1. n \in 1..n
        BY <1>1, <2>2
      <3> QED BY <1>1, <1>4, <2>2, <3>1
    <2> QED BY <2>1, <2>2
  <1>6. ASSUME NEW i \in 1..(n + 1) PROVE t2[i] < next2
    <2>1. CASE i \in 1..n
      <3>1. t2[i] \in Nat /\ t2[i] < next
        BY <1>2, <1>4, <2>1
      <3> QED BY <1>5, <3>1
    <2>2. CASE i = n + 1
      BY <1>2, <1>5, <2>2
    <2> QED BY <1>3, <2>1, <2>2
  <1>7. ASSUME NEW i \in 1..(n + 1), i > 1, m2[i].role # "user" PROVE t2[i] = t2[i - 1]
    <2>1. CASE i \in 1..n
      <3>1. t[i] = t[i - 1]
        BY <1>1, <1>2, <1>7, <2>1 DEF Named
      <3>2. i - 1 \in 1..n
        BY <1>7, <2>1
      <3> QED BY <1>2, <2>1, <3>1, <3>2
    <2>2. CASE i = n + 1
      <3>0. n \in 1..n /\ i - 1 = n
        BY <1>7, <2>2
      <3>1. CASE number = t[Len(t)]
        BY <1>1, <1>2, <2>2, <3>0, <3>1
      <3>2. e.role # "user" /\ Len(m) > 0
        BY <1>1, <1>2, <1>7, <2>2, <3>0
      <3> QED BY <1>1, <3>1, <3>2
    <2> QED BY <1>3, <2>1, <2>2
  <1>8. ASSUME NEW i \in 1..(n + 1), NEW j \in 1..(n + 1), i < j, m2[j].role = "user"
        PROVE  t2[i] # t2[j]
    <2>1. i \in 1..n
      BY <1>8
    <2>2. CASE j \in 1..n
      <3>1. m2[j] = m[j] /\ t2[i] = t[i] /\ t2[j] = t[j]
        BY <1>2, <2>1, <2>2
      <3>2. t[i] # t[j]
        BY <1>1, <1>8, <2>1, <2>2, <3>1 DEF Named
      <3> QED BY <3>1, <3>2
    <2>3. CASE j = n + 1
      <3>1. number = next
        BY <1>2, <1>8, <2>3
      <3>2. t2[i] < next /\ t2[i] \in Nat
        BY <1>2, <1>4, <2>1
      <3> QED BY <1>2, <2>3, <3>1, <3>2
    <2> QED BY <1>3, <2>2, <2>3
  <1> QED BY <1>1, <1>6, <1>7, <1>8 DEF Named

(* It comes from a record that no other message comes from, or from none.    *)
LEMMA ApartLonger ==
    ASSUME NEW m \in Seq(MessageSet), NEW t, NEW n \in Nat, NEW n2 \in Nat, n <= n2,
           Apart(m, n), NEW e \in MessageSet, e.rec = 0 \/ (n < e.rec /\ e.rec <= n2),
           NEW m2, NEW t2, NEW number, Longer(m, e, m2), Longer(t, number, t2),
           Len(t) = Len(m)
    PROVE  Apart(m2, n2) /\ SameNumbers(m, t, m2, t2)
  <1>1. PICK l \in Nat : l = Len(m) /\ Len(m2) = l + 1 /\ l = Len(t)
    BY DEF Longer
  <1>2. /\ m2[l + 1] = e /\ \A i \in 1..l : m2[i] = m[i] /\ t2[i] = t[i]
    BY <1>1 DEF Longer
  <1>3. e.rec \in Nat /\ \A i \in 1..l : m[i].rec \in Nat /\ m[i].rec <= n
    <2>1. \A i \in 1..l : m[i] \in MessageSet
      BY <1>1
    <2> QED BY <1>1, <2>1 DEF Apart, MessageSet
  <1>4. \A i \in 1..(l + 1) : i \in 1..l \/ i = l + 1
    OBVIOUS
  <1>5. \A i \in 1..l : m[i].rec # 0 => m[i].rec # e.rec
    BY <1>3
  <1>6. ASSUME NEW i \in 1..(l + 1) PROVE m2[i].rec <= n2
    BY <1>2, <1>3, <1>4
  <1>7. ASSUME NEW i \in 1..(l + 1), NEW j \in 1..(l + 1), m2[i].rec = m2[j].rec, m2[i].rec # 0
        PROVE  i = j
    <2>1. CASE i \in 1..l /\ j \in 1..l
      BY <1>1, <1>2, <1>7, <2>1 DEF Apart
    <2>2. CASE i = l + 1 /\ j = l + 1
      BY <2>2
    <2>3. CASE i \in 1..l /\ j = l + 1
      BY <1>2, <1>5, <1>7, <2>3
    <2>4. CASE i = l + 1 /\ j \in 1..l
      BY <1>2, <1>5, <1>7, <2>4
    <2> QED BY <1>4, <2>1, <2>2, <2>3, <2>4
  <1>8. ASSUME NEW i \in 1..l, NEW j \in 1..(l + 1), m[i].rec = m2[j].rec, m[i].rec # 0
        PROVE  t[i] = t2[j]
    <2>1. j \in 1..l
      BY <1>2, <1>4, <1>5, <1>8
    <2>2. i = j
      BY <1>1, <1>2, <1>8, <2>1 DEF Apart
    <2> QED BY <1>2, <2>1, <2>2
  <1> QED BY <1>1, <1>6, <1>7, <1>8 DEF Apart, SameNumbers

(* Some messages give way to one.                                            *)
LEMMA NamedSpliced ==
    ASSUME NEW m \in Seq(MessageSet), NEW t \in Seq(Nat), Len(t) = Len(m), NEW next \in Nat,
           Named(m, t, next), NEW from \in Nat, NEW to \in Nat, from <= to, to <= Len(m),
           to < Len(m) => m[to + 1].role = "user",
           NEW x \in MessageSet, x.role = "user", NEW m2, NEW t2,
           IsSplice(MessageSet, m, from, to, x, m2), IsSplice(Nat, t, from, to, next, t2)
    PROVE  Named(m2, t2, next + 1)
  <1>1. PICK l \in Nat, l2 \in Nat :
            l = Len(m) /\ l = Len(t) /\ to <= l /\ l2 = from + 1 + (l - to) /\ l2 = Len(m2)
    BY DEF IsSplice
  <1>2. /\ m2[from + 1] = x /\ t2[from + 1] = next
        /\ \A i \in 1..from : m2[i] = m[i] /\ t2[i] = t[i]
        /\ \A i \in (from + 2)..l2 : /\ m2[i] = m[i - (from + 1) + to]
                                     /\ t2[i] = t[i - (from + 1) + to]
    BY <1>1 DEF IsSplice
  <1>3. \A i \in 1..l2 : i \in 1..from \/ i = from + 1 \/ i \in (from + 2)..l2
    OBVIOUS
  <1>4. \A i \in 1..from : i \in 1..l
    BY <1>1
  <1>5. \A i \in (from + 2)..l2 : /\ i - (from + 1) + to \in (to + 1)..l
                                  /\ i - (from + 1) + to \in 1..l
                                  /\ i - (from + 1) + to > from
    BY <1>1
  <1>6. \A i \in 1..l : t[i] < next /\ t[i] \in Nat
    BY <1>1 DEF Named
  <1>7. ASSUME NEW i \in 1..l2 PROVE t2[i] < next + 1 /\ t2[i] \in Nat /\ (i # from + 1 => t2[i] < next)
    <2>1. CASE i \in 1..from
      BY <1>2, <1>4, <1>6, <2>1
    <2>2. CASE i = from + 1
      BY <1>2, <2>2
    <2>3. CASE i \in (from + 2)..l2
      <3>1. PICK k \in 1..l : k = i - (from + 1) + to
        BY <1>5, <2>3
      <3>2. t2[i] = t[k]
        BY <1>2, <2>3, <3>1
      <3>3. t[k] < next /\ t[k] \in Nat
        BY <1>6
      <3> QED BY <3>2, <3>3
    <2> QED BY <1>3, <2>1, <2>2, <2>3
  <1>8. ASSUME NEW i \in 1..l2, i > 1, m2[i].role # "user" PROVE t2[i] = t2[i - 1]
    <2>1. CASE i \in 1..from
      <3>1. t[i] = t[i - 1]
        BY <1>1, <1>2, <1>4, <1>8, <2>1 DEF Named
      <3>2. i - 1 \in 1..from
        BY <1>8, <2>1
      <3> QED BY <1>2, <2>1, <3>1, <3>2
    <2>2. CASE i = from + 1
      BY <1>2, <1>8, <2>2
    <2>3. CASE i \in (from + 2)..l2
      <3>1. PICK k \in 1..l : k = i - (from + 1) + to /\ k \in (to + 1)..l
        BY <1>5, <2>3
      <3>2. m2[i] = m[k] /\ t2[i] = t[k]
        BY <1>2, <2>3, <3>1
      <3>3. k # to + 1
        BY <1>1, <1>8, <3>1, <3>2
      <3>4. i - 1 \in (from + 2)..l2 /\ (i - 1) - (from + 1) + to = k - 1
        BY <2>3, <3>1, <3>3
      <3>5. t2[i - 1] = t[k - 1]
        BY <1>2, <3>4
      <3>6. k > 1
        BY <3>1, <3>3
      <3>7. t[k] = t[k - 1]
        BY <1>1, <1>8, <3>2, <3>6 DEF Named
      <3> QED BY <3>2, <3>5, <3>7
    <2> QED BY <1>3, <2>1, <2>2, <2>3
  <1>9. ASSUME NEW i \in 1..l2, NEW j \in 1..l2, i < j, m2[j].role = "user"
        PROVE  t2[i] # t2[j]
    <2>1. CASE j \in 1..from
      <3>1. i \in 1..from
        BY <1>9, <2>1
      <3> QED BY <1>1, <1>2, <1>4, <1>9, <2>1, <3>1 DEF Named
    <2>2. CASE i = from + 1 \/ j = from + 1
      <3>1. t2[from + 1] = next
        BY <1>2
      <3>2. i # j
        BY <1>9
      <3> QED BY <1>7, <2>2, <3>1, <3>2
    <2>3. CASE j \in (from + 2)..l2 /\ i # from + 1
      <3>1. PICK k \in 1..l : k = j - (from + 1) + to /\ m2[j] = m[k] /\ t2[j] = t[k] /\ k > from
        BY <1>2, <1>5, <2>3
      <3>2. CASE i \in 1..from
        <4>1. i \in 1..l /\ i < k /\ t2[i] = t[i]
          BY <1>2, <1>4, <3>1, <3>2
        <4> QED BY <1>1, <1>9, <3>1, <4>1 DEF Named
      <3>3. CASE i \in (from + 2)..l2
        <4>1. PICK h \in 1..l : h = i - (from + 1) + to /\ t2[i] = t[h]
          BY <1>2, <1>5, <3>3
        <4>2. h < k
          BY <1>9, <3>1, <4>1
        <4> QED BY <1>1, <1>9, <3>1, <4>1, <4>2 DEF Named
      <3> QED BY <1>3, <2>3, <3>2, <3>3
    <2> QED BY <1>3, <2>1, <2>2, <2>3
  <1>10. \A i \in 1..l2 : t2[i] < next + 1
    BY <1>7
  <1> QED BY <1>1, <1>8, <1>9, <1>10 DEF Named

(* By one of its own record.                                                 *)
LEMMA ApartSpliced ==
    ASSUME NEW m \in Seq(MessageSet), NEW n \in Nat, Apart(m, n),
           NEW from \in Nat, NEW to \in Nat, from <= to, to <= Len(m),
           NEW x \in MessageSet, x.rec = n + 1, NEW m2, NEW t, NEW t2,
           IsSplice(MessageSet, m, from, to, x, m2)
    PROVE  /\ Apart(m2, n + 1)
           /\ Len(t) = Len(m) => \A y : IsSplice(Nat, t, from, to, y, t2) => SameNumbers(m, t, m2, t2)
  <1>1. PICK l \in Nat, l2 \in Nat :
            l = Len(m) /\ to <= l /\ l2 = from + 1 + (l - to) /\ l2 = Len(m2)
    BY DEF IsSplice
  <1>2. /\ m2[from + 1] = x
        /\ \A i \in 1..from : m2[i] = m[i]
        /\ \A i \in (from + 2)..l2 : m2[i] = m[i - (from + 1) + to]
    BY <1>1 DEF IsSplice
  <1> DEFINE Old(i) == IF i <= from THEN i ELSE i - (from + 1) + to
  <1>3. ASSUME NEW i \in 1..l2, i # from + 1
        PROVE  Old(i) \in 1..l /\ m2[i] = m[Old(i)]
    <2>1. CASE i <= from
      BY <1>1, <1>2, <2>1
    <2>2. CASE ~(i <= from)
      <3>1. i \in (from + 2)..l2
        BY <1>3, <2>2
      <3> QED BY <1>1, <1>2, <2>2, <3>1
    <2> QED BY <2>1, <2>2
  <1>4. \A i, j \in 1..l2 : i # from + 1 /\ j # from + 1 /\ Old(i) = Old(j) => i = j
    BY <1>1
  <1> HIDE DEF Old
  <1>5. \A i \in 1..l : m[i].rec \in Nat /\ m[i].rec <= n
    <2>1. \A i \in 1..l : m[i] \in MessageSet
      BY <1>1
    <2> QED BY <1>1, <2>1 DEF Apart, MessageSet
  <1>6. ASSUME NEW i \in 1..l2 PROVE m2[i].rec <= n + 1 /\ (i # from + 1 => m2[i].rec # n + 1)
    <2>1. CASE i = from + 1
      BY <1>2, <2>1
    <2>2. CASE i # from + 1
      <3>1. m2[i].rec \in Nat /\ m2[i].rec <= n
        BY <1>3, <1>5, <2>2
      <3> QED BY <2>2, <3>1
    <2> QED BY <2>1, <2>2
  <1>7. ASSUME NEW i \in 1..l2, NEW j \in 1..l2, m2[i].rec = m2[j].rec, m2[i].rec # 0
        PROVE  i = j
    <2>1. CASE i # from + 1 /\ j # from + 1
      <3>1. /\ Old(i) \in 1..l /\ m2[i] = m[Old(i)]
            /\ Old(j) \in 1..l /\ m2[j] = m[Old(j)]
        BY <1>3, <2>1
      <3>2. Old(i) = Old(j)
        BY <1>1, <1>7, <3>1 DEF Apart
      <3> QED BY <1>4, <2>1, <3>2
    <2>2. CASE i = from + 1 \/ j = from + 1
      BY <1>2, <1>6, <1>7, <2>2
    <2> QED BY <2>1, <2>2
  <1>8. ASSUME Len(t) = Len(m), NEW y, IsSplice(Nat, t, from, to, y, t2),
               NEW i \in 1..l, NEW j \in 1..l2, m[i].rec = m2[j].rec, m[i].rec # 0
        PROVE  t[i] = t2[j]
    <2>1. j # from + 1
      BY <1>2, <1>5, <1>8
    <2>2. Old(j) \in 1..l /\ m2[j] = m[Old(j)]
      BY <1>3, <2>1
    <2>3. Old(j) = i
      BY <1>1, <1>8, <2>2 DEF Apart
    <2>4. t2[j] = t[Old(j)]
      <3>1. CASE j <= from
        BY <1>8, <3>1 DEF IsSplice, Old
      <3>2. CASE ~(j <= from)
        <4>1. j \in (from + 2)..l2 /\ Len(t2) = l2
          BY <1>1, <1>8, <2>1, <3>2 DEF IsSplice
        <4> QED BY <1>8, <3>2, <4>1 DEF IsSplice, Old
      <3> QED BY <3>1, <3>2
    <2> QED BY <2>3, <2>4
  <1> QED BY <1>1, <1>6, <1>7, <1>8 DEF Apart, SameNumbers

\* A view whose numbers name turns.
TurnsNamed(v) == Named(v.messages, v.turnMap, v.nextTurn)

(* More records may come.                                                    *)
LEMMA ApartLater ==
    ASSUME NEW m \in Seq(MessageSet), NEW n \in Nat, NEW n2 \in Nat, n <= n2, Apart(m, n), NEW t
    PROVE  Apart(m, n2) /\ SameNumbers(m, t, m, t)
  <1>1. \A i \in 1..Len(m) : m[i].rec \in Nat
    <2>1. \A i \in 1..Len(m) : m[i] \in MessageSet
      OBVIOUS
    <2> QED BY <2>1 DEF MessageSet
  <1> QED BY <1>1 DEF Apart, SameNumbers

(* A push.                                                                   *)
LEMMA PushNumbers ==
    ASSUME NEW v, GoodView(v), TurnsNamed(v), NEW n \in Nat, NEW n2 \in Nat, n <= n2,
           Apart(v.messages, n), NEW e \in MessageSet, e.rec = 0 \/ (n < e.rec /\ e.rec <= n2)
    PROVE  /\ TurnsNamed(Push(v, e)) /\ Apart(Push(v, e).messages, n2)
           /\ SameNumbers(v.messages, v.turnMap, Push(v, e).messages, Push(v, e).turnMap)
           /\ Longer(v.messages, e, Push(v, e).messages)
           /\ \E number : Longer(v.turnMap, number, Push(v, e).turnMap)
  <1> DEFINE starts == v.messages = <<>> \/ e.role = "user"
             number == IF starts THEN v.nextTurn ELSE Last(v.turnMap)
             next == IF starts THEN v.nextTurn + 1 ELSE v.nextTurn
  <1>1. PICK m \in Seq(MessageSet), t \in Seq(Nat), after \in Nat :
            /\ m = v.messages /\ t = v.turnMap /\ after = v.nextTurn /\ Len(t) = Len(m)
            /\ v \in ViewSet
    BY DEF GoodView, ViewSet
  <1>2. PICK k \in Nat, after2 \in Nat :
            /\ k = number /\ after2 = next
            /\ \/ (e.role = "user" \/ Len(m) = 0) /\ k = after /\ after2 = after + 1
               \/ e.role # "user" /\ Len(m) > 0 /\ k = t[Len(t)] /\ after2 = after
    <2>1. CASE starts
      BY <1>1, <2>1
    <2>2. CASE ~starts
      <3>1. Len(t) \in 1..Len(t) /\ Len(m) > 0
        BY <1>1, <2>2
      <3> QED BY <1>1, <2>2, <3>1 DEF Last
    <2> QED BY <2>1, <2>2
  <1>3. PICK w : w = Push(v, e)
    OBVIOUS
  <1>4. w = [v EXCEPT !.messages = Append(m, e), !.turnMap = Append(t, k), !.nextTurn = after2]
    BY <1>1, <1>2, <1>3 DEF Push
  <1> HIDE DEF number, next, starts
  <1>5. PICK m2 \in Seq(MessageSet), t2 \in Seq(Nat) : m2 = Append(m, e) /\ t2 = Append(t, k)
    <2>1. Append(m, e) \in Seq(MessageSet)
      OBVIOUS
    <2>2. Append(t, k) \in Seq(Nat)
      OBVIOUS
    <2> QED BY <2>1, <2>2
  <1>6. w.messages = m2 /\ w.turnMap = t2 /\ w.nextTurn = after2
    BY <1>1, <1>4, <1>5 DEF ViewSet
  <1>7. Longer(m, e, m2) /\ Longer(t, k, t2)
    BY <1>5 DEF Longer
  <1>8. Named(m2, t2, after2)
    <2>1. Named(m, t, after) /\ Len(t) = Len(m)
      BY <1>1 DEF TurnsNamed
    <2> QED BY <1>2, <1>7, <2>1, NamedLonger
  <1>9. Apart(m2, n2) /\ SameNumbers(m, t, m2, t2)
    <2>1. Apart(m, n) /\ Len(t) = Len(m)
      BY <1>1
    <2> QED BY <1>7, <2>1, ApartLonger
  <1> QED BY <1>1, <1>3, <1>6, <1>7, <1>8, <1>9 DEF TurnsNamed

(* A compaction.                                                             *)
LEMMA CompactNumbers ==
    ASSUME GoodView(view), TurnsNamed(view), NEW n \in Nat, Apart(view.messages, n),
           NEW from \in Nat, NEW to \in Nat, from <= to, to <= Len(view.messages),
           to < Len(view.messages) => view.messages[to + 1].role = "user",
           NEW w, w = CompactedView(from, to, n + 1)
    PROVE  /\ TurnsNamed(w) /\ Apart(w.messages, n + 1)
           /\ SameNumbers(view.messages, view.turnMap, w.messages, w.turnMap)
  <1>1. PICK m \in Seq(MessageSet), t \in Seq(Nat), next \in Nat :
            /\ m = view.messages /\ t = view.turnMap /\ next = view.nextTurn /\ Len(t) = Len(m)
            /\ view \in ViewSet
    BY DEF GoodView, ViewSet
  <1>2. PICK x \in MessageSet : x = UserMessage(n + 1) /\ x.role = "user" /\ x.rec = n + 1
    <2>1. /\ UserMessage(n + 1) \in MessageSet
          /\ UserMessage(n + 1).role = "user" /\ UserMessage(n + 1).rec = n + 1
      BY DEF UserMessage, MessageSet
    <2> QED BY <2>1
  <1>3. PICK m2, t2 : m2 = Splice(m, from, to, x) /\ t2 = Splice(t, from, to, next)
    OBVIOUS
  <1>4. w = [view EXCEPT !.messages = m2, !.turnMap = t2, !.nextTurn = next + 1, !.compacted = TRUE]
    BY <1>1, <1>2, <1>3 DEF CompactedView
  <1>5. w.messages = m2 /\ w.turnMap = t2 /\ w.nextTurn = next + 1
    BY <1>1, <1>4 DEF ViewSet
  <1>6. /\ to <= Len(m) /\ to <= Len(t) /\ Named(m, t, next) /\ Apart(m, n)
        /\ to < Len(m) => m[to + 1].role = "user"
    BY <1>1 DEF TurnsNamed
  <1>7. IsSplice(MessageSet, m, from, to, x, m2)
    <2>1. IsSplice(MessageSet, m, from, to, x, Splice(m, from, to, x))
      BY <1>6, Spliced
    <2> QED BY <1>3, <2>1
  <1>8. IsSplice(Nat, t, from, to, next, t2)
    <2>1. IsSplice(Nat, t, from, to, next, Splice(t, from, to, next))
      BY <1>6, Spliced
    <2> QED BY <1>3, <2>1
  <1>9. Named(m2, t2, next + 1)
    <2>1. Len(t) = Len(m)
      BY <1>1
    <2> QED BY <1>2, <1>6, <1>7, <1>8, <2>1, NamedSpliced
  <1>10. Apart(m2, n + 1) /\ SameNumbers(m, t, m2, t2)
    <2>1. Len(t) = Len(m)
      BY <1>1
    <2> QED BY <1>2, <1>6, <1>7, <1>8, <2>1, ApartSpliced
  <1> QED BY <1>1, <1>5, <1>9, <1>10 DEF TurnsNamed

(* A record of a replay.                                                     *)
LEMMA ReplayRecordApart ==
    ASSUME NEW records \in Seq(RecordSet), NEW messages \in Seq(MessageSet),
           NEW i \in 1..Len(records), NEW n \in Nat, n + 1 = i, Apart(messages, n),
           i > 1 /\ records[i - 1].type \in {"assistant", "call"} => messages # <<>>
    PROVE  Apart(ReplayRecord(records, messages, i), i)
  <1> DEFINE r == records[i]
             after == ReplayRecord(records, messages, i)
  <1>1. r \in RecordSet /\ i \in Nat /\ n <= i /\ n < i
    OBVIOUS
  <1>2. ASSUME NEW e \in MessageSet, e.rec = i PROVE Apart(Append(messages, e), i)
    <2>1. PICK m2 : m2 = Append(messages, e)
      OBVIOUS
    <2>2. Longer(messages, e, m2)
      BY <2>1 DEF Longer
    <2>3. e.rec = 0 \/ (n < e.rec /\ e.rec <= i)
      BY <1>1, <1>2
    <2>4. Apart(m2, i)
      BY <1>1, <2>2, <2>3, ApartLonger
    <2> QED BY <2>1, <2>4
  <1>3. CASE r.type = "user"
    <2>1. after = Append(messages, UserMessage(i)) /\ UserMessage(i) \in MessageSet
          /\ UserMessage(i).rec = i
      BY <1>1, <1>3 DEF ReplayRecord, UserMessage, MessageSet
    <2> QED BY <1>2, <2>1
  <1>4. CASE r.type = "assistant"
    <2>1. after = Append(messages, AssistantMessage(i, {})) /\ AssistantMessage(i, {}) \in MessageSet
          /\ AssistantMessage(i, {}).rec = i
      BY <1>1, <1>4 DEF ReplayRecord, AssistantMessage, MessageSet
    <2> QED BY <1>2, <2>1
  <1>5. CASE r.type = "call"
    <2>1. CASE i > 1 /\ records[i - 1].type \in {"assistant", "call"}
      <3>1. after = [messages EXCEPT ![Len(messages)].calls = @ \cup {i}]
        BY <1>5, <2>1 DEF ReplayRecord
      <3>2. PICK last \in 1..Len(messages) : last = Len(messages)
        BY <2>1
      <3>3. PICK e \in MessageSet :
                e = [messages[last] EXCEPT !.calls = @ \cup {i}] /\ e.rec = messages[last].rec
        <4>1. messages[last] \in MessageSet
          OBVIOUS
        <4>2. messages[last].calls \cup {i} \in SUBSET Nat
          BY <1>1, <4>1 DEF MessageSet
        <4>3. /\ [messages[last] EXCEPT !.calls = messages[last].calls \cup {i}] \in MessageSet
              /\ [messages[last] EXCEPT !.calls = messages[last].calls \cup {i}].rec
                    = messages[last].rec
          BY <4>1, <4>2 DEF MessageSet
        <4> QED BY <4>3
      <3>4. /\ [messages EXCEPT ![last] = e] \in Seq(MessageSet)
            /\ Len([messages EXCEPT ![last] = e]) = Len(messages)
            /\ \A j \in 1..Len(messages) :
                  [messages EXCEPT ![last] = e][j] = IF j = last THEN e ELSE messages[j]
        BY ExceptSeq
      <3>5. after = [messages EXCEPT ![last] = e]
        BY <3>1, <3>2, <3>3
      <3> HIDE DEF after
      <3>6. /\ Len(after) = Len(messages)
            /\ \A j \in 1..Len(messages) : after[j].rec = messages[j].rec
        BY <3>3, <3>4, <3>5
      <3>7. Apart(messages, i)
        BY <1>1, ApartLater
      <3> QED BY <3>6, <3>7 DEF Apart, after
    <2>2. CASE ~(i > 1 /\ records[i - 1].type \in {"assistant", "call"})
      <3>1. after = Append(messages, AssistantMessage(i, {i}))
        BY <1>5, <2>2 DEF ReplayRecord
      <3>2. AssistantMessage(i, {i}) \in MessageSet /\ AssistantMessage(i, {i}).rec = i
        BY <1>1 DEF AssistantMessage, MessageSet
      <3> QED BY <1>2, <3>1, <3>2
    <2> QED BY <2>1, <2>2
  <1>6. CASE r.type = "result"
    <2>1. r.call \in Nat
      BY <1>1, <1>6 DEF RecordSet
    <2>2. after = Append(messages, ToolMessage(i, r.call)) /\ ToolMessage(i, r.call) \in MessageSet
          /\ ToolMessage(i, r.call).rec = i
      BY <1>1, <1>6, <2>1 DEF ReplayRecord, ToolMessage, MessageSet
    <2> QED BY <1>2, <1>6, <2>2
  <1>7. Apart(messages, i)
    BY <1>1, ApartLater
  <1>8. CASE r.type = "compaction"
    <2> DEFINE from == AtMost(r.from, Len(messages))
               to == AtMost(r.to, Len(messages))
    <2>1. r.from \in Nat /\ r.to \in Nat /\ Len(messages) \in Nat
      BY <1>1, <1>8 DEF RecordSet
    <2>2. from \in Nat /\ to \in Nat /\ to <= Len(messages)
      BY <2>1 DEF AtMost
    <2>3. after = IF from <= to THEN Splice(messages, from, to, UserMessage(i)) ELSE messages
      BY <1>8 DEF ReplayRecord
    <2>4. PICK x \in MessageSet : x = UserMessage(i) /\ x.rec = i
      <3>1. UserMessage(i) \in MessageSet /\ UserMessage(i).rec = i
        BY <1>1 DEF UserMessage, MessageSet
      <3> QED BY <3>1
    <2> HIDE DEF from, to
    <2>5. ASSUME from <= to PROVE Apart(Splice(messages, from, to, x), i)
      <3>1. PICK m2 : m2 = Splice(messages, from, to, x)
        OBVIOUS
      <3>2. IsSplice(MessageSet, messages, from, to, x, Splice(messages, from, to, x))
        BY <2>2, <2>5, Spliced
      <3>3. IsSplice(MessageSet, messages, from, to, x, m2) /\ x.rec = n + 1
        BY <2>4, <3>1, <3>2
      <3>4. Apart(m2, n + 1)
        BY <2>2, <2>5, <3>3, ApartSpliced
      <3> QED BY <3>1, <3>4
    <2> QED BY <1>7, <1>8, <2>3, <2>4, <2>5
  <1>9. CASE r.type \notin {"user", "assistant", "call", "result", "compaction"}
    BY <1>7, <1>9 DEF ReplayRecord
  <1> QED BY <1>3, <1>4, <1>5, <1>6, <1>8, <1>9

(* A replay has no two messages of one record.                               *)
LEMMA ReplayApart ==
    ASSUME NEW records \in Seq(RecordSet)
    PROVE  Apart(Replay(records), Len(records))
  <1>0. PICK n \in Nat : n = Len(records)
    OBVIOUS
  <1>1. PICK s : /\ s[0] = <<>>
                 /\ \A k \in 1..n : s[k] = ReplayRecord(records, s[k - 1], k)
                 /\ Replay(records) = s[n]
    BY <1>0, ReplayIs
  <1> DEFINE T == {k \in Nat : k <= n =>
                      /\ s[k] \in Seq(MessageSet)
                      /\ k > 0 /\ records[k].type \in {"assistant", "call"} => s[k] # <<>>
                      /\ Apart(s[k], k)}
  <1>2. 0 \in T
    <2>1. s[0] \in Seq(MessageSet) /\ Len(s[0]) = 0
      BY <1>1, EmptySeq
    <2>2. Apart(s[0], 0)
      BY <2>1 DEF Apart
    <2> QED BY <2>1, <2>2
  <1>3. \A k \in Nat : k \in T => k + 1 \in T
    <2> SUFFICES ASSUME NEW k \in Nat, k \in T, k + 1 <= n
                 PROVE  /\ s[k + 1] \in Seq(MessageSet)
                        /\ records[k + 1].type \in {"assistant", "call"} => s[k + 1] # <<>>
                        /\ Apart(s[k + 1], k + 1)
      OBVIOUS
    <2>1. PICK i \in 1..n : i = k + 1 /\ i - 1 = k
      OBVIOUS
    <2>2. /\ s[k] \in Seq(MessageSet) /\ Apart(s[k], k)
          /\ i > 1 /\ records[i - 1].type \in {"assistant", "call"} => s[k] # <<>>
      BY <2>1
    <2>3. s[i] = ReplayRecord(records, s[k], i)
      BY <1>1, <2>1
    <2>4. i \in 1..Len(records) /\ k + 1 = i
      BY <1>0, <2>1
    <2> HIDE DEF T
    <2>5. /\ ReplayRecord(records, s[k], i) \in Seq(MessageSet)
          /\ records[i].type \in {"assistant", "call"} => ReplayRecord(records, s[k], i) # <<>>
      BY <2>2, <2>4, ReplayRecordType
    <2>6. Apart(ReplayRecord(records, s[k], i), i)
      BY <2>2, <2>4, ReplayRecordApart
    <2> QED BY <2>1, <2>3, <2>5, <2>6
  <1> HIDE DEF T
  <1>4. n \in T
    BY <1>2, <1>3, Climb
  <1> QED BY <1>0, <1>1, <1>4 DEF T

(* The numbers a replay gives name turns.                                    *)
LEMMA ReplayedNumbers ==
    ASSUME NEW records \in Seq(RecordSet)
    PROVE  TurnsNamed(Replayed(records))
  <1>1. PICK m \in Seq(MessageSet), n \in Nat : m = Replay(records) /\ n = Len(m)
    <2>1. Replay(records) \in Seq(MessageSet)
      BY ReplayType
    <2>2. Len(Replay(records)) \in Nat
      BY <2>1
    <2> QED BY <2>1, <2>2
  <1> DEFINE users(i) == {j \in 2..i : m[j].role = "user"}
             numbers == [i \in 1..n |-> Cardinality(users(i))]
             next == IF m = <<>> THEN 0 ELSE Last(numbers) + 1
  <1>2. BuildTurnMap(m) = numbers /\ Len(numbers) = n
    BY <1>1 DEF BuildTurnMap
  <1>3. /\ Replayed(records).messages = m /\ Replayed(records).turnMap = numbers
        /\ Replayed(records).nextTurn = next
    BY <1>1, <1>2 DEF Replayed
  <1>4. \A i \in 1..n : /\ IsFiniteSet(users(i)) /\ Cardinality(users(i)) \in Nat
                        /\ numbers[i] = Cardinality(users(i))
    <2> SUFFICES ASSUME NEW i \in 1..n
                 PROVE  IsFiniteSet(users(i)) /\ Cardinality(users(i)) \in Nat
      OBVIOUS
    <2>1. IsFiniteSet(2..i)
      BY FS_Interval
    <2> QED BY <2>1, FS_Subset, FS_CardinalityType
  <1>5. \A i, j \in 1..n : i <= j =>
            /\ Cardinality(users(i)) <= Cardinality(users(j))
            /\ Cardinality(users(i)) = Cardinality(users(j)) => users(i) = users(j)
    <2> SUFFICES ASSUME NEW i \in 1..n, NEW j \in 1..n, i <= j
                 PROVE  /\ Cardinality(users(i)) <= Cardinality(users(j))
                        /\ Cardinality(users(i)) = Cardinality(users(j)) => users(i) = users(j)
      OBVIOUS
    <2>1. users(i) \in SUBSET users(j) /\ IsFiniteSet(users(j))
      BY <1>4
    <2> HIDE DEF users
    <2> QED BY <2>1, FS_Subset
  <1>6. ASSUME NEW i \in 1..n PROVE numbers[i] < next
    <2>1. m # <<>> /\ n \in 1..n /\ i <= n
      BY <1>1
    <2>2. next = numbers[n] + 1
      BY <1>2, <2>1 DEF Last
    <2>3. numbers[i] <= numbers[n] /\ numbers[i] \in Nat /\ numbers[n] \in Nat
      BY <1>4, <1>5, <2>1
    <2> QED BY <2>2, <2>3
  <1>7. ASSUME NEW i \in 1..n, i > 1, m[i].role # "user" PROVE numbers[i] = numbers[i - 1]
    <2>1. i - 1 \in 1..n
      BY <1>7
    <2>2. users(i) = users(i - 1)
      <3>1. \A j \in 2..i : j \in 2..(i - 1) \/ j = i
        OBVIOUS
      <3>2. \A j \in 2..(i - 1) : j \in 2..i
        OBVIOUS
      <3> QED BY <1>7, <3>1, <3>2
    <2> QED BY <1>4, <2>1, <2>2
  <1>8. ASSUME NEW i \in 1..n, NEW j \in 1..n, i < j, m[j].role = "user"
        PROVE  numbers[i] # numbers[j]
    <2>1. j \in users(j) /\ j \notin users(i) /\ i <= j
      BY <1>8
    <2> HIDE DEF users
    <2>2. Cardinality(users(i)) # Cardinality(users(j))
      BY <1>5, <2>1
    <2> QED BY <1>4, <2>2
  <1> HIDE DEF numbers, next
  <1>9. Named(m, numbers, next)
    BY <1>1, <1>6, <1>7, <1>8 DEF Named
  <1> QED BY <1>3, <1>9 DEF TurnsNamed

------------------------------------------------------------------------------
(* Numbers name turns, and stay                                              *)

\* The numbers name turns, and every record is one message's.
Numbered == TurnsNamed(view) /\ Apart(view.messages, Len(log))
\* They still do, and the messages that stay keep theirs, save for a resume.
NumberedStill ==
    /\ Numbered'
    /\ phase = "away" \/ SameNumbers(view.messages, view.turnMap, view'.messages, view'.turnMap)

(* The conversation stays.                                                   *)
LEMMA ViewStays ==
    ASSUME TypeInv, Numbered, view' = view, log' = log \/ Grown(log, log')
    PROVE  NumberedStill
  <1>1. PICK n \in Nat, n2 \in Nat : n = Len(log) /\ n2 = Len(log') /\ n <= n2
    <2>1. Len(log) \in Nat /\ Len(log') \in Nat /\ Len(log) <= Len(log')
      BY DEF TypeInv, Grown
    <2> QED BY <2>1
  <1>2. view.messages \in Seq(MessageSet) /\ Apart(view.messages, n)
    BY <1>1 DEF TypeInv, GoodView, ViewSet, Numbered
  <1>3. Apart(view.messages, n2) /\ SameNumbers(view.messages, view.turnMap, view.messages, view.turnMap)
    BY <1>1, <1>2, ApartLater
  <1> QED BY <1>1, <1>3 DEF Numbered, NumberedStill

(* A message of a new record, or of none, is pushed.                         *)
LEMMA PushStays ==
    ASSUME TypeInv, Numbered, log' = log \/ Grown(log, log'), NEW e \in MessageSet,
           e.rec = 0 \/ (Len(log) < e.rec /\ e.rec <= Len(log')),
           view'.messages = Push(view, e).messages, view'.turnMap = Push(view, e).turnMap,
           view'.nextTurn = Push(view, e).nextTurn
    PROVE  NumberedStill
  <1>1. PICK n \in Nat, n2 \in Nat : n = Len(log) /\ n2 = Len(log') /\ n <= n2
    <2>1. Len(log) \in Nat /\ Len(log') \in Nat /\ Len(log) <= Len(log')
      BY DEF TypeInv, Grown
    <2> QED BY <2>1
  <1>2. GoodView(view) /\ TurnsNamed(view) /\ Apart(view.messages, n)
    BY <1>1 DEF TypeInv, Numbered
  <1>3. e.rec = 0 \/ (n < e.rec /\ e.rec <= n2)
    BY <1>1
  <1>4. /\ TurnsNamed(Push(view, e)) /\ Apart(Push(view, e).messages, n2)
        /\ SameNumbers(view.messages, view.turnMap, Push(view, e).messages, Push(view, e).turnMap)
    BY ONLY <1>1, <1>2, <1>3, e \in MessageSet, PushNumbers
  <1> QED BY <1>1, <1>4 DEF Numbered, NumberedStill, TurnsNamed

(* A user's message.                                                         *)
LEMMA UserStays ==
    ASSUME TypeInv, Numbered, NEW before \in {<<>>, <<Other>>}, PushUser(before)
    PROVE  NumberedStill
  <1>1. Len(log) \in Nat /\ Len(before) \in Nat /\ GoodView(view)
    BY DEF TypeInv
  <1>2. Grown(log, log') /\ Len(log) + Len(before) + 1 <= Len(log')
    BY UserPushed
  <1>3. PICK e \in MessageSet : e = UserMessage(Len(log) + Len(before) + 1)
                                /\ e.rec = Len(log) + Len(before) + 1
    <2>1. PICK k \in Nat : k = Len(log) + Len(before) + 1
      BY <1>1
    <2>2. UserMessage(k) \in MessageSet /\ UserMessage(k).rec = k
      BY DEF UserMessage, MessageSet
    <2> QED BY <2>1, <2>2
  <1>4. PICK w : w = Push(view, e)
    OBVIOUS
  <1>5. view' = [w EXCEPT !.taskRecorded = TRUE]
    BY <1>3, <1>4 DEF PushUser
  <1>6. w \in ViewSet
    BY <1>1, <1>4, PushView DEF GoodView
  <1>7. /\ view'.messages = w.messages /\ view'.turnMap = w.turnMap
        /\ view'.nextTurn = w.nextTurn
    BY <1>5, <1>6 DEF ViewSet
  <1>8. Len(log) < e.rec /\ e.rec <= Len(log')
    BY <1>1, <1>2, <1>3
  <1> QED BY <1>2, <1>4, <1>7, <1>8, PushStays

(* An answer.                                                                *)
LEMMA AnswerStays ==
    ASSUME TypeInv, Numbered, log[Len(log)].type \notin {"assistant", "call"},
           NEW answered \in BOOLEAN, NEW calls \in Nat, answered \/ calls > 0,
           PushAnswer(answered, calls)
    PROVE  NumberedStill
  <1>1. Len(log) \in Nat
    BY DEF TypeInv
  <1>2. Grown(log, log')
    BY AnswerPushed
  <1>3. PICK e \in MessageSet : /\ e = AssistantMessage(Len(log) + 1, CallRecords(answered, calls))
                                /\ e.rec = Len(log) + 1
    <2>1. CallRecords(answered, calls) \in SUBSET Nat
      BY <1>1 DEF CallRecords, CallsFrom
    <2>2. /\ AssistantMessage(Len(log) + 1, CallRecords(answered, calls)) \in MessageSet
          /\ AssistantMessage(Len(log) + 1, CallRecords(answered, calls)).rec = Len(log) + 1
      BY <1>1, <2>1 DEF AssistantMessage, MessageSet
    <2> QED BY <2>2
  <1>4. view' = Push(view, e)
    BY <1>3 DEF PushAnswer
  <1>5. Len(log) < e.rec /\ e.rec <= Len(log')
    BY <1>1, <1>2, <1>3 DEF Grown
  <1> QED BY <1>2, <1>4, <1>5, PushStays

(* A result, and an image after it.                                          *)
LEMMA ResultStays ==
    ASSUME TypeInv, Numbered, NEW call \in Nat, log' = Append(log, Result(call)),
           NEW pushed, pushed = Push(view, ToolMessage(Len(log) + 1, call)),
           view' = pushed \/ view' = Push(pushed, Synthetic)
    PROVE  NumberedStill
  <1>1. PICK n \in Nat : n = Len(log)
    BY DEF TypeInv
  <1>2. Grown(log, log') /\ GoodView(pushed)
    BY ResultPushed
  <1>3. PICK e \in MessageSet : e = ToolMessage(Len(log) + 1, call) /\ e.rec = n + 1
    <2>1. ToolMessage(n + 1, call) \in MessageSet /\ ToolMessage(n + 1, call).rec = n + 1
      BY DEF ToolMessage, MessageSet
    <2> QED BY <1>1, <2>1
  <1>4. PICK n2 \in Nat : n2 = Len(log') /\ n < n2 /\ n <= n2
    <2>1. Len(log') \in Nat /\ n < Len(log')
      BY <1>1, <1>2 DEF Grown
    <2> QED BY <2>1
  <1>5. /\ GoodView(view) /\ TurnsNamed(view) /\ Apart(view.messages, n)
        /\ (e.rec = 0 \/ (n < e.rec /\ e.rec <= n2))
    BY <1>1, <1>3, <1>4 DEF TypeInv, Numbered
  <1>6. /\ TurnsNamed(Push(view, e)) /\ Apart(Push(view, e).messages, n2)
        /\ SameNumbers(view.messages, view.turnMap, Push(view, e).messages, Push(view, e).turnMap)
    BY ONLY <1>4, <1>5, e \in MessageSet, n \in Nat, PushNumbers
  <1>7. /\ TurnsNamed(pushed) /\ Apart(pushed.messages, n2)
        /\ SameNumbers(view.messages, view.turnMap, pushed.messages, pushed.turnMap)
    BY <1>3, <1>6
  <1>8. CASE view' = pushed
    BY <1>4, <1>7, <1>8 DEF Numbered, NumberedStill
  <1>9. CASE view' = Push(pushed, Synthetic)
    <2>1. PICK x \in MessageSet : x = Synthetic /\ x.rec = 0
      <3>1. Synthetic \in MessageSet /\ Synthetic.rec = 0
        BY MessageTypes DEF Synthetic, UserMessage
      <3> QED BY <3>1
    <2>2. n2 <= n2 /\ (x.rec = 0 \/ (n2 < x.rec /\ x.rec <= n2))
      BY <2>1
    <2>3. /\ TurnsNamed(Push(pushed, x)) /\ Apart(Push(pushed, x).messages, n2)
          /\ Longer(pushed.messages, x, Push(pushed, x).messages)
          /\ \E number : Longer(pushed.turnMap, number, Push(pushed, x).turnMap)
      BY ONLY <1>2, <1>7, <2>2, x \in MessageSet, n2 \in Nat, PushNumbers
    <2>4. PICK number : /\ Longer(pushed.messages, x, view'.messages)
                        /\ Longer(pushed.turnMap, number, view'.turnMap)
      BY <1>9, <2>1, <2>3
    <2>5. SameNumbers(view.messages, view.turnMap, view'.messages, view'.turnMap)
      <3>1. \A j \in 1..Len(view'.messages) :
                j \in 1..Len(pushed.messages) \/ view'.messages[j] = x
        BY <2>4 DEF Longer
      <3>2. \A j \in 1..Len(pushed.messages) : /\ view'.messages[j] = pushed.messages[j]
                                               /\ view'.turnMap[j] = pushed.turnMap[j]
        BY <1>2, <2>4 DEF Longer, GoodView
      <3>3. ASSUME NEW i \in 1..Len(view.messages), NEW j \in 1..Len(view'.messages),
                   view.messages[i].rec = view'.messages[j].rec, view.messages[i].rec # 0
            PROVE  view.turnMap[i] = view'.turnMap[j]
        <4>1. j \in 1..Len(pushed.messages)
          BY <2>1, <3>1, <3>3
        <4> QED BY <1>7, <3>2, <3>3, <4>1 DEF SameNumbers
      <3> QED BY <3>3 DEF SameNumbers
    <2> QED BY <1>4, <1>9, <2>1, <2>3, <2>5 DEF Numbered, NumberedStill
  <1> QED BY <1>8, <1>9

(* A compaction.                                                             *)
LEMMA CompactStays ==
    ASSUME TypeInv, Numbered, NEW trigger \in {"auto", "manual"}, NEW requested,
           Compact(trigger, requested)
    PROVE  NumberedStill
  <1> DEFINE from == IF view.messages = <<>> THEN 0 ELSE 1
             to == CutBefore(view.messages, from, KeepRecentTurns)
  <1>1. PICK n \in Nat : n = Len(log) /\ GoodView(view) /\ TurnsNamed(view)
                         /\ Apart(view.messages, n) /\ log \in Seq(RecordSet)
    BY DEF TypeInv, Numbered
  <1>2. PICK vm \in Seq(MessageSet) : vm = view.messages
    BY <1>1 DEF GoodView, ViewSet
  <1>3. from \in Nat /\ from <= Len(vm) /\ Len(vm) \in Nat
    BY <1>2
  <1> HIDE DEF from
  <1>4. /\ to \in from..Len(vm)
        /\ to > from => to = Len(vm) \/ vm[to + 1].role = "user"
    <2>1. KeepRecentTurns \in Nat
      BY HistoryAssumption
    <2>2. /\ CutBefore(vm, from, KeepRecentTurns) \in from..Len(vm)
          /\ CutBefore(vm, from, KeepRecentTurns) > from =>
                \/ CutBefore(vm, from, KeepRecentTurns) = Len(vm)
                \/ vm[CutBefore(vm, from, KeepRecentTurns) + 1].role = "user"
      BY <1>3, <2>1, CutIsTurn
    <2> QED BY <1>2, <2>2
  <1> HIDE DEF to
  <1>5. \/ log' = log /\ view' = view
        \/ /\ ~(to <= from) /\ log' = Append(log, Compaction(from, to, trigger))
           /\ view' = CompactedView(from, to, n + 1)
    BY <1>1 DEF Compact, from, to
  <1>6. CASE log' = log /\ view' = view
    BY <1>6, ViewStays
  <1>7. CASE /\ ~(to <= from) /\ log' = Append(log, Compaction(from, to, trigger))
             /\ view' = CompactedView(from, to, n + 1)
    <2>1. /\ to \in Nat /\ from <= to /\ to <= Len(view.messages)
          /\ to < Len(view.messages) => view.messages[to + 1].role = "user"
      BY <1>2, <1>3, <1>4, <1>7
    <2>2. PICK w : w = view'
      OBVIOUS
    <2>3. w = CompactedView(from, to, n + 1)
      BY <1>7, <2>2
    <2>4. /\ TurnsNamed(w) /\ Apart(w.messages, n + 1)
          /\ SameNumbers(view.messages, view.turnMap, w.messages, w.turnMap)
      BY <1>1, <1>3, <2>1, <2>3, CompactNumbers
    <2>5. Len(log') = n + 1
      BY <1>1, <1>7
    <2> QED BY <2>2, <2>4, <2>5 DEF Numbered, NumberedStill
  <1> QED BY <1>5, <1>6, <1>7

(* A resume.                                                                 *)
LEMMA ResumeStays ==
    ASSUME Inv, Numbered, ResumeSession PROVE NumberedStill
  <1>1. TypeInv /\ CacheAgrees /\ phase = "away" /\ log' = log
    BY DEF Inv, ResumeSession
  <1>2. CASE CacheValid
    <2>1. view' = view
      BY <1>1, <1>2 DEF ResumeSession, CacheValid, CacheAgrees
    <2> QED BY <1>1, <2>1, ViewStays
  <1>3. CASE ~CacheValid
    <2>1. view' = Replayed(log)
      BY <1>3 DEF ResumeSession
    <2>2. log \in Seq(RecordSet)
      BY <1>1 DEF TypeInv
    <2>3. /\ TurnsNamed(Replayed(log)) /\ Apart(Replay(log), Len(log))
          /\ Replayed(log).messages = Replay(log)
      BY <2>2, ReplayedNumbers, ReplayApart, ReplayedType
    <2> QED BY <1>1, <2>1, <2>3 DEF Numbered, NumberedStill
  <1> QED BY <1>2, <1>3

(* Every step keeps the numbers.                                             *)
LEMMA StepKeepsNumbers ==
    ASSUME Inv, Numbered, [Next]_vars PROVE NumberedStill
  <1>0. /\ TypeInv /\ StreamClean /\ log \in Seq(RecordSet) /\ log # <<>>
    BY DEF Inv, TypeInv
  <1>1. ASSUME log' = Append(log, Other), view' = view PROVE NumberedStill
    <2>1. Other \in RecordSet
      BY RecordTypesAre
    <2>2. Grown(log, log')
      BY <1>0, <1>1, <2>1, GrownByOne
    <2> QED BY <1>0, <1>1, <2>2, ViewStays
  <1>2. ASSUME log' = log, view' = view PROVE NumberedStill
    BY <1>0, <1>2, ViewStays
  <1>3. CASE UserInput
    BY <1>0, <1>3, UserStays DEF UserInput
  <1>4. CASE StreamFails
    BY <1>1, <1>4 DEF StreamFails
  <1>5. CASE CancelTools \/ CompactCommand \/ LoseCache \/ Left \/ Full \/ UNCHANGED vars
    BY <1>2, <1>5 DEF CancelTools, CompactCommand, LoseCache, Left, Full, vars
  <1>6. CASE PushCanceledResult
    <2>1. Head(todo) \in Nat
      BY <1>0, <1>6 DEF TypeInv, PushCanceledResult
    <2>2. /\ log' = Append(log, Result(Head(todo)))
          /\ view' = Push(view, ToolMessage(Len(log) + 1, Head(todo)))
      BY <1>6 DEF PushCanceledResult
    <2> QED BY <1>0, <2>1, <2>2, ResultStays
  <1>7. CASE \E answered \in BOOLEAN : Answer(answered)
    <2>1. PICK answered \in BOOLEAN : Answer(answered)
      BY <1>7
    <2>2. log[Len(log)].type \notin {"assistant", "call"}
      BY <1>0, <2>1 DEF Answer, StreamClean
    <2>3. CASE PushAnswer(answered, 0) /\ answered
      <3>1. PICK n \in Nat : n = 0
        OBVIOUS
      <3>2. PushAnswer(answered, n) /\ (answered \/ n > 0)
        BY <2>3, <3>1
      <3> QED BY <1>0, <2>2, <3>2, AnswerStays
    <2>4. CASE PushAnswer(answered, 0) /\ ~answered
      <3>1. AnswerRecords(answered, 0) = <<>>
        BY <2>4 DEF AnswerRecords
      <3>2. log' = log /\ view' = view
        BY <1>0, <2>4, <3>1 DEF PushAnswer
      <3> QED BY <1>2, <3>2
    <2>5. CASE RecordReasoning
      <3>1. log' = Append(log, Record("assistant")) /\ view' = view
        BY <2>5 DEF RecordReasoning
      <3>2. Grown(log, log')
        BY <1>0, <3>1, RecordTypesAre, GrownByOne
      <3> QED BY <1>0, <3>1, <3>2, ViewStays
    <2> QED BY <2>1, <2>3, <2>4, <2>5 DEF Answer
  <1>8. CASE \E answered \in BOOLEAN : \E calls \in 1..MaxCalls : AnswerWithCalls(answered, calls)
    <2>1. PICK answered \in BOOLEAN, calls \in 1..MaxCalls : AnswerWithCalls(answered, calls)
      BY <1>8
    <2>2. /\ log[Len(log)].type \notin {"assistant", "call"} /\ PushAnswer(answered, calls)
          /\ calls \in Nat /\ calls > 0
      BY <1>0, <2>1, HistoryAssumption DEF AnswerWithCalls, StreamClean
    <2> QED BY <1>0, <2>2, AnswerStays
  <1>9. CASE \E answered \in BOOLEAN : \E calls \in 0..MaxCalls : CrashAnswering(answered, calls)
    <2>1. PICK answered \in BOOLEAN, calls \in 0..MaxCalls : CrashAnswering(answered, calls)
      BY <1>9
    <2>2. calls \in Nat /\ view' = view
      BY <2>1, HistoryAssumption DEF CrashAnswering
    <2>3. PICK n \in 1..Len(AnswerRecords(answered, calls)) :
              log' = log \o SubSeq(AnswerRecords(answered, calls), 1, n)
      BY <2>1 DEF CrashAnswering
    <2>4. Grown(log, log')
      BY <1>0, <2>2, <2>3, AnswerBegun
    <2> QED BY <1>0, <2>2, <2>4, ViewStays
  <1>10. CASE \E attached \in {FALSE, Attachments} : IngestToolResult(attached)
    <2>1. PICK attached \in {FALSE, Attachments} : IngestToolResult(attached)
      BY <1>10
    <2>2. Head(todo) \in Nat
      BY <1>0, <2>1 DEF TypeInv, IngestToolResult
    <2>3. PICK pushed : pushed = Push(view, ToolMessage(Len(log) + 1, Head(todo)))
      OBVIOUS
    <2>4. /\ log' = Append(log, Result(Head(todo)))
          /\ view' = pushed \/ view' = Push(pushed, Synthetic)
      BY <2>1, <2>3 DEF IngestToolResult
    <2> QED BY <1>0, <2>2, <2>3, <2>4, ResultStays
  <1>11. CASE ChecksEnd
    <2>1. CASE view' = view
      BY <1>1, <1>11, <2>1 DEF ChecksEnd
    <2>2. CASE view' = Push(view, Synthetic)
      <3>1. PICK e \in MessageSet : e = Synthetic /\ e.rec = 0
        <4>1. Synthetic \in MessageSet /\ Synthetic.rec = 0
          BY MessageTypes DEF Synthetic, UserMessage
        <4> QED BY <4>1
      <3>2. Grown(log, log')
        BY <1>0, <1>11, RecordTypesAre, GrownByOne DEF ChecksEnd
      <3>3. /\ view'.messages = Push(view, e).messages /\ view'.turnMap = Push(view, e).turnMap
            /\ view'.nextTurn = Push(view, e).nextTurn
        BY <2>2, <3>1
      <3> QED BY <1>0, <3>1, <3>2, <3>3, PushStays
    <2> QED BY <1>11, <2>1, <2>2 DEF ChecksEnd
  <1>12. CASE ResolveHalt
    <2>1. CASE log' = Append(log, Other) /\ view' = view
      BY <1>1, <2>1
    <2>2. CASE PushUser(<<Other>>)
      BY <1>0, <2>2, UserStays
    <2> QED BY <1>12, <2>1, <2>2 DEF ResolveHalt
  <1>13. CASE TurnEnd
    <2>1. CASE pending = "none"
      BY <1>2, <1>13, <2>1 DEF TurnEnd
    <2>2. CASE pending # "none"
      <3>1. pending \in {"auto", "manual"} /\ Compact(pending, "none")
        BY <1>0, <1>13, <2>2 DEF TurnEnd, TypeInv
      <3> QED BY <1>0, <3>1, CompactStays
    <2> QED BY <2>1, <2>2
  <1>14. CASE IdleCompact
    BY <1>0, <1>14, CompactStays DEF IdleCompact
  <1>15. CASE IdleWrite \/ EndSession
    <2>1. PICK type \in {"other", "end"} : log' = Append(log, Record(type)) /\ view' = view
      BY <1>15, RecordTypesAre DEF IdleWrite, EndSession
    <2>2. Grown(log, log')
      BY <1>0, <2>1, RecordTypesAre, GrownByOne
    <2> QED BY <1>0, <2>1, <2>2, ViewStays
  <1>16. CASE Crash
    BY <1>1, <1>2, <1>16 DEF Crash
  <1>17. CASE ResumeSession
    BY <1>17, ResumeStays
  <1> QED BY <1>3, <1>4, <1>5, <1>6, <1>7, <1>8, <1>9, <1>10, <1>11, <1>12, <1>13, <1>14,
             <1>15, <1>16, <1>17 DEF Next

(* A compaction the user asked for stays asked for, or is done as the user's.*)
LEMMA StepKeepsManual ==
    ASSUME Inv, [Next]_vars, pending = "manual", phase # "away", phase' # "away"
    PROVE  \/ pending' = "manual"
           \/ phase = "ending" /\ \A i \in (Len(log) + 1)..Len(log') :
                 log'[i].type = "compaction" /\ log'[i].trigger = "manual"
  <1>1. log \in Seq(RecordSet) /\ Len(log) \in Nat
    BY DEF Inv, TypeInv
  <1>2. ASSUME NEW armed, UsageFrom(pending, armed) PROVE pending' = "manual"
    BY <1>2 DEF UsageFrom, Request
  <1>3. CASE TurnEnd
    <2> DEFINE from == IF view.messages = <<>> THEN 0 ELSE 1
               to == CutBefore(view.messages, from, KeepRecentTurns)
    <2>1. phase = "ending" /\ Compact("manual", "none")
      BY <1>3 DEF TurnEnd
    <2>2. log' = log \/ log' = Append(log, Compaction(from, to, "manual"))
      BY <2>1 DEF Compact
    <2>3. PICK r : /\ r = Compaction(from, to, "manual")
                   /\ r.type = "compaction" /\ r.trigger = "manual"
      <3>1. /\ Compaction(from, to, "manual").type = "compaction"
            /\ Compaction(from, to, "manual").trigger = "manual"
        BY DEF Compaction
      <3> QED BY <3>1
    <2> HIDE DEF from, to
    <2>4. ASSUME NEW i \in (Len(log) + 1)..Len(log')
          PROVE  log'[i].type = "compaction" /\ log'[i].trigger = "manual"
      <3>1. CASE log' = log
        BY <1>1, <3>1
      <3>2. CASE log' = Append(log, r)
        <4>1. Len(log') = Len(log) + 1 /\ log'[Len(log) + 1] = r
          BY <1>1, <3>2
        <4>2. i = Len(log) + 1
          BY <1>1, <4>1
        <4> QED BY <2>3, <4>1, <4>2
      <3> QED BY <2>2, <2>3, <3>1, <3>2
    <2> QED BY <2>1, <2>4
  <1>4. CASE IdleCompact
    BY <1>2, <1>4 DEF IdleCompact, Compact
  <1>5. CASE UserInput \/ \E answered \in BOOLEAN :
                 Answer(answered) \/ \E calls \in 1..MaxCalls : AnswerWithCalls(answered, calls)
    BY <1>2, <1>5 DEF UserInput, Answer, AnswerWithCalls, EmitContextUsage
  <1>6. CASE \E attached \in {FALSE, Attachments} : IngestToolResult(attached)
    BY <1>2, <1>6 DEF IngestToolResult, EmitContextUsage
  <1>7. CASE ChecksEnd \/ ResolveHalt
    BY <1>2, <1>7 DEF ChecksEnd, ResolveHalt, EmitContextUsage, SameUsage
  <1>8. CASE StreamFails \/ CancelTools \/ PushCanceledResult \/ CompactCommand \/ IdleWrite
    BY <1>8 DEF StreamFails, CancelTools, PushCanceledResult, CompactCommand, IdleWrite,
                SameUsage, Request
  <1>9. ~EndSession /\ ~Crash /\ ~LoseCache /\ ~ResumeSession /\ ~Left
        /\ \A answered \in BOOLEAN : \A calls \in 0..MaxCalls : ~CrashAnswering(answered, calls)
    BY DEF EndSession, Crash, LoseCache, ResumeSession, Left, CrashAnswering
  <1>10. CASE UNCHANGED vars \/ Full
    BY <1>10 DEF vars, Full
  <1> QED BY <1>3, <1>4, <1>5, <1>6, <1>7, <1>8, <1>9, <1>10 DEF Next

(* What has its type in the sense of the invariant has it in the module's.   *)
LEMMA TypesHold ==
    ASSUME TypeInv PROVE TypeOK
  <1>1. ASSUME NEW v, GoodView(v) PROVE IsView(v)
    <2>1. /\ v.messages \in Seq(MessageSet) /\ v.turnMap \in Seq(Nat)
          /\ Len(v.turnMap) = Len(v.messages)
          /\ v.nextTurn \in Nat /\ v.compacted \in BOOLEAN /\ v.taskRecorded \in BOOLEAN
      BY <1>1 DEF GoodView, ViewSet
    <2>2. v.turnMap \in [1..Len(v.turnMap) -> Nat] /\ DOMAIN v.messages = 1..Len(v.messages)
      BY <2>1
    <2> QED BY <2>1, <2>2 DEF IsView
  <1>2. ASSUME NEW i \in DOMAIN log PROVE log[i].type \in RecordTypes
    <2>1. log[i] \in RecordSet
      BY DEF TypeInv
    <2> QED BY <2>1 DEF RecordSet, RecordTypes
  <1> QED BY <1>1, <1>2 DEF TypeInv, TypeOK

(* A session that was just opened has no numbers.                            *)
LEMMA InitNumbers ==
    ASSUME Init PROVE Numbered
  <1>1. view.messages = <<>> /\ Len(view.messages) = 0
    BY DEF Init, Fresh
  <1> QED BY <1>1 DEF Numbered, TurnsNamed, Named, Apart

(* FR-3, FR-4, HistoryState, context.rs: through pushes, compactions and     *)
(* resumes everything has its type and a number names one turn; outside of a *)
(* resume no message that stays gets another; and a compaction the user      *)
(* asked for while a turn runs is done as the user's.                        *)
THEOREM CompactionCorrect == Spec => CompactionKeeps
  <1> DEFINE Renumber == phase = "away" \/
                 \A i \in DOMAIN view.messages, j \in DOMAIN view'.messages :
                     view.messages[i].rec = view'.messages[j].rec /\ view.messages[i].rec # 0
                         => view.turnMap[i] = view'.turnMap[j]
             Manual == pending = "manual" /\ phase # "away" /\ phase' # "away" =>
                           \/ pending' = "manual"
                           \/ phase = "ending" /\ \A i \in (Len(log) + 1)..Len(log') :
                                 log'[i].type = "compaction" /\ log'[i].trigger = "manual"
  <1>1. Init => Numbered
    BY InitNumbers
  <1>2. Inv /\ Numbered /\ [Next]_vars => Numbered'
    BY StepKeepsNumbers DEF NumberedStill
  <1>3. Inv /\ Numbered => TypeOK /\ NumbersNameTurns
    <2> SUFFICES ASSUME Inv, Numbered PROVE TypeOK /\ NumbersNameTurns
      OBVIOUS
    <2>1. view.messages \in Seq(MessageSet) /\ DOMAIN view.messages = 1..Len(view.messages)
      BY DEF Inv, TypeInv, GoodView, ViewSet
    <2>2. NumbersNameTurns
      BY <2>1 DEF Numbered, TurnsNamed, Named, NumbersNameTurns
    <2> QED BY <2>2, TypesHold DEF Inv
  <1>4. Inv /\ Inv' /\ Numbered /\ [Next]_vars => [Renumber]_vars
    <2> SUFFICES ASSUME Inv, Inv', Numbered, [Next]_vars PROVE Renumber
      OBVIOUS
    <2>1. /\ DOMAIN view.messages = 1..Len(view.messages)
          /\ DOMAIN view'.messages = 1..Len(view'.messages)
      BY DEF Inv, TypeInv, GoodView, ViewSet
    <2>2. NumberedStill
      BY StepKeepsNumbers
    <2> QED BY <2>1, <2>2 DEF NumberedStill, SameNumbers
  <1>5. Inv /\ [Next]_vars => [Manual]_vars
    BY StepKeepsManual
  <1> HIDE DEF Renumber, Manual
  <1>6. Spec => []TypeOK /\ []NumbersNameTurns /\ [][Renumber]_vars /\ [][Manual]_vars
    BY <1>1, <1>2, <1>3, <1>4, <1>5, SpecInv, PTL DEF Spec
  <1>7. Spec => [](TypeOK /\ NumbersNameTurns)
    BY <1>6, PTL
  <1> QED BY <1>6, <1>7, PTL DEF CompactionKeeps, NumbersKept, ManualKept, Renumber, Manual

------------------------------------------------------------------------------
(* Calls and their results                                                   *)

\* The calls that got a result.
Answers(records) ==
    {records[i].call : i \in {j \in 1..Len(records) : records[j].type = "result"}}

\* A call and its result with no user's message between them.
IsPair(m, i, j, c) ==
    /\ i < j /\ m[i].role = "assistant" /\ c \in m[i].calls
    /\ m[j].role = "tool" /\ c \in m[j].calls
    /\ \A y \in i..j : m[y].role # "user"
\* Every mention of an answered call is within its pair.
Joined(m, A) ==
    \A x \in 1..Len(m) : \A c \in m[x].calls \cap A :
        \E i, j \in 1..Len(m) : i <= x /\ x <= j /\ IsPair(m, i, j, c)
\* Calls are of the first n records, and each is made once; results are of
\* calls that got one, users' messages of none; and answered calls are joined.
Whole(m, A, n) ==
    /\ \A x \in 1..Len(m) : m[x].calls \subseteq 1..n
    /\ \A x, y \in 1..Len(m) : \A c \in m[x].calls :
          c \in m[y].calls /\ m[x].role = "assistant" /\ m[y].role = "assistant" => x = y
    /\ \A x \in 1..Len(m) : m[x].role = "tool" => m[x].calls \subseteq A
    /\ \A x \in 1..Len(m) : m[x].role = "user" => m[x].calls = {}
    /\ Joined(m, A)
\* A call that may still get its result: no user's message comes after it.
OpenAt(m, c) ==
    \E b \in 1..Len(m) : /\ m[b].role = "assistant" /\ c \in m[b].calls
                         /\ \A y \in b..Len(m) : m[y].role # "user"
\* No result follows a message that is not in the transcript.
Unbroken(m) == \A i \in 2..Len(m) : m[i].role = "tool" => m[i - 1].rec # 0

IsFirst(records, u) ==
    records[u].type = "user" /\ \A j \in 1..(u - 1) : records[j].type # "user"
IsLatest(records, c) ==
    /\ records[c].type = "compaction"
    /\ \A i \in 1..Len(records) : records[i].type = "compaction" => i <= c
\* A conversation starts with the task, and after it the latest summary.
Pinned(records, m) ==
    /\ \/ m = <<>> /\ \A i \in 1..Len(records) : records[i].type \in {"other", "end"}
       \/ \E u \in 1..Len(records) :
             /\ IsFirst(records, u) /\ m # <<>>
             /\ m[1].rec = u /\ m[1].role = "user"
    /\ \/ \A i \in 1..Len(records) : records[i].type # "compaction"
       \/ \E c \in 1..Len(records) :
             /\ IsLatest(records, c) /\ Len(m) >= 2
             /\ m[2].rec = c /\ m[2].role = "user"
OnRecord(m) == \A i \in 1..Len(m) : m[i].rec # 0
HasCompaction(records) == \E i \in 1..Len(records) : records[i].type = "compaction"

(* More records may come.                                                    *)
LEMMA WholeLater ==
    ASSUME NEW m, NEW A, NEW n \in Nat, NEW n2 \in Nat, n <= n2, Whole(m, A, n)
    PROVE  Whole(m, A, n2)
  <1>1. \A x \in 1..Len(m) : m[x].calls \subseteq 1..n2
    BY DEF Whole
  <1> QED BY <1>1 DEF Whole

(* A pair stays one when the conversation goes on.                           *)
LEMMA PairStays ==
    ASSUME NEW m, NEW e, NEW m2, Longer(m, e, m2), NEW i \in 1..Len(m), NEW j \in 1..Len(m), NEW c,
           IsPair(m, i, j, c)
    PROVE  IsPair(m2, i, j, c)
  <1>1. \A y \in 1..Len(m) : m2[y] = m[y]
    BY DEF Longer
  <1>2. \A y \in i..j : y \in 1..Len(m)
    BY DEF Longer
  <1> QED BY <1>1, <1>2 DEF IsPair

(* A message is added that breaks no pair and leaves none open.              *)
LEMMA WholeLonger ==
    ASSUME NEW m \in Seq(MessageSet), NEW A, NEW A2, NEW n \in Nat, NEW n2 \in Nat, n <= n2,
           A \subseteq A2, Whole(m, A, n), NEW e \in MessageSet, NEW m2, Longer(m, e, m2),
           e.calls \subseteq 1..n2,
           e.role = "assistant" => \A x \in 1..Len(m) : m[x].calls \cap e.calls = {},
           e.role = "tool" => e.calls \subseteq A2,
           e.role = "user" => e.calls = {},
           \A x \in 1..Len(m2) : \A c \in m2[x].calls \cap A2 : c \notin A \/ c \in e.calls =>
               \E i, j \in 1..Len(m2) : i <= x /\ x <= j /\ IsPair(m2, i, j, c)
    PROVE  Whole(m2, A2, n2)
  <1>1. PICK l \in Nat : l = Len(m) /\ Len(m2) = l + 1
    BY DEF Longer
  <1>2. m2[l + 1] = e /\ \A x \in 1..l : m2[x] = m[x]
    BY <1>1 DEF Longer
  <1>3. \A x \in 1..(l + 1) : x \in 1..l \/ x = l + 1
    OBVIOUS
  <1>4. \A x \in 1..l : m[x].calls \subseteq 1..n2
    BY <1>1, WholeLater DEF Whole
  <1>5. \A x \in 1..(l + 1) : m2[x].calls \subseteq 1..n2
    BY <1>2, <1>3, <1>4
  <1>6. ASSUME NEW x \in 1..(l + 1), NEW y \in 1..(l + 1), NEW c \in m2[x].calls,
               c \in m2[y].calls, m2[x].role = "assistant", m2[y].role = "assistant"
        PROVE  x = y
    <2>1. CASE x \in 1..l /\ y \in 1..l
      BY <1>1, <1>2, <1>6, <2>1 DEF Whole
    <2>2. CASE x = l + 1 /\ y = l + 1
      BY <2>2
    <2>3. CASE x = l + 1 /\ y \in 1..l
      BY <1>1, <1>2, <1>6, <2>3
    <2>4. CASE y = l + 1 /\ x \in 1..l
      BY <1>1, <1>2, <1>6, <2>4
    <2> QED BY <1>3, <2>1, <2>2, <2>3, <2>4
  <1>7. \A x \in 1..(l + 1) : m2[x].role = "tool" => m2[x].calls \subseteq A2
    BY <1>1, <1>2, <1>3 DEF Whole
  <1>8. \A x \in 1..(l + 1) : m2[x].role = "user" => m2[x].calls = {}
    BY <1>1, <1>2, <1>3 DEF Whole
  <1>9. ASSUME NEW x \in 1..(l + 1), NEW c \in m2[x].calls \cap A2
        PROVE  \E i, j \in 1..(l + 1) : i <= x /\ x <= j /\ IsPair(m2, i, j, c)
    <2>1. CASE c \notin A \/ c \in e.calls
      BY <1>1, <1>9, <2>1
    <2>2. CASE c \in A /\ c \notin e.calls
      <3>1. x \in 1..l /\ c \in m[x].calls \cap A
        BY <1>2, <1>3, <1>9, <2>2
      <3>2. PICK i \in 1..l, j \in 1..l : i <= x /\ x <= j /\ IsPair(m, i, j, c)
        BY <1>1, <3>1 DEF Whole, Joined
      <3>3. IsPair(m2, i, j, c)
        BY <1>1, <3>2, PairStays
      <3>4. i \in 1..(l + 1) /\ j \in 1..(l + 1)
        OBVIOUS
      <3> QED BY <3>2, <3>3, <3>4
    <2> QED BY <2>1, <2>2
  <1> QED BY <1>1, <1>5, <1>6, <1>7, <1>8, <1>9 DEF Whole, Joined

(* A user's message.                                                         *)
LEMMA WholeUser ==
    ASSUME NEW m \in Seq(MessageSet), NEW A, NEW n \in Nat, NEW n2 \in Nat, n <= n2,
           Whole(m, A, n), NEW e \in MessageSet, e.role = "user", e.calls = {},
           NEW m2, Longer(m, e, m2)
    PROVE  Whole(m2, A, n2)
  <1>1. /\ e.calls \subseteq 1..n2 /\ A \subseteq A
        /\ e.role = "assistant" => \A x \in 1..Len(m) : m[x].calls \cap e.calls = {}
        /\ e.role = "tool" => e.calls \subseteq A
        /\ e.role = "user" => e.calls = {}
    OBVIOUS
  <1>2. \A x \in 1..Len(m2) : \A c \in m2[x].calls \cap A : c \notin A \/ c \in e.calls =>
            \E i, j \in 1..Len(m2) : i <= x /\ x <= j /\ IsPair(m2, i, j, c)
    OBVIOUS
  <1> QED BY <1>1, <1>2, WholeLonger

(* An answer with new calls.                                                 *)
LEMMA WholeAnswer ==
    ASSUME NEW m \in Seq(MessageSet), NEW A, NEW n \in Nat, NEW n2 \in Nat, n <= n2,
           Whole(m, A, n), A \subseteq 1..n, NEW e \in MessageSet, e.role = "assistant",
           e.calls \subseteq (n + 1)..n2, NEW m2, Longer(m, e, m2)
    PROVE  Whole(m2, A, n2)
  <1>1. \A c \in e.calls : c \in 1..n2 /\ c \notin 1..n
    OBVIOUS
  <1>2. /\ e.calls \subseteq 1..n2 /\ A \subseteq A
        /\ e.role = "assistant" => \A x \in 1..Len(m) : m[x].calls \cap e.calls = {}
        /\ e.role = "tool" => e.calls \subseteq A
        /\ e.role = "user" => e.calls = {}
    BY <1>1 DEF Whole
  <1>3. \A x \in 1..Len(m2) : \A c \in m2[x].calls \cap A : c \notin A \/ c \in e.calls =>
            \E i, j \in 1..Len(m2) : i <= x /\ x <= j /\ IsPair(m2, i, j, c)
    BY <1>1
  <1> QED BY <1>2, <1>3, WholeLonger

(* A result of an open call.                                                 *)
LEMMA WholeResult ==
    ASSUME NEW m \in Seq(MessageSet), NEW A, NEW n \in Nat, NEW n2 \in Nat, n <= n2,
           Whole(m, A, n), NEW c \in 1..n, c \notin A, OpenAt(m, c),
           NEW e \in MessageSet, e.role = "tool", e.calls = {c}, NEW m2, Longer(m, e, m2)
    PROVE  Whole(m2, A \cup {c}, n2)
  <1>1. PICK l \in Nat : l = Len(m) /\ Len(m2) = l + 1
    BY DEF Longer
  <1>2. m2[l + 1] = e /\ \A x \in 1..l : m2[x] = m[x]
    BY <1>1 DEF Longer
  <1>3. PICK b \in 1..l : /\ m[b].role = "assistant" /\ c \in m[b].calls
                          /\ \A y \in b..l : m[y].role # "user"
    BY <1>1 DEF OpenAt
  <1>4. IsPair(m2, b, l + 1, c)
    <2>1. \A y \in b..(l + 1) : y \in b..l \/ y = l + 1
      OBVIOUS
    <2>2. \A y \in b..l : y \in 1..l
      OBVIOUS
    <2>3. \A y \in b..(l + 1) : m2[y].role # "user"
      BY <1>2, <1>3, <2>1, <2>2
    <2> QED BY <1>2, <1>3, <2>3 DEF IsPair
  <1>5. ASSUME NEW x \in 1..(l + 1), c \in m2[x].calls PROVE b <= x /\ x <= l + 1
    <2>1. CASE x = l + 1
      BY <2>1
    <2>2. CASE x \in 1..l
      <3>1. c \in m[x].calls /\ m[x] \in MessageSet
        BY <1>1, <1>2, <1>5, <2>2
      <3>2. m[x].role # "user" /\ m[x].role # "tool"
        BY <1>1, <2>2, <3>1 DEF Whole
      <3>3. m[x].role = "assistant"
        BY <3>1, <3>2 DEF MessageSet
      <3>4. x = b
        BY <1>1, <1>3, <2>2, <3>1, <3>3 DEF Whole
      <3> QED BY <3>4
    <2> QED BY <2>1, <2>2
  <1>6. /\ e.calls \subseteq 1..n2 /\ A \subseteq A \cup {c}
        /\ e.role = "assistant" => \A x \in 1..Len(m) : m[x].calls \cap e.calls = {}
        /\ e.role = "tool" => e.calls \subseteq A \cup {c}
        /\ e.role = "user" => e.calls = {}
    OBVIOUS
  <1>7. \A x \in 1..Len(m2) : \A d \in m2[x].calls \cap (A \cup {c}) : d \notin A \/ d \in e.calls =>
            \E i, j \in 1..Len(m2) : i <= x /\ x <= j /\ IsPair(m2, i, j, d)
    <2> SUFFICES ASSUME NEW x \in 1..(l + 1), c \in m2[x].calls
                 PROVE  \E i, j \in 1..(l + 1) : i <= x /\ x <= j /\ IsPair(m2, i, j, c)
      BY <1>1
    <2>1. b \in 1..(l + 1) /\ l + 1 \in 1..(l + 1)
      OBVIOUS
    <2> QED BY <1>4, <1>5, <2>1
  <1> QED BY <1>6, <1>7, WholeLonger

(* An open call stays open until a user's message.                           *)
LEMMA OpenLonger ==
    ASSUME NEW m, NEW c, OpenAt(m, c), NEW e, e.role # "user", NEW m2, Longer(m, e, m2)
    PROVE  OpenAt(m2, c)
  <1>1. PICK l \in Nat : l = Len(m) /\ Len(m2) = l + 1
    BY DEF Longer
  <1>2. m2[l + 1] = e /\ \A x \in 1..l : m2[x] = m[x]
    BY <1>1 DEF Longer
  <1>3. PICK b \in 1..l : /\ m[b].role = "assistant" /\ c \in m[b].calls
                          /\ \A y \in b..l : m[y].role # "user"
    BY <1>1 DEF OpenAt
  <1>4. \A y \in b..(l + 1) : m2[y].role # "user"
    <2>1. \A y \in b..(l + 1) : y = l + 1 \/ (y \in b..l /\ y \in 1..l)
      OBVIOUS
    <2> QED BY <1>2, <1>3, <2>1
  <1>5. b \in 1..(l + 1)
    OBVIOUS
  <1> QED BY <1>1, <1>2, <1>3, <1>4, <1>5 DEF OpenAt

(* Some messages between the first and a turn give way to a summary.         *)
LEMMA WholeSpliced ==
    ASSUME NEW m \in Seq(MessageSet), NEW A, NEW n \in Nat, Whole(m, A, n),
           NEW from \in Nat, NEW to \in Nat, from <= to, to <= Len(m),
           \A y \in 1..from : m[y].role = "user",
           to < Len(m) => m[to + 1].role = "user",
           NEW x, x.role = "user", x.calls = {}, NEW m2, IsSplice(MessageSet, m, from, to, x, m2)
    PROVE  Whole(m2, A, n)
  <1>1. PICK l \in Nat, l2 \in Nat :
            l = Len(m) /\ to <= l /\ l2 = from + 1 + (l - to) /\ l2 = Len(m2)
    BY DEF IsSplice
  <1>2. /\ m2[from + 1] = x
        /\ \A i \in 1..from : m2[i] = m[i]
        /\ \A i \in (from + 2)..l2 : m2[i] = m[i - (from + 1) + to]
    BY <1>1 DEF IsSplice
  <1>3. \A i \in 1..l2 : i \in 1..from \/ i = from + 1 \/ i \in (from + 2)..l2
    OBVIOUS
  <1>4. \A i \in 1..from : i \in 1..l
    BY <1>1
  <1>5. \A i \in (from + 2)..l2 : i - (from + 1) + to \in 1..l /\ i - (from + 1) + to > to
    BY <1>1
  <1>6. \A i \in 1..(from + 1) : m2[i].role = "user" /\ m2[i].calls = {}
    <2>1. \A i \in 1..from : m[i].role = "user" /\ m[i].calls = {}
      BY <1>1, <1>4 DEF Whole
    <2>2. \A i \in 1..(from + 1) : i \in 1..from \/ i = from + 1
      OBVIOUS
    <2> QED BY <1>2, <2>1, <2>2
  <1>7. \A i \in 1..l2 : i \in 1..(from + 1) \/ i \in (from + 2)..l2
    OBVIOUS
  <1>8. \A i \in 1..l2 : /\ m2[i].calls \subseteq 1..n
                         /\ m2[i].role = "tool" => m2[i].calls \subseteq A
                         /\ m2[i].role = "user" => m2[i].calls = {}
    <2> SUFFICES ASSUME NEW i \in (from + 2)..l2
                 PROVE  /\ m2[i].calls \subseteq 1..n
                        /\ m2[i].role = "tool" => m2[i].calls \subseteq A
                        /\ m2[i].role = "user" => m2[i].calls = {}
      BY <1>6, <1>7
    <2>1. PICK k \in 1..l : m2[i] = m[k]
      BY <1>2, <1>5
    <2> QED BY <1>1, <2>1 DEF Whole
  <1>9. ASSUME NEW i \in 1..l2, NEW j \in 1..l2, NEW c \in m2[i].calls, c \in m2[j].calls,
               m2[i].role = "assistant", m2[j].role = "assistant"
        PROVE  i = j
    <2>1. i \in (from + 2)..l2 /\ j \in (from + 2)..l2
      BY <1>6, <1>7, <1>9
    <2>2. PICK h \in 1..l, k \in 1..l : /\ h = i - (from + 1) + to /\ m2[i] = m[h]
                                        /\ k = j - (from + 1) + to /\ m2[j] = m[k]
      BY <1>2, <1>5, <2>1
    <2>3. h = k
      BY <1>1, <1>9, <2>2 DEF Whole
    <2> QED BY <2>2, <2>3
  <1>10. ASSUME NEW i \in 1..l2, NEW c \in m2[i].calls \cap A
         PROVE  \E u, v \in 1..l2 : u <= i /\ i <= v /\ IsPair(m2, u, v, c)
    <2>1. i \in (from + 2)..l2
      BY <1>6, <1>7, <1>10
    <2>2. PICK h \in 1..l : h = i - (from + 1) + to /\ m2[i] = m[h] /\ h > to
      BY <1>2, <1>5, <2>1
    <2>3. PICK p \in 1..l, q \in 1..l : p <= h /\ h <= q /\ IsPair(m, p, q, c)
      BY <1>1, <1>10, <2>2 DEF Whole, Joined
    <2>4. p > to
      <3> SUFFICES ASSUME p <= to PROVE FALSE
        OBVIOUS
      <3>1. to + 1 \in p..q /\ to < l
        BY <2>2, <2>3
      <3> QED BY <1>1, <2>3, <3>1 DEF IsPair
    <2>5. PICK u \in (from + 2)..l2, v \in (from + 2)..l2 :
              /\ u = p - to + (from + 1) /\ p = u - (from + 1) + to
              /\ v = q - to + (from + 1) /\ q = v - (from + 1) + to
      <3>1. p - to + (from + 1) \in (from + 2)..l2 /\ q - to + (from + 1) \in (from + 2)..l2
        BY <1>1, <2>3, <2>4
      <3> QED BY <3>1
    <2>6. m2[u] = m[p] /\ m2[v] = m[q] /\ u < v /\ u <= i /\ i <= v
      BY <1>2, <2>2, <2>3, <2>5 DEF IsPair
    <2>7. ASSUME NEW y \in u..v PROVE m2[y].role # "user"
      <3>1. PICK z \in p..q : z = y - (from + 1) + to
        BY <2>5
      <3>2. y \in (from + 2)..l2
        OBVIOUS
      <3>3. m2[y] = m[z]
        BY <1>2, <3>1, <3>2
      <3> QED BY <2>3, <3>3 DEF IsPair
    <2>8. IsPair(m2, u, v, c)
      BY <2>3, <2>6, <2>7 DEF IsPair
    <2>9. u \in 1..l2 /\ v \in 1..l2
      OBVIOUS
    <2> QED BY <2>6, <2>8, <2>9
  <1> QED BY <1>1, <1>8, <1>9, <1>10 DEF Whole, Joined

\* Calls that wait for their results are recorded, once each, and have none yet.
Waits(records, waiting) ==
    /\ \A k \in 1..Len(waiting) : waiting[k] \in 1..Len(records) /\ waiting[k] \notin Answers(records)
    /\ \A k, l \in 1..Len(waiting) : waiting[k] = waiting[l] => k = l
    /\ Answers(records) \subseteq 1..Len(records)
\* What holds of a conversation, while these calls wait for their results.
Sound(records, m, waiting) ==
    /\ Pinned(records, m)
    /\ Clean(records) /\ Unbroken(m) =>
          /\ Whole(m, Answers(records), Len(records))
          /\ \A k \in 1..Len(waiting) :
                OpenAt(m, waiting[k]) \/ (m # <<>> /\ m[Len(m)].rec = 0)
\* The records that were added are of these types.
Gained(old, new, types) == \A i \in (Len(old) + 1)..Len(new) : new[i].type \in types

(* Records that are no results answer no calls.                              *)
LEMMA AnswersGrown ==
    ASSUME NEW old, NEW new, Grown(old, new),
           Gained(old, new, {"other", "end", "user", "assistant", "call", "compaction"})
    PROVE  Answers(new) = Answers(old)
  <1>1. PICK n \in Nat, n2 \in Nat : n = Len(old) /\ n2 = Len(new) /\ n < n2
    <2>1. Len(old) \in Nat /\ Len(new) \in Nat /\ Len(old) < Len(new)
      BY DEF Grown
    <2> QED BY <2>1
  <1>2. \A i \in 1..n : i \in 1..n2 /\ new[i] = old[i]
    BY <1>1 DEF Grown
  <1>3. \A i \in 1..n2 : new[i].type = "result" => i \in 1..n
    <2>1. \A i \in 1..n2 : i \in 1..n \/ i \in (n + 1)..n2
      OBVIOUS
    <2> QED BY <1>1, <2>1 DEF Gained
  <1> QED BY <1>1, <1>2, <1>3 DEF Answers

(* A result answers its call.                                                *)
LEMMA AnswersResult ==
    ASSUME NEW old, NEW new, NEW c, Longer(old, Result(c), new)
    PROVE  Answers(new) = Answers(old) \cup {c}
  <1>1. PICK n \in Nat : n = Len(old) /\ Len(new) = n + 1
    BY DEF Longer
  <1>2. /\ \A i \in 1..n : i \in 1..(n + 1) /\ new[i] = old[i]
        /\ n + 1 \in 1..(n + 1) /\ new[n + 1].type = "result" /\ new[n + 1].call = c
        /\ \A i \in 1..(n + 1) : i \in 1..n \/ i = n + 1
    BY <1>1 DEF Longer, Result
  <1> QED BY <1>1, <1>2 DEF Answers

(* The first messages stay when a conversation goes on.                      *)
LEMMA PinnedGoesOn ==
    ASSUME NEW old, NEW new, Grown(old, new),
           Gained(old, new, {"other", "end", "user", "assistant", "call", "result"}),
           NEW m \in Seq(MessageSet), NEW m2 \in Seq(MessageSet), Pinned(old, m),
           Len(m) <= Len(m2), \A i \in 1..Len(m) : m2[i] = m[i],
           m # <<>> \/ (m2 = m /\ Gained(old, new, {"other", "end"}))
    PROVE  Pinned(new, m2)
  <1>1. PICK n \in Nat, n2 \in Nat : n = Len(old) /\ n2 = Len(new) /\ n < n2
    <2>1. Len(old) \in Nat /\ Len(new) \in Nat /\ Len(old) < Len(new)
      BY DEF Grown
    <2> QED BY <2>1
  <1>2. /\ \A i \in 1..n : i \in 1..n2 /\ new[i] = old[i]
        /\ \A i \in 1..n2 : i \in 1..n \/ i \in (n + 1)..n2
    BY <1>1 DEF Grown
  <1>3. \/ m2 = <<>> /\ \A i \in 1..n2 : new[i].type \in {"other", "end"}
        \/ \E u \in 1..n2 : IsFirst(new, u) /\ m2 # <<>> /\ m2[1].rec = u /\ m2[1].role = "user"
    <2>1. CASE m = <<>>
      <3>1. \A i \in 1..n : old[i].type \in {"other", "end"}
        BY <1>1, <2>1 DEF Pinned
      <3> QED BY <1>1, <1>2, <2>1, <3>1 DEF Gained
    <2>2. CASE m # <<>>
      <3>1. PICK u \in 1..n : IsFirst(old, u) /\ m[1].rec = u /\ m[1].role = "user"
        BY <1>1, <2>2 DEF Pinned
      <3>2. \A j \in 1..(u - 1) : j \in 1..n
        OBVIOUS
      <3>3. IsFirst(new, u)
        BY <1>2, <3>1, <3>2 DEF IsFirst
      <3>4. 1 \in 1..Len(m) /\ m2 # <<>>
        BY <2>2
      <3> QED BY <1>2, <3>1, <3>3, <3>4
    <2> QED BY <2>1, <2>2
  <1>4. \/ \A i \in 1..n2 : new[i].type # "compaction"
        \/ \E c \in 1..n2 : IsLatest(new, c) /\ Len(m2) >= 2 /\ m2[2].rec = c /\ m2[2].role = "user"
    <2>1. \A i \in 1..n2 : new[i].type = "compaction" => i \in 1..n
      BY <1>1, <1>2 DEF Gained
    <2>2. CASE \A i \in 1..n : old[i].type # "compaction"
      BY <1>2, <2>1, <2>2
    <2>3. CASE \E c \in 1..n : IsLatest(old, c) /\ Len(m) >= 2 /\ m[2].rec = c /\ m[2].role = "user"
      <3>1. PICK c \in 1..n : IsLatest(old, c) /\ Len(m) >= 2 /\ m[2].rec = c /\ m[2].role = "user"
        BY <2>3
      <3>2. IsLatest(new, c)
        BY <1>1, <1>2, <2>1, <3>1 DEF IsLatest
      <3>3. 2 \in 1..Len(m) /\ Len(m2) >= 2
        BY <3>1
      <3> QED BY <1>2, <3>1, <3>2, <3>3
    <2> QED BY <1>1, <2>2, <2>3 DEF Pinned
  <1> QED BY <1>1, <1>3, <1>4 DEF Pinned

(* The first message is the task.                                            *)
LEMMA PinnedUser ==
    ASSUME NEW old, NEW new, Grown(old, new), NEW k \in (Len(old) + 1)..Len(new),
           new[k].type = "user",
           \A i \in (Len(old) + 1)..Len(new) : i # k => new[i].type = "other",
           NEW m \in Seq(MessageSet), NEW m2 \in Seq(MessageSet), Pinned(old, m),
           Longer(m, UserMessage(k), m2)
    PROVE  Pinned(new, m2)
  <1>1. PICK n \in Nat, n2 \in Nat : n = Len(old) /\ n2 = Len(new) /\ n < n2
    <2>1. Len(old) \in Nat /\ Len(new) \in Nat /\ Len(old) < Len(new)
      BY DEF Grown
    <2> QED BY <2>1
  <1>2. CASE m # <<>>
    <2>1. Gained(old, new, {"other", "end", "user", "assistant", "call", "result"})
      BY DEF Gained
    <2>2. Len(m) <= Len(m2) /\ \A i \in 1..Len(m) : m2[i] = m[i]
      BY DEF Longer
    <2> QED BY <1>2, <2>1, <2>2, PinnedGoesOn
  <1>3. CASE m = <<>>
    <2>1. \A i \in 1..n : old[i].type \in {"other", "end"}
      BY <1>1, <1>3 DEF Pinned
    <2>2. \A i \in 1..n2 : i # k => new[i].type \in {"other", "end"}
      <3>1. \A i \in 1..n2 : i \in 1..n \/ i \in (n + 1)..n2
        OBVIOUS
      <3>2. \A i \in 1..n : new[i] = old[i]
        BY <1>1 DEF Grown
      <3> QED BY <1>1, <2>1, <3>1, <3>2
    <2>3. k \in 1..n2 /\ \A j \in 1..(k - 1) : j \in 1..n2 /\ j # k
      BY <1>1
    <2>4. IsFirst(new, k)
      BY <2>2, <2>3 DEF IsFirst
    <2>5. m2[1] = UserMessage(k) /\ m2 # <<>>
      BY <1>3 DEF Longer
    <2>6. \A i \in 1..n2 : new[i].type # "compaction"
      BY <2>2
    <2> QED BY <1>1, <2>3, <2>4, <2>5, <2>6 DEF Pinned, UserMessage
  <1> QED BY <1>2, <1>3

(* A compaction puts its summary after the task.                             *)
LEMMA PinnedCut ==
    ASSUME NEW old, NEW new, NEW r, Longer(old, r, new), r.type = "compaction",
           NEW m \in Seq(MessageSet), m # <<>>, Pinned(old, m), NEW to \in 1..Len(m), NEW m2,
           IsSplice(MessageSet, m, 1, to, UserMessage(Len(old) + 1), m2)
    PROVE  Pinned(new, m2)
  <1>1. PICK n \in Nat : n = Len(old) /\ Len(new) = n + 1
    BY DEF Longer
  <1>2. /\ \A i \in 1..n : i \in 1..(n + 1) /\ new[i] = old[i]
        /\ n + 1 \in 1..(n + 1) /\ new[n + 1] = r
        /\ \A i \in 1..(n + 1) : i <= n + 1
    BY <1>1 DEF Longer
  <1>3. m2[1] = m[1] /\ m2[2] = UserMessage(n + 1) /\ Len(m2) >= 2 /\ m2 \in Seq(MessageSet)
    <2>1. PICK l \in Nat : l = Len(m) /\ to <= l
      OBVIOUS
    <2>2. Len(m2) = 1 + 1 + (l - to) /\ m2[1 + 1] = UserMessage(n + 1)
      BY <1>1, <2>1 DEF IsSplice
    <2>3. m2[1] = m[1] /\ m2 \in Seq(MessageSet)
      BY DEF IsSplice
    <2> QED BY <2>1, <2>2, <2>3
  <1>4. PICK u \in 1..n : IsFirst(old, u) /\ m[1].rec = u /\ m[1].role = "user"
    BY <1>1 DEF Pinned
  <1>5. IsFirst(new, u)
    <2>1. \A j \in 1..(u - 1) : j \in 1..n
      OBVIOUS
    <2> QED BY <1>2, <1>4, <2>1 DEF IsFirst
  <1>6. IsLatest(new, n + 1)
    BY <1>1, <1>2 DEF IsLatest
  <1>7. m2 # <<>>
    BY <1>3
  <1> QED BY <1>1, <1>2, <1>3, <1>4, <1>5, <1>6, <1>7 DEF Pinned, UserMessage

(* A longer conversation is broken where the shorter one is.                 *)
LEMMA BrokenStays ==
    ASSUME NEW m, NEW e, NEW m2, Longer(m, e, m2), Unbroken(m2)
    PROVE  /\ Unbroken(m)
           /\ Len(m) > 0 /\ e.role = "tool" => m[Len(m)].rec # 0
  <1>1. PICK l \in Nat : l = Len(m) /\ Len(m2) = l + 1
    BY DEF Longer
  <1>2. m2[l + 1] = e /\ \A x \in 1..l : m2[x] = m[x]
    BY <1>1 DEF Longer
  <1>3. \A i \in 2..l : i \in 1..l /\ i - 1 \in 1..l /\ i \in 2..(l + 1)
    OBVIOUS
  <1>4. Unbroken(m)
    BY <1>1, <1>2, <1>3 DEF Unbroken
  <1>5. ASSUME l > 0, e.role = "tool" PROVE m[l].rec # 0
    <2>1. l + 1 \in 2..(l + 1) /\ (l + 1) - 1 = l /\ l \in 1..l
      BY <1>5
    <2> QED BY <1>1, <1>2, <1>5, <2>1 DEF Unbroken
  <1> QED BY <1>1, <1>4, <1>5

(* Records that are no part of the conversation, or that it does not hold.   *)
LEMMA SoundGoesOn ==
    ASSUME NEW old \in Seq(RecordSet), NEW new, Grown(old, new),
           Gained(old, new, {"other", "end", "assistant", "call"}),
           NEW m \in Seq(MessageSet), m # <<>> \/ Gained(old, new, {"other", "end"}),
           NEW waiting, Sound(old, m, waiting)
    PROVE  Sound(new, m, waiting)
  <1>1. /\ Gained(old, new, {"other", "end", "user", "assistant", "call", "compaction"})
        /\ Gained(old, new, {"other", "end", "user", "assistant", "call", "result"})
    BY DEF Gained
  <1>2. Answers(new) = Answers(old)
    BY <1>1, AnswersGrown
  <1>3. Pinned(new, m)
    BY <1>1, PinnedGoesOn DEF Sound
  <1>4. ASSUME Clean(new), Unbroken(m)
        PROVE  /\ Whole(m, Answers(new), Len(new))
               /\ \A k \in 1..Len(waiting) :
                     OpenAt(m, waiting[k]) \/ (m # <<>> /\ m[Len(m)].rec = 0)
    <2>1. Clean(old)
      BY <1>4, CleanBefore
    <2>2. /\ Whole(m, Answers(old), Len(old))
          /\ \A k \in 1..Len(waiting) :
                OpenAt(m, waiting[k]) \/ (m # <<>> /\ m[Len(m)].rec = 0)
      BY <1>4, <2>1 DEF Sound
    <2>3. PICK n \in Nat, n2 \in Nat : n = Len(old) /\ n2 = Len(new) /\ n <= n2
      <3>1. Len(old) \in Nat /\ Len(new) \in Nat /\ Len(old) <= Len(new)
        BY DEF Grown
      <3> QED BY <3>1
    <2>4. Whole(m, Answers(old), n2)
      BY <2>2, <2>3, WholeLater
    <2> QED BY <1>2, <2>2, <2>3, <2>4
  <1> QED BY <1>3, <1>4 DEF Sound

(* A user's message, its record among those that were added.                 *)
LEMMA SoundUser ==
    ASSUME NEW old \in Seq(RecordSet), NEW new, Grown(old, new),
           NEW k \in (Len(old) + 1)..Len(new), new[k].type = "user",
           \A i \in (Len(old) + 1)..Len(new) : i # k => new[i].type = "other",
           NEW m \in Seq(MessageSet), NEW m2 \in Seq(MessageSet), Sound(old, m, <<>>),
           Longer(m, UserMessage(k), m2)
    PROVE  Sound(new, m2, <<>>)
  <1>1. Gained(old, new, {"other", "end", "user", "assistant", "call", "compaction"})
    BY DEF Gained
  <1>2. Answers(new) = Answers(old)
    BY <1>1, AnswersGrown
  <1>3. Pinned(new, m2)
    BY PinnedUser DEF Sound
  <1>4. ASSUME Clean(new), Unbroken(m2) PROVE Whole(m2, Answers(new), Len(new))
    <2>1. Clean(old) /\ Unbroken(m)
      BY <1>4, CleanBefore, BrokenStays
    <2>2. Whole(m, Answers(old), Len(old))
      BY <2>1 DEF Sound
    <2>3. PICK n \in Nat, n2 \in Nat : n = Len(old) /\ n2 = Len(new) /\ n <= n2
      <3>1. Len(old) \in Nat /\ Len(new) \in Nat /\ Len(old) <= Len(new)
        BY DEF Grown
      <3> QED BY <3>1
    <2>4. PICK e \in MessageSet : e = UserMessage(k) /\ e.role = "user" /\ e.calls = {}
      <3>1. k \in Nat
        BY <2>3
      <3>2. UserMessage(k) \in MessageSet
        BY <3>1, MessageTypes
      <3>3. UserMessage(k).role = "user" /\ UserMessage(k).calls = {}
        BY DEF UserMessage
      <3> QED BY <3>2, <3>3
    <2>5. Longer(m, e, m2) /\ Whole(m, Answers(old), n)
      BY <2>2, <2>3, <2>4
    <2>6. Whole(m2, Answers(old), n2)
      BY <2>3, <2>4, <2>5, WholeUser
    <2> QED BY <1>2, <2>3, <2>6
  <1>5. Len(<<>>) = 0
    OBVIOUS
  <1> QED BY <1>3, <1>4, <1>5 DEF Sound

(* A message that no record holds.                                           *)
LEMMA SoundSynthetic ==
    ASSUME NEW records \in Seq(RecordSet), NEW m \in Seq(MessageSet), m # <<>>,
           NEW m2 \in Seq(MessageSet), Longer(m, Synthetic, m2),
           NEW waiting, Sound(records, m, waiting)
    PROVE  Sound(records, m2, waiting)
  <1>1. PICK n \in Nat : n = Len(records)
    OBVIOUS
  <1>2. PICK e \in MessageSet : e = Synthetic /\ e.role = "user" /\ e.calls = {} /\ e.rec = 0
    <2>1. /\ Synthetic \in MessageSet /\ Synthetic.role = "user" /\ Synthetic.calls = {}
          /\ Synthetic.rec = 0
      BY MessageTypes DEF Synthetic, UserMessage
    <2> QED BY <2>1
  <1>3. Longer(m, e, m2)
    BY <1>2
  <1>4. m2[Len(m2)] = e /\ Len(m2) >= Len(m) /\ m2 # <<>> /\ \A i \in 1..Len(m) : m2[i] = m[i]
    BY <1>3 DEF Longer
  <1>5. Pinned(records, m2)
    <2>1. 1 \in 1..Len(m) /\ (Len(m) >= 2 => 2 \in 1..Len(m) /\ Len(m2) >= 2)
      BY <1>4
    <2>2. \E u \in 1..n : IsFirst(records, u) /\ m2 # <<>> /\ m2[1].rec = u /\ m2[1].role = "user"
      BY <1>1, <1>4, <2>1 DEF Sound, Pinned
    <2>3. \/ \A i \in 1..n : records[i].type # "compaction"
          \/ \E c \in 1..n : /\ IsLatest(records, c) /\ Len(m2) >= 2
                             /\ m2[2].rec = c /\ m2[2].role = "user"
      <3>1. CASE \A i \in 1..n : records[i].type # "compaction"
        BY <3>1
      <3>2. CASE ~\A i \in 1..n : records[i].type # "compaction"
        <4>1. PICK c \in 1..n : /\ IsLatest(records, c) /\ Len(m) >= 2
                                /\ m[2].rec = c /\ m[2].role = "user"
          BY <1>1, <3>2 DEF Sound, Pinned
        <4> QED BY <1>4, <2>1, <4>1
      <3> QED BY <3>1, <3>2
    <2> QED BY <1>1, <2>2, <2>3 DEF Pinned
  <1>6. ASSUME Clean(records), Unbroken(m2) PROVE Whole(m2, Answers(records), n)
    <2>1. Unbroken(m)
      BY <1>3, <1>6, BrokenStays
    <2>2. Whole(m, Answers(records), n)
      BY <1>1, <1>6, <2>1 DEF Sound
    <2> QED BY <1>2, <1>3, <2>2, WholeUser
  <1> QED BY <1>1, <1>2, <1>4, <1>5, <1>6 DEF Sound

(* An answer, whose calls then wait for their results.                       *)
LEMMA SoundAnswer ==
    ASSUME NEW old \in Seq(RecordSet), NEW new, Grown(old, new),
           Gained(old, new, {"assistant", "call"}), Answers(old) \subseteq 1..Len(old),
           NEW m \in Seq(MessageSet), m # <<>>, NEW m2 \in Seq(MessageSet), Sound(old, m, <<>>),
           NEW e \in MessageSet, e.role = "assistant",
           e.calls \subseteq (Len(old) + 1)..Len(new), Longer(m, e, m2),
           NEW waiting, \A k \in 1..Len(waiting) : waiting[k] \in e.calls
    PROVE  Sound(new, m2, waiting)
  <1>1. /\ Gained(old, new, {"other", "end", "user", "assistant", "call", "compaction"})
        /\ Gained(old, new, {"other", "end", "user", "assistant", "call", "result"})
    BY DEF Gained
  <1>2. Answers(new) = Answers(old)
    BY <1>1, AnswersGrown
  <1>3. Pinned(new, m2)
    <2>1. Len(m) <= Len(m2) /\ \A i \in 1..Len(m) : m2[i] = m[i]
      BY DEF Longer
    <2> QED BY <1>1, <2>1, PinnedGoesOn DEF Sound
  <1>4. PICK l \in Nat : l = Len(m) /\ Len(m2) = l + 1 /\ m2[l + 1] = e
    BY DEF Longer
  <1>5. \A k \in 1..Len(waiting) : OpenAt(m2, waiting[k])
    <2>1. l + 1 \in 1..(l + 1) /\ \A y \in (l + 1)..(l + 1) : y = l + 1
      OBVIOUS
    <2> QED BY <1>4, <2>1 DEF OpenAt
  <1>6. ASSUME Clean(new), Unbroken(m2) PROVE Whole(m2, Answers(new), Len(new))
    <2>1. Clean(old) /\ Unbroken(m)
      BY <1>6, CleanBefore, BrokenStays
    <2>2. Whole(m, Answers(old), Len(old))
      BY <2>1 DEF Sound
    <2>3. PICK n \in Nat, n2 \in Nat : n = Len(old) /\ n2 = Len(new) /\ n <= n2
      <3>1. Len(old) \in Nat /\ Len(new) \in Nat /\ Len(old) <= Len(new)
        BY DEF Grown
      <3> QED BY <3>1
    <2>4. /\ Whole(m, Answers(old), n) /\ Answers(old) \subseteq 1..n
          /\ e.calls \subseteq (n + 1)..n2
      BY <2>2, <2>3
    <2>5. Whole(m2, Answers(old), n2)
      BY <2>3, <2>4, WholeAnswer
    <2> QED BY <1>2, <2>3, <2>5
  <1> QED BY <1>3, <1>5, <1>6 DEF Sound

(* The result of the first of the calls that wait.                           *)
LEMMA SoundResult ==
    ASSUME NEW old \in Seq(RecordSet), NEW new, Grown(old, new),
           NEW c \in Nat, Longer(old, Result(c), new),
           NEW m \in Seq(MessageSet), m # <<>>, NEW m2 \in Seq(MessageSet),
           NEW waiting \in Seq(Nat), waiting # <<>>, c = Head(waiting), Waits(old, waiting),
           Sound(old, m, waiting), Longer(m, ToolMessage(Len(old) + 1, c), m2)
    PROVE  Sound(new, m2, Tail(waiting)) /\ Waits(new, Tail(waiting))
  <1>1. PICK n \in Nat, n2 \in Nat : n = Len(old) /\ n2 = Len(new) /\ n2 = n + 1 /\ n <= n2
    <2>1. Len(old) \in Nat /\ Len(new) = Len(old) + 1
      BY DEF Longer
    <2> QED BY <2>1
  <1>2. Answers(new) = Answers(old) \cup {c}
    BY AnswersResult
  <1>3. PICK l \in Nat : l = Len(waiting) /\ l > 0 /\ Len(Tail(waiting)) = l - 1
    <2>1. Len(waiting) \in Nat /\ Len(waiting) > 0 /\ Len(Tail(waiting)) = Len(waiting) - 1
      OBVIOUS
    <2> QED BY <2>1
  <1>4. /\ c = waiting[1] /\ 1 \in 1..l
        /\ \A k \in 1..(l - 1) : k + 1 \in 1..l /\ k + 1 # 1 /\ Tail(waiting)[k] = waiting[k + 1]
    BY <1>3
  <1>5. c \in 1..n /\ c \notin Answers(old)
    BY <1>1, <1>3, <1>4 DEF Waits
  <1>6. Waits(new, Tail(waiting))
    <2>1. ASSUME NEW k \in 1..(l - 1)
          PROVE  Tail(waiting)[k] \in 1..n2 /\ Tail(waiting)[k] \notin Answers(new)
      <3>1. waiting[k + 1] \in 1..n /\ waiting[k + 1] \notin Answers(old) /\ waiting[k + 1] # c
        BY <1>1, <1>3, <1>4 DEF Waits
      <3>2. \A x \in 1..n : x \in 1..n2
        BY <1>1
      <3> QED BY <1>2, <1>4, <3>1, <3>2
    <2>2. \A k, j \in 1..(l - 1) : Tail(waiting)[k] = Tail(waiting)[j] => k = j
      BY <1>3, <1>4 DEF Waits
    <2>3. Answers(new) \subseteq 1..n2
      <3>1. \A x \in 1..n : x \in 1..n2
        BY <1>1
      <3> QED BY <1>1, <1>2, <1>5, <3>1 DEF Waits
    <2> QED BY <1>1, <1>3, <2>1, <2>2, <2>3 DEF Waits
  <1>7. PICK e \in MessageSet : /\ e = ToolMessage(Len(old) + 1, c) /\ e.role = "tool"
                                /\ e.calls = {c} /\ e.role # "user"
    <2>1. ToolMessage(n + 1, c) \in MessageSet
      BY MessageTypes
    <2>2. ToolMessage(n + 1, c).role = "tool" /\ ToolMessage(n + 1, c).calls = {c}
      BY DEF ToolMessage
    <2> QED BY <1>1, <2>1, <2>2
  <1>8. Longer(m, e, m2)
    BY <1>7
  <1>9. Pinned(new, m2)
    <2>1. Gained(old, new, {"other", "end", "user", "assistant", "call", "result"})
      <3>1. new[n + 1].type = "result" /\ \A i \in (n + 1)..(n + 1) : i = n + 1
        BY <1>1 DEF Longer, Result
      <3> QED BY <1>1, <3>1 DEF Gained
    <2>2. Len(m) <= Len(m2) /\ \A i \in 1..Len(m) : m2[i] = m[i]
      BY <1>8 DEF Longer
    <2> QED BY <2>1, <2>2, PinnedGoesOn DEF Sound
  <1>10. ASSUME Clean(new), Unbroken(m2)
         PROVE  /\ Whole(m2, Answers(new), n2)
                /\ \A k \in 1..(l - 1) : OpenAt(m2, Tail(waiting)[k])
    <2>1. Clean(old) /\ Unbroken(m) /\ m[Len(m)].rec # 0
      <3>1. Len(m) > 0
        OBVIOUS
      <3> QED BY <1>7, <1>8, <1>10, <3>1, CleanBefore, BrokenStays
    <2>2. Whole(m, Answers(old), n) /\ \A k \in 1..l : OpenAt(m, waiting[k])
      BY <1>1, <1>3, <2>1 DEF Sound
    <2>3. OpenAt(m, c)
      BY <1>4, <2>2
    <2>4. Whole(m2, Answers(old) \cup {c}, n2)
      BY <1>1, <1>5, <1>7, <1>8, <2>2, <2>3, WholeResult
    <2>5. ASSUME NEW k \in 1..(l - 1) PROVE OpenAt(m2, Tail(waiting)[k])
      <3>1. OpenAt(m, waiting[k + 1])
        BY <1>4, <2>2
      <3>2. OpenAt(m2, waiting[k + 1])
        BY <1>7, <1>8, <3>1, OpenLonger
      <3> QED BY <1>4, <3>2
    <2> QED BY <1>2, <2>4, <2>5
  <1>11. Sound(new, m2, Tail(waiting))
    BY <1>1, <1>3, <1>9, <1>10 DEF Sound
  <1> QED BY <1>6, <1>11

(* A compaction of a conversation that the transcript holds, or that makes   *)
(* the transcript say that it was not one.                                   *)
LEMMA SoundCut ==
    ASSUME NEW old \in Seq(RecordSet), NEW new, Grown(old, new), NEW r, Longer(old, r, new),
           r.type = "compaction", NEW m \in Seq(MessageSet), m # <<>>, NEW to \in 1..Len(m),
           Sound(old, m, <<>>),
           Clean(new) => /\ Unbroken(m)
                         /\ to < Len(m) => m[to + 1].role = "user",
           NEW m2, IsSplice(MessageSet, m, 1, to, UserMessage(Len(old) + 1), m2)
    PROVE  Sound(new, m2, <<>>)
  <1>1. PICK n \in Nat, n2 \in Nat : n = Len(old) /\ n2 = Len(new) /\ n <= n2
    <2>1. Len(old) \in Nat /\ Len(new) \in Nat /\ Len(old) <= Len(new)
      BY DEF Grown
    <2> QED BY <2>1
  <1>2. Gained(old, new, {"other", "end", "user", "assistant", "call", "compaction"})
    <2>1. new[n + 1] = r /\ n2 = n + 1 /\ \A i \in (n + 1)..(n + 1) : i = n + 1
      BY <1>1 DEF Longer
    <2> QED BY <1>1, <2>1 DEF Gained
  <1>3. Answers(new) = Answers(old)
    BY <1>2, AnswersGrown
  <1>4. Pinned(old, m)
    BY DEF Sound
  <1>5. Pinned(new, m2)
    BY <1>4, PinnedCut
  <1>6. ASSUME Clean(new) PROVE Whole(m2, Answers(new), Len(new))
    <2>1. Whole(m, Answers(old), n)
      BY <1>1, <1>6, CleanBefore DEF Sound
    <2>2. Whole(m, Answers(old), n2)
      BY <1>1, <2>1, WholeLater
    <2>3. m[1].role = "user"
      BY <1>4 DEF Pinned
    <2>4. \A y \in 1..1 : m[y].role = "user"
      <3>1. \A y \in 1..1 : y = 1
        OBVIOUS
      <3> QED BY <2>3, <3>1
    <2>5. PICK x : x = UserMessage(Len(old) + 1) /\ x.role = "user" /\ x.calls = {}
      BY DEF UserMessage
    <2>6. PICK one \in Nat : one = 1
      OBVIOUS
    <2>7. /\ to \in Nat /\ one <= to /\ to <= Len(m) /\ \A y \in 1..one : m[y].role = "user"
          /\ to < Len(m) => m[to + 1].role = "user"
          /\ IsSplice(MessageSet, m, one, to, x, m2)
      BY <1>6, <2>4, <2>5, <2>6
    <2>8. Whole(m2, Answers(old), n2)
      BY <2>2, <2>5, <2>7, WholeSpliced
    <2> QED BY <1>1, <1>3, <2>8
  <1>7. Len(<<>>) = 0
    OBVIOUS
  <1> QED BY <1>5, <1>6, <1>7 DEF Sound

(* Nothing waits.                                                            *)
LEMMA SoundAtRest ==
    ASSUME NEW records, NEW m, NEW waiting, Sound(records, m, waiting)
    PROVE  Sound(records, m, <<>>)
  <1>1. Len(<<>>) = 0
    OBVIOUS
  <1> QED BY <1>1 DEF Sound

(* A message that a record holds is added.                                   *)
LEMMA OnRecordLonger ==
    ASSUME NEW m, NEW e, e.rec # 0, NEW m2, Longer(m, e, m2), OnRecord(m)
    PROVE  OnRecord(m2)
  <1>1. PICK l \in Nat : l = Len(m) /\ Len(m2) = l + 1
    BY DEF Longer
  <1>2. /\ m2[l + 1] = e /\ \A x \in 1..l : m2[x] = m[x]
        /\ \A x \in 1..(l + 1) : x \in 1..l \/ x = l + 1
    BY <1>1 DEF Longer
  <1> QED BY <1>1, <1>2 DEF OnRecord

(* A summary stands for some.                                                *)
LEMMA OnRecordSpliced ==
    ASSUME NEW m, OnRecord(m), NEW from \in Nat, NEW to \in Nat, from <= to, to <= Len(m),
           NEW x, x.rec # 0, NEW m2, IsSplice(MessageSet, m, from, to, x, m2)
    PROVE  OnRecord(m2)
  <1>1. PICK l \in Nat, l2 \in Nat :
            l = Len(m) /\ to <= l /\ l2 = from + 1 + (l - to) /\ l2 = Len(m2)
    BY DEF IsSplice
  <1>2. /\ m2[from + 1] = x
        /\ \A i \in 1..from : m2[i] = m[i] /\ i \in 1..l
        /\ \A i \in (from + 2)..l2 : /\ m2[i] = m[i - (from + 1) + to]
                                     /\ i - (from + 1) + to \in 1..l
    BY <1>1 DEF IsSplice
  <1>3. \A i \in 1..l2 : i \in 1..from \/ i = from + 1 \/ i \in (from + 2)..l2
    OBVIOUS
  <1> QED BY <1>1, <1>2, <1>3 DEF OnRecord

(* A conversation that the transcript holds is not broken.                   *)
LEMMA OnRecordUnbroken ==
    ASSUME NEW m \in Seq(MessageSet), OnRecord(m)
    PROVE  Unbroken(m)
  <1>1. PICK l \in Nat : l = Len(m) /\ \A i \in 2..l : i - 1 \in 1..l
    <2>1. Len(m) \in Nat /\ \A i \in 2..Len(m) : i - 1 \in 1..Len(m)
      OBVIOUS
    <2> QED BY <2>1
  <1> QED BY <1>1 DEF OnRecord, Unbroken

(* The records of an answer are written.                                     *)
LEMMA AnswerWritten ==
    ASSUME TypeInv, log[Len(log)].type \notin {"assistant", "call"},
           NEW answered \in BOOLEAN, NEW calls \in Nat, answered \/ calls > 0,
           log' = log \o AnswerRecords(answered, calls)
    PROVE  \E e \in MessageSet :
              /\ e = AssistantMessage(Len(log) + 1, CallRecords(answered, calls))
              /\ e.role = "assistant" /\ e.rec # 0 /\ e.calls = CallRecords(answered, calls)
              /\ e.calls \subseteq (Len(log) + 1)..Len(log')
              /\ Replay(log') = Append(Replay(log), e)
              /\ Grown(log, log') /\ Gained(log, log', {"assistant", "call"})
              /\ WithAnswer(log, answered, calls, log')
  <1>1. log \in Seq(RecordSet) /\ log # <<>>
    BY DEF TypeInv
  <1>2. PICK n \in Nat : n = Len(log)
    BY <1>1
  <1>3. PICK more : more = log' /\ more = log \o AnswerRecords(answered, calls)
    OBVIOUS
  <1>4. WithAnswer(log, answered, calls, more)
    BY <1>1, <1>3, AnswerIs
  <1>5. PICK a \in {0, 1} : a = Answered(answered) /\ (answered <=> a = 1) /\ a + calls > 0
    BY DEF Answered
  <1>6. Len(more) = n + a + calls /\ more \in Seq(RecordSet)
    BY <1>2, <1>4, <1>5 DEF WithAnswer
  <1>7. Grown(log, more)
    <2>1. n + a + calls > n
      BY <1>5
    <2>2. more # <<>>
      BY <1>5, <1>6
    <2> QED BY <1>2, <1>4, <1>6, <2>1, <2>2 DEF WithAnswer, Grown
  <1>8. Gained(log, more, {"assistant", "call"})
    <2>1. \A i \in (n + 1)..(n + a + calls) :
              i \in (n + a + 1)..(n + a + calls) \/ (a = 1 /\ i = n + 1)
      BY <1>5
    <2>2. Record("assistant").type = "assistant" /\ Record("call").type = "call"
      BY DEF Record
    <2> QED BY <1>2, <1>4, <1>5, <1>6, <2>1, <2>2 DEF WithAnswer, Gained
  <1>9. Replay(more) = WithAsked(Replay(log), Len(log) + 1, CallsAfter(log, answered, calls))
    <2>1. Replay(log) \in Seq(MessageSet)
      BY <1>1, ReplayType
    <2> QED BY <1>1, <1>3, <2>1, ReplayAnswer
  <1>10. CallRecords(answered, calls) = CallsAfter(log, answered, calls)
    BY DEF CallRecords, CallsFrom, CallsAfter, Answered
  <1>11. CallsAfter(log, answered, calls) \subseteq (n + 1)..(n + a + calls)
    BY <1>2, <1>5 DEF CallsAfter
  <1>12. CallRecords(answered, calls) \in SUBSET Nat
    BY <1>10, <1>11
  <1>13. PICK e \in MessageSet :
             /\ e = AssistantMessage(Len(log) + 1, CallRecords(answered, calls))
             /\ e.role = "assistant" /\ e.rec = n + 1 /\ e.calls = CallRecords(answered, calls)
    <2>1. AssistantMessage(n + 1, CallRecords(answered, calls)) \in MessageSet
      BY <1>12, MessageTypes
    <2> QED BY <1>2, <2>1 DEF AssistantMessage
  <1>14. Replay(more) = Append(Replay(log), e)
    BY <1>9, <1>10, <1>13 DEF WithAsked
  <1>15. e.rec # 0 /\ e.calls \subseteq (Len(log) + 1)..Len(more)
    BY <1>2, <1>6, <1>10, <1>11, <1>13
  <1> QED BY <1>3, <1>4, <1>7, <1>8, <1>13, <1>14, <1>15

(* The first records of an answer are those of an answer.                    *)
LEMMA AnswerPart ==
    ASSUME NEW answered \in BOOLEAN, NEW calls \in Nat,
           NEW n \in 1..Len(AnswerRecords(answered, calls))
    PROVE  \E asked \in Nat :
              /\ answered \/ asked > 0
              /\ SubSeq(AnswerRecords(answered, calls), 1, n) = AnswerRecords(answered, asked)
  <1> DEFINE S == {Record("assistant"), Record("call")}
             own == AnswerRecords(answered, calls)
             a == Answered(answered)
             At(i) == IF answered /\ i = 1 THEN Record("assistant") ELSE Record("call")
  <1>1. ASSUME NEW k \in Nat
        PROVE  /\ AnswerRecords(answered, k) \in Seq(S)
               /\ Len(AnswerRecords(answered, k)) = a + k
               /\ \A i \in 1..(a + k) : AnswerRecords(answered, k)[i] = At(i)
    <2> DEFINE first == IF answered THEN <<Record("assistant")>> ELSE <<>>
               rest == [i \in 1..k |-> Record("call")]
    <2>1. first \in Seq(S) /\ Len(first) = a /\ a \in {0, 1} /\ (answered <=> a = 1)
          /\ (answered => first[1] = Record("assistant"))
      <3>1. PICK r \in S : r = Record("assistant")
        OBVIOUS
      <3> HIDE DEF S
      <3>2. <<r>> \in Seq(S) /\ Len(<<r>>) = 1 /\ <<r>>[1] = r /\ <<>> \in Seq(S) /\ Len(<<>>) = 0
        OBVIOUS
      <3>3. CASE answered
        BY <3>1, <3>2, <3>3 DEF Answered
      <3>4. CASE ~answered
        BY <3>2, <3>4 DEF Answered
      <3> QED BY <3>3, <3>4
    <2>2. rest \in Seq(S) /\ Len(rest) = k /\ \A i \in 1..k : rest[i] = Record("call")
      OBVIOUS
    <2>3. AnswerRecords(answered, k) = first \o rest
      BY DEF AnswerRecords
    <2> HIDE DEF first, rest, S, a
    <2>4. /\ first \o rest \in Seq(S) /\ Len(first \o rest) = Len(first) + Len(rest)
          /\ \A i \in 1..(Len(first) + Len(rest)) :
                (first \o rest)[i] = IF i <= Len(first) THEN first[i] ELSE rest[i - Len(first)]
      BY <2>1, <2>2, ConcatProperties
    <2>5. ASSUME NEW i \in 1..(a + k) PROVE (first \o rest)[i] = At(i)
      <3>1. (first \o rest)[i] = IF i <= a THEN first[i] ELSE rest[i - a]
        BY <2>1, <2>2, <2>4
      <3>2. CASE i <= a
        BY <2>1, <3>1, <3>2
      <3>3. CASE ~(i <= a)
        <4>1. i - a \in 1..k /\ ~(answered /\ i = 1)
          BY <2>1, <3>3
        <4> QED BY <2>2, <3>1, <3>3, <4>1
      <3> QED BY <3>2, <3>3
    <2> QED BY <2>1, <2>2, <2>3, <2>4, <2>5
  <1>2. a \in {0, 1} /\ (answered <=> a = 1)
    BY DEF Answered
  <1> HIDE DEF a, S, At
  <1>3. n \in Nat /\ n >= 1 /\ n <= a + calls
    BY <1>1, <1>2
  <1>4. PICK asked \in Nat : asked = n - a
    <2>1. n - a \in Nat
      BY <1>2, <1>3
    <2> QED BY <2>1
  <1>5. answered \/ asked > 0
    BY <1>2, <1>3, <1>4
  <1>6. PICK s \in Seq(S) : /\ s = own /\ Len(s) = a + calls /\ \A i \in 1..(a + calls) : s[i] = At(i)
    BY <1>1
  <1>7. PICK t \in Seq(S) : /\ t = AnswerRecords(answered, asked) /\ Len(t) = n
                            /\ \A i \in 1..n : t[i] = At(i)
    <2>1. a + asked = n
      BY <1>2, <1>3, <1>4
    <2> QED BY <1>1, <2>1
  <1> HIDE DEF own
  <1>8. \A i \in 1..n : s[i] \in S /\ s[i] = At(i)
    <2>1. \A i \in 1..n : i \in 1..(a + calls)
      BY <1>2, <1>3
    <2> QED BY <1>6, <2>1
  <1>9. /\ SubSeq(s, 1, n) \in Seq(S)
        /\ Len(SubSeq(s, 1, n)) = IF 1 <= n THEN n - 1 + 1 ELSE 0
        /\ \A i \in 1..(n - 1 + 1) : SubSeq(s, 1, n)[i] = s[1 + i - 1]
    BY <1>3, <1>8, SubSeqProperties
  <1>10. PICK u \in Seq(S) : u = SubSeq(s, 1, n) /\ Len(u) = n /\ \A i \in 1..n : u[i] = s[i]
    <2>1. (IF 1 <= n THEN n - 1 + 1 ELSE 0) = n /\ n - 1 + 1 = n /\ \A i \in 1..n : 1 + i - 1 = i
      BY <1>3
    <2> QED BY <1>9, <2>1
  <1>11. u = t
    BY <1>7, <1>8, <1>10, SeqEqual
  <1> QED BY <1>5, <1>6, <1>7, <1>10, <1>11 DEF own

(* What a push leaves alone.                                                 *)
LEMMA PushCompacted ==
    ASSUME NEW v, GoodView(v), NEW m \in MessageSet
    PROVE  Push(v, m).compacted = v.compacted
  BY DEF GoodView, ViewSet, Push

(* No compaction is added.                                                   *)
LEMMA NoneCompacted ==
    ASSUME NEW old, NEW new, Grown(old, new),
           Gained(old, new, {"other", "end", "user", "assistant", "call", "result"})
    PROVE  HasCompaction(new) = HasCompaction(old)
  <1>1. PICK n \in Nat, n2 \in Nat : n = Len(old) /\ n2 = Len(new) /\ n < n2
    <2>1. Len(old) \in Nat /\ Len(new) \in Nat /\ Len(old) < Len(new)
      BY DEF Grown
    <2> QED BY <2>1
  <1>2. /\ \A i \in 1..n : i \in 1..n2 /\ new[i] = old[i]
        /\ \A i \in 1..n2 : i \in 1..n \/ i \in (n + 1)..n2
    BY <1>1 DEF Grown
  <1>3. \A i \in 1..n2 : new[i].type = "compaction" => i \in 1..n
    BY <1>1, <1>2 DEF Gained
  <1> QED BY <1>1, <1>2, <1>3 DEF HasCompaction

------------------------------------------------------------------------------
(* What every step does to the calls and the conversations                   *)

\* What waits for its result, and what the records say of it: in the first life
\* of a session every call has its result or waits for it, and a turn has a user.
Batch ==
    /\ phase \notin {"tools", "canceling"} => todo = <<>>
    /\ Waits(log, todo)
    /\ lives = 1 /\ phase # "away" =>
          \A c \in 1..Len(log) : log[c].type = "call" =>
              c \in Answers(log) \/ \E k \in 1..Len(todo) : todo[k] = c
    /\ phase \notin {"idle", "away"} => \E i \in 1..Len(log) : log[i].type = "user"
\* The conversation and the replay of its transcript.
Conversations ==
    /\ Sound(log, view.messages, todo) /\ Sound(log, Replay(log), todo)
    /\ view.compacted = HasCompaction(log)
    /\ OnRecord(Replay(log)) /\ (~offRecord => OnRecord(view.messages))

(* A conversation of a turn is not empty.                                    *)
LEMMA NotEmpty ==
    ASSUME NEW records, NEW m, Pinned(records, m), \E i \in 1..Len(records) : records[i].type = "user"
    PROVE  m # <<>>
  BY DEF Pinned

(* If one conversation is not empty, the other is not.                       *)
LEMMA NeitherEmpty ==
    ASSUME NEW records, NEW m, NEW m2, Pinned(records, m), Pinned(records, m2), m # <<>>
    PROVE  m2 # <<>>
  <1>1. \E u \in 1..Len(records) : records[u].type = "user"
    BY DEF Pinned, IsFirst
  <1> QED BY <1>1, NotEmpty

(* The types of the conversations.                                           *)
LEMMA ConversationTypes ==
    ASSUME TypeInv
    PROVE  /\ log \in Seq(RecordSet) /\ log # <<>> /\ todo \in Seq(Nat)
           /\ GoodView(view) /\ view.messages \in Seq(MessageSet)
           /\ Replay(log) \in Seq(MessageSet)
  <1>1. log \in Seq(RecordSet) /\ log # <<>> /\ todo \in Seq(Nat) /\ GoodView(view)
    BY DEF TypeInv
  <1> QED BY <1>1, ReplayType DEF GoodView, ViewSet

(* A step that makes no call and answers none.                               *)
LEMMA BatchKept ==
    ASSUME TypeInv, Batch,
           \/ log' = log
           \/ /\ Grown(log, log')
              /\ Gained(log, log', {"other", "end", "user", "assistant", "call", "compaction"})
              /\ \/ phase' = "away"
                 \/ Gained(log, log', {"other", "end", "user", "assistant", "compaction"}),
           \/ todo' = todo /\ (phase' \notin {"tools", "canceling"} => todo = <<>>)
           \/ todo' = <<>> /\ phase' = "away",
           \/ phase' \in {"idle", "away"} \/ phase \notin {"idle", "away"}
           \/ \E i \in 1..Len(log') : log'[i].type = "user",
           lives' = 1 /\ phase' # "away" => lives = 1 /\ phase # "away"
    PROVE  Batch'
  <1>1. PICK n \in Nat, n2 \in Nat : n = Len(log) /\ n2 = Len(log') /\ n <= n2
    <2>1. Len(log) \in Nat /\ Len(log') \in Nat /\ Len(log) <= Len(log')
      BY DEF TypeInv, Grown
    <2> QED BY <2>1
  <1>2. /\ \A i \in 1..n : i \in 1..n2 /\ log'[i] = log[i]
        /\ \A i \in 1..n2 : i \in 1..n \/ i \in (n + 1)..n2
    BY <1>1 DEF Grown
  <1>3. Answers(log') = Answers(log)
    BY AnswersGrown
  <1>4. Waits(log, todo) /\ Len(<<>>) = 0
    BY DEF Batch
  <1>5. Waits(log, todo')
    <2>1. Waits(log, <<>>)
      BY <1>4 DEF Waits
    <2> QED BY <1>4, <2>1
  <1>6. Waits(log', todo')
    BY <1>1, <1>2, <1>3, <1>5 DEF Waits
  <1>7. ASSUME lives' = 1, phase' # "away", NEW c \in 1..n2, log'[c].type = "call"
        PROVE  c \in Answers(log') \/ \E k \in 1..Len(todo') : todo'[k] = c
    <2>1. c \in 1..n
      BY <1>1, <1>2, <1>7 DEF Gained
    <2>2. c \in Answers(log) \/ \E k \in 1..Len(todo) : todo[k] = c
      BY <1>1, <1>2, <1>7, <2>1 DEF Batch
    <2> QED BY <1>3, <1>7, <2>2
  <1>8. ASSUME phase' \notin {"idle", "away"} PROVE \E i \in 1..n2 : log'[i].type = "user"
    <2>1. CASE phase \notin {"idle", "away"}
      <3>1. PICK i \in 1..n : log[i].type = "user"
        BY <1>1, <2>1 DEF Batch
      <3> QED BY <1>2, <3>1
    <2>2. CASE phase \in {"idle", "away"}
      BY <1>1, <1>8, <2>2
    <2> QED BY <2>1, <2>2
  <1>9. phase' \notin {"tools", "canceling"} => todo' = <<>>
    OBVIOUS
  <1> QED BY <1>1, <1>6, <1>7, <1>8, <1>9 DEF Batch

(* Records that are no part of the conversation.                             *)
LEMMA TalkStays ==
    ASSUME TypeInv, Conversations,
           \/ log' = log
           \/ /\ Grown(log, log') /\ Gained(log, log', {"other", "end"})
              /\ Replay(log') = Replay(log),
           view'.messages = view.messages, view'.compacted = view.compacted,
           offRecord' = offRecord, todo' = todo \/ todo' = <<>>
    PROVE  Conversations'
  <1>1. log \in Seq(RecordSet) /\ view.messages \in Seq(MessageSet) /\ Replay(log) \in Seq(MessageSet)
    BY ConversationTypes
  <1>2. Replay(log') = Replay(log)
    OBVIOUS
  <1>3. Sound(log, view.messages, todo') /\ Sound(log, Replay(log), todo')
    BY SoundAtRest DEF Conversations
  <1>4. CASE log' = log
    BY <1>2, <1>3, <1>4 DEF Conversations
  <1>5. CASE Grown(log, log') /\ Gained(log, log', {"other", "end"})
    <2>1. /\ Gained(log, log', {"other", "end", "assistant", "call"})
          /\ Gained(log, log', {"other", "end", "user", "assistant", "call", "result"})
      BY <1>5 DEF Gained
    <2>2. Sound(log', view.messages, todo') /\ Sound(log', Replay(log), todo')
      BY <1>1, <1>3, <1>5, <2>1, SoundGoesOn
    <2>3. HasCompaction(log') = HasCompaction(log)
      BY <1>5, <2>1, NoneCompacted
    <2> QED BY <1>2, <2>2, <2>3 DEF Conversations
  <1> QED BY <1>4, <1>5

(* A user's message.                                                         *)
LEMMA TalkUser ==
    ASSUME TypeInv, Conversations, Grown(log, log'), NEW k \in Nat, UserAt(k), GoodView(view'),
           todo = <<>>, todo' = <<>>, offRecord' = offRecord
    PROVE  Conversations'
  <1>1. log \in Seq(RecordSet) /\ view.messages \in Seq(MessageSet) /\ Replay(log) \in Seq(MessageSet)
    BY ConversationTypes
  <1>2. /\ k \in (Len(log) + 1)..Len(log') /\ log'[k].type = "user"
        /\ \A i \in (Len(log) + 1)..Len(log') : i # k => log'[i].type = "other"
        /\ view'.compacted = view.compacted
    BY DEF UserAt
  <1>3. UserMessage(k) \in MessageSet /\ UserMessage(k).rec # 0
    <2>1. k # 0
      BY <1>1, <1>2
    <2> QED BY <2>1, MessageTypes DEF UserMessage
  <1>4. /\ view'.messages \in Seq(MessageSet) /\ Longer(view.messages, UserMessage(k), view'.messages)
        /\ Replay(log') \in Seq(MessageSet) /\ Longer(Replay(log), UserMessage(k), Replay(log'))
    <2>1. ASSUME NEW s \in Seq(MessageSet), NEW t, t = Append(s, UserMessage(k))
          PROVE  t \in Seq(MessageSet) /\ Longer(s, UserMessage(k), t)
      BY <1>3, <2>1, Added DEF Longer
    <2> QED BY <1>1, <2>1 DEF UserAt
  <1>5. Sound(log, view.messages, <<>>) /\ Sound(log, Replay(log), <<>>)
    BY DEF Conversations
  <1>6. Sound(log', view'.messages, <<>>)
    BY ONLY <1>1, <1>2, <1>4, <1>5, Grown(log, log'), SoundUser
  <1>7. Sound(log', Replay(log'), <<>>)
    BY ONLY <1>1, <1>2, <1>4, <1>5, Grown(log, log'), SoundUser
  <1>8. OnRecord(Replay(log')) /\ (~offRecord => OnRecord(view'.messages))
    BY <1>3, <1>4, OnRecordLonger DEF Conversations
  <1>9. view'.compacted = HasCompaction(log')
    <2>1. Gained(log, log', {"other", "end", "user", "assistant", "call", "result"})
      BY <1>2 DEF Gained
    <2> QED BY <1>2, <2>1, NoneCompacted DEF Conversations
  <1> QED BY <1>6, <1>7, <1>8, <1>9 DEF Conversations

(* An element is added.                                                      *)
LEMMA OneMore ==
    ASSUME NEW S, NEW s \in Seq(S), NEW e \in S, NEW t, t = Append(s, e)
    PROVE  t \in Seq(S) /\ Longer(s, e, t) /\ t # <<>>
  <1>1. /\ t \in Seq(S) /\ t # <<>> /\ Len(s) \in Nat /\ Len(t) = Len(s) + 1
        /\ t[Len(t)] = e /\ \A i \in 1..Len(s) : t[i] = s[i]
    BY Added
  <1> QED BY <1>1 DEF Longer

(* A record is added.                                                        *)
LEMMA OneRecord ==
    ASSUME NEW old \in Seq(RecordSet), NEW r \in RecordSet, NEW new, new = Append(old, r)
    PROVE  /\ Grown(old, new) /\ Longer(old, r, new) /\ new \in Seq(RecordSet)
           /\ \A types : r.type \in types => Gained(old, new, types)
  <1>1. Grown(old, new) /\ Longer(old, r, new) /\ new \in Seq(RecordSet)
    BY GrownByOne, OneMore
  <1>2. /\ Len(new) = Len(old) + 1 /\ new[Len(old) + 1] = r
        /\ \A i \in (Len(old) + 1)..(Len(old) + 1) : i = Len(old) + 1
    BY <1>1 DEF Longer
  <1> QED BY <1>1, <1>2 DEF Gained

(* A push makes the conversation longer.                                     *)
LEMMA PushIs ==
    ASSUME NEW v, GoodView(v), NEW e \in MessageSet
    PROVE  /\ GoodView(Push(v, e)) /\ Push(v, e).messages \in Seq(MessageSet)
           /\ Longer(v.messages, e, Push(v, e).messages) /\ Push(v, e).compacted = v.compacted
  <1>1. GoodView(Push(v, e)) /\ Push(v, e).messages = Append(v.messages, e)
    BY PushView
  <1>2. v.messages \in Seq(MessageSet) /\ Push(v, e).messages \in Seq(MessageSet)
    BY <1>1 DEF GoodView, ViewSet
  <1>3. PICK t : t = Push(v, e).messages /\ t = Append(v.messages, e)
    BY <1>1
  <1>4. Longer(v.messages, e, t)
    BY <1>2, <1>3, Added DEF Longer
  <1> QED BY <1>1, <1>2, <1>3, <1>4, PushCompacted

(* The report of the completion checks, after their record.                  *)
LEMMA TalkSynthetic ==
    ASSUME TypeInv, Conversations, log' = Append(log, Other), view' = Push(view, Synthetic),
           view.messages # <<>>, offRecord' = TRUE, todo' = todo
    PROVE  Conversations'
  <1>1. /\ log \in Seq(RecordSet) /\ view.messages \in Seq(MessageSet) /\ GoodView(view)
        /\ Replay(log) \in Seq(MessageSet)
    BY ConversationTypes
  <1>2. Grown(log, log') /\ Gained(log, log', {"other", "end"}) /\ Replay(log') = Replay(log)
    <2>1. Other \in RecordSet /\ Other = Record("other") /\ Other.type = "other"
      BY RecordTypesAre
    <2>2. Grown(log, log') /\ Gained(log, log', {"other", "end"})
      BY <1>1, <2>1, OneRecord
    <2>3. Replay(log') = Replay(log)
      BY <1>1, <2>1, ReplayQuiet
    <2> QED BY <2>2, <2>3
  <1>3. /\ Gained(log, log', {"other", "end", "assistant", "call"})
        /\ Gained(log, log', {"other", "end", "user", "assistant", "call", "result"})
    BY <1>2 DEF Gained
  <1>4. Sound(log', view.messages, todo) /\ Sound(log', Replay(log), todo)
    BY <1>1, <1>2, <1>3, SoundGoesOn DEF Conversations
  <1>5. /\ view'.messages \in Seq(MessageSet) /\ Longer(view.messages, Synthetic, view'.messages)
        /\ view'.compacted = view.compacted
    BY <1>1, MessageTypes, PushIs
  <1>6. log' \in Seq(RecordSet)
    BY <1>2 DEF Grown
  <1>7. Sound(log', view'.messages, todo)
    BY <1>1, <1>4, <1>5, <1>6, SoundSynthetic
  <1>8. HasCompaction(log') = HasCompaction(log)
    BY <1>2, <1>3, NoneCompacted
  <1> QED BY <1>2, <1>4, <1>5, <1>7, <1>8 DEF Conversations

(* An answer, in the conversation or only in the transcript.                 *)
LEMMA TalkAnswer ==
    ASSUME TypeInv, Conversations, Waits(log, todo), todo = <<>>,
           view.messages # <<>>, Replay(log) # <<>>,
           log[Len(log)].type \notin {"assistant", "call"},
           NEW answered \in BOOLEAN, NEW calls \in Nat, answered \/ calls > 0,
           log' = log \o AnswerRecords(answered, calls),
           \A k \in 1..Len(todo') : todo'[k] \in CallRecords(answered, calls),
           \/ /\ view' = Push(view, AssistantMessage(Len(log) + 1, CallRecords(answered, calls)))
              /\ offRecord' = offRecord
           \/ view' = view /\ offRecord' = TRUE /\ todo' = <<>>
    PROVE  Conversations'
  <1>1. /\ log \in Seq(RecordSet) /\ view.messages \in Seq(MessageSet) /\ GoodView(view)
        /\ Replay(log) \in Seq(MessageSet)
    BY ConversationTypes
  <1>2. PICK e \in MessageSet :
            /\ e = AssistantMessage(Len(log) + 1, CallRecords(answered, calls))
            /\ e.role = "assistant" /\ e.rec # 0 /\ e.calls = CallRecords(answered, calls)
            /\ e.calls \subseteq (Len(log) + 1)..Len(log')
            /\ Replay(log') = Append(Replay(log), e)
            /\ Grown(log, log') /\ Gained(log, log', {"assistant", "call"})
            /\ WithAnswer(log, answered, calls, log')
    BY AnswerWritten
  <1>3. /\ Gained(log, log', {"other", "end", "assistant", "call"})
        /\ Gained(log, log', {"other", "end", "user", "assistant", "call", "result"})
    BY <1>2 DEF Gained
  <1>4. HasCompaction(log') = HasCompaction(log)
    BY <1>2, <1>3, NoneCompacted
  <1>5. /\ Sound(log, view.messages, <<>>) /\ Sound(log, Replay(log), <<>>)
        /\ Answers(log) \subseteq 1..Len(log) /\ Grown(log, log')
        /\ Gained(log, log', {"assistant", "call"}) /\ e.role = "assistant"
        /\ e.calls \subseteq (Len(log) + 1)..Len(log')
        /\ \A k \in 1..Len(todo') : todo'[k] \in e.calls
    BY <1>2 DEF Conversations, Waits
  <1>6. Longer(Replay(log), e, Replay(log')) /\ Replay(log') \in Seq(MessageSet)
    <2>1. PICK t : t = Replay(log') /\ t = Append(Replay(log), e)
      BY <1>2
    <2> QED BY <1>1, <2>1, OneMore
  <1>7. Sound(log', Replay(log'), todo')
    BY ONLY <1>1, <1>5, <1>6, Replay(log) # <<>>, e \in MessageSet, SoundAnswer
  <1>8. OnRecord(Replay(log'))
    BY <1>2, <1>6, OnRecordLonger DEF Conversations
  <1>9. CASE view' = Push(view, e) /\ offRecord' = offRecord
    <2>1. /\ view'.messages \in Seq(MessageSet) /\ Longer(view.messages, e, view'.messages)
          /\ view'.compacted = view.compacted
      BY <1>1, <1>9, PushIs
    <2>2. Sound(log', view'.messages, todo')
      BY ONLY <1>1, <1>5, <2>1, view.messages # <<>>, e \in MessageSet, SoundAnswer
    <2>3. ~offRecord => OnRecord(view'.messages)
      BY <1>2, <2>1, OnRecordLonger DEF Conversations
    <2> QED BY <1>4, <1>7, <1>8, <1>9, <2>1, <2>2, <2>3 DEF Conversations
  <1>10. CASE view' = view /\ offRecord' = TRUE /\ todo' = <<>>
    <2>1. Sound(log', view.messages, <<>>)
      BY <1>1, <1>3, <1>5, SoundGoesOn
    <2> QED BY <1>4, <1>7, <1>8, <1>10, <2>1 DEF Conversations
  <1> QED BY <1>2, <1>9, <1>10

(* A result, and an image after it.                                          *)
LEMMA TalkResult ==
    ASSUME TypeInv, Conversations, Waits(log, todo), todo # <<>>,
           view.messages # <<>>, Replay(log) # <<>>,
           log' = Append(log, Result(Head(todo))), todo' = Tail(todo),
           NEW pushed, pushed = Push(view, ToolMessage(Len(log) + 1, Head(todo))),
           \/ view' = pushed /\ offRecord' = offRecord
           \/ view' = Push(pushed, Synthetic) /\ offRecord' = TRUE
    PROVE  Conversations' /\ Waits(log', todo') /\ Answers(log') = Answers(log) \cup {Head(todo)}
  <1>1. /\ log \in Seq(RecordSet) /\ view.messages \in Seq(MessageSet) /\ GoodView(view)
        /\ Replay(log) \in Seq(MessageSet) /\ todo \in Seq(Nat)
    BY ConversationTypes
  <1>2. PICK c \in Nat : c = Head(todo)
    BY <1>1
  <1>3. /\ Grown(log, log') /\ Longer(log, Result(c), log') /\ log' \in Seq(RecordSet)
        /\ Replay(log') = Append(Replay(log), ToolMessage(Len(log) + 1, c))
    <2>1. Result(c) \in RecordSet
      BY RecordTypesAre
    <2>2. log' = Append(log, Result(c))
      BY <1>2
    <2>3. Grown(log, log') /\ Longer(log, Result(c), log') /\ log' \in Seq(RecordSet)
      BY <1>1, <2>1, <2>2, OneRecord
    <2>4. Replay(log') = Append(Replay(log), ToolMessage(Len(log) + 1, c))
      BY <1>1, <2>2, ReplayResult
    <2> QED BY <2>3, <2>4
  <1>4. Answers(log') = Answers(log) \cup {c}
    BY <1>3, AnswersResult
  <1>5. ToolMessage(Len(log) + 1, c) \in MessageSet /\ ToolMessage(Len(log) + 1, c).rec # 0
    <2>1. Len(log) + 1 \in Nat /\ Len(log) + 1 # 0
      BY <1>1
    <2> QED BY <2>1, MessageTypes DEF ToolMessage
  <1>6. /\ Longer(Replay(log), ToolMessage(Len(log) + 1, c), Replay(log'))
        /\ Replay(log') \in Seq(MessageSet)
    <2>1. PICK t : t = Replay(log') /\ t = Append(Replay(log), ToolMessage(Len(log) + 1, c))
      BY <1>3
    <2> QED BY <1>1, <1>5, <2>1, OneMore
  <1>7. Sound(log, view.messages, todo) /\ Sound(log, Replay(log), todo)
    BY DEF Conversations
  <1>8. Sound(log', Replay(log'), Tail(todo)) /\ Waits(log', Tail(todo))
    BY ONLY <1>1, <1>2, <1>3, <1>6, <1>7, Waits(log, todo), todo # <<>>, Replay(log) # <<>>,
            SoundResult
  <1>9. /\ GoodView(pushed) /\ pushed.messages \in Seq(MessageSet)
        /\ Longer(view.messages, ToolMessage(Len(log) + 1, c), pushed.messages)
        /\ pushed.compacted = view.compacted
    BY <1>1, <1>2, <1>5, PushIs
  <1>10. Sound(log', pushed.messages, Tail(todo))
    BY ONLY <1>1, <1>2, <1>3, <1>7, <1>9, Waits(log, todo), todo # <<>>, view.messages # <<>>,
            SoundResult
  <1>11. HasCompaction(log') = HasCompaction(log)
    <2>1. Gained(log, log', {"other", "end", "user", "assistant", "call", "result"})
      <3>1. Result(c) \in RecordSet /\ Result(c).type = "result" /\ log' = Append(log, Result(c))
        BY <1>2, RecordTypesAre
      <3> QED BY <1>1, <3>1, OneRecord
    <2> QED BY <1>3, <2>1, NoneCompacted
  <1>12. OnRecord(Replay(log'))
    BY <1>5, <1>6, OnRecordLonger DEF Conversations
  <1>13. CASE view' = pushed /\ offRecord' = offRecord
    <2>1. ~offRecord => OnRecord(pushed.messages)
      BY <1>5, <1>9, OnRecordLonger DEF Conversations
    <2>2. Conversations'
      BY <1>8, <1>9, <1>10, <1>11, <1>12, <1>13, <2>1 DEF Conversations
    <2> QED BY <1>2, <1>4, <1>8, <2>2
  <1>14. CASE view' = Push(pushed, Synthetic) /\ offRecord' = TRUE
    <2>1. /\ view'.messages \in Seq(MessageSet) /\ Longer(pushed.messages, Synthetic, view'.messages)
          /\ view'.compacted = view.compacted
      BY <1>9, <1>14, MessageTypes, PushIs
    <2>2. pushed.messages # <<>>
      <3>1. Len(view.messages) \in Nat /\ Len(pushed.messages) = Len(view.messages) + 1
        BY <1>9 DEF Longer
      <3> QED BY <1>9, <3>1
    <2>3. Sound(log', view'.messages, Tail(todo))
      BY <1>3, <1>9, <1>10, <2>1, <2>2, SoundSynthetic
    <2>4. Conversations'
      BY <1>8, <1>11, <1>12, <1>14, <2>1, <2>3 DEF Conversations
    <2> QED BY <1>2, <1>4, <1>8, <2>4
  <1> QED BY <1>13, <1>14

(* A compaction, or none.                                                    *)
LEMMA TalkCompact ==
    ASSUME TypeInv, Faithful, Conversations, todo = <<>>, todo' = <<>>,
           NEW trigger \in {"auto", "manual"}, NEW requested,
           Compact(trigger, requested), offRecord' = offRecord
    PROVE  /\ Conversations'
           /\ log' = log \/ (Grown(log, log') /\ Gained(log, log', {"compaction"}))
  <1> DEFINE from == IF view.messages = <<>> THEN 0 ELSE 1
             to == CutBefore(view.messages, from, KeepRecentTurns)
  <1>1. /\ log \in Seq(RecordSet) /\ log # <<>> /\ GoodView(view) /\ Replay(log) \in Seq(MessageSet)
        /\ offRecord \in BOOLEAN
    BY ConversationTypes DEF TypeInv
  <1>2. PICK vm \in Seq(MessageSet) : vm = view.messages
    BY ConversationTypes
  <1>3. from \in Nat /\ from <= Len(vm) /\ Len(vm) \in Nat
    BY <1>2
  <1>4. vm = <<>> => Len(vm) = 0 /\ from = 0
    BY <1>2
  <1>5. vm # <<>> => from = 1
    BY <1>2
  <1> HIDE DEF from
  <1>6. /\ to \in from..Len(vm)
        /\ to > from => to = Len(vm) \/ vm[to + 1].role = "user"
    <2>1. KeepRecentTurns \in Nat
      BY HistoryAssumption
    <2>2. /\ CutBefore(vm, from, KeepRecentTurns) \in from..Len(vm)
          /\ CutBefore(vm, from, KeepRecentTurns) > from =>
                \/ CutBefore(vm, from, KeepRecentTurns) = Len(vm)
                \/ vm[CutBefore(vm, from, KeepRecentTurns) + 1].role = "user"
      BY <1>3, <2>1, CutIsTurn
    <2> QED BY <1>2, <2>2
  <1>7. to \in Nat /\ from <= to /\ to <= Len(vm)
    BY <1>3, <1>6
  <1> HIDE DEF to
  <1>8. \/ log' = log /\ view' = view
        \/ /\ ~(to <= from) /\ log' = Append(log, Compaction(from, to, trigger))
           /\ view' = CompactedView(from, to, Len(log) + 1)
    BY DEF Compact, from, to
  <1>9. CASE log' = log /\ view' = view
    BY <1>9, TalkStays
  <1>10. CASE /\ ~(to <= from) /\ log' = Append(log, Compaction(from, to, trigger))
              /\ view' = CompactedView(from, to, Len(log) + 1)
    <2>1. vm # <<>> /\ from = 1 /\ to > 1 /\ to \in 1..Len(vm)
          /\ (to < Len(vm) => vm[to + 1].role = "user")
      BY <1>3, <1>4, <1>5, <1>6, <1>7, <1>10
    <2>2. PICK r \in RecordSet :
              /\ r = Compaction(from, to, trigger) /\ r.type = "compaction"
              /\ r.from = from /\ r.to = to /\ r.off = offRecord
      <3>1. PICK r : r = [type |-> "compaction", from |-> from, to |-> to,
                          trigger |-> trigger, off |-> offRecord]
        OBVIOUS
      <3>2. r \in [type : {"compaction"}, from : Nat, to : Nat, trigger : {"auto", "manual"},
                   off : BOOLEAN]
        BY <1>1, <1>3, <1>7, <3>1
      <3>3. r \in RecordSet
        BY <3>2 DEF RecordSet
      <3> QED BY <3>1, <3>3 DEF Compaction
    <2>3. /\ Grown(log, log') /\ Longer(log, r, log') /\ Gained(log, log', {"compaction"})
          /\ log' = Append(log, r) /\ log' \in Seq(RecordSet)
      <3>1. log' = Append(log, r)
        BY <1>10, <2>2
      <3> QED BY <1>1, <2>2, <3>1, OneRecord
    <2>4. PICK n \in Nat : n = Len(log) /\ Len(log') = n + 1 /\ log'[n + 1] = r
      BY <1>1, <2>3 DEF Longer
    <2>5. /\ UserMessage(n + 1) \in MessageSet /\ UserMessage(n + 1).rec # 0
          /\ UserMessage(Len(log) + 1) = UserMessage(n + 1)
      BY <2>4, MessageTypes DEF UserMessage
    <2>6. Sound(log, vm, <<>>) /\ Sound(log, Replay(log), <<>>)
      BY <1>2 DEF Conversations
    <2>7. Clean(log') => Replay(log) = vm /\ Unbroken(vm)
      <3>1. ASSUME Clean(log') PROVE ~offRecord /\ Clean(log)
        <4>1. n + 1 \in 1..Len(log')
          BY <2>4
        <4>2. ~r.off
          BY <2>2, <2>4, <3>1, <4>1 DEF Clean
        <4> QED BY <2>2, <2>3, <3>1, <4>2, CleanBefore
      <3>2. ASSUME Clean(log') PROVE Replay(log) = vm /\ OnRecord(vm)
        BY <1>2, <3>1, <3>2 DEF Faithful, Conversations
      <3> QED BY <3>2, OnRecordUnbroken
    <2>8. /\ IsSplice(MessageSet, vm, 1, to, UserMessage(n + 1), view'.messages)
          /\ view'.compacted = TRUE
      <3>1. view'.messages = Splice(vm, from, to, UserMessage(Len(log) + 1))
        BY <1>1, <1>2, <1>3, <1>7, <1>10, <2>4, CompactedIs
      <3>2. IsSplice(MessageSet, vm, from, to, UserMessage(n + 1),
                     Splice(vm, from, to, UserMessage(n + 1)))
        BY <1>3, <1>7, <2>5, Spliced
      <3>3. view'.compacted = TRUE
        BY <1>1, <1>10 DEF CompactedView, GoodView, ViewSet
      <3> QED BY <2>1, <2>5, <3>1, <3>2, <3>3
    <2>9. Sound(log', view'.messages, <<>>)
      <3>1. Clean(log') => Unbroken(vm) /\ (to < Len(vm) => vm[to + 1].role = "user")
        BY <2>1, <2>7
      <3>2. IsSplice(MessageSet, vm, 1, to, UserMessage(Len(log) + 1), view'.messages)
        BY <2>5, <2>8
      <3>3. r.type = "compaction" /\ vm # <<>> /\ to \in 1..Len(vm)
        BY <2>1, <2>2
      <3> QED BY ONLY <1>1, <2>3, <2>6, <3>1, <3>2, <3>3, vm \in Seq(MessageSet), SoundCut
    <2>10. PICK R \in Seq(MessageSet) : R = Replay(log) /\ R # <<>>
      BY <1>1, <2>1, <2>6, NeitherEmpty DEF Sound
    <2>11. PICK l \in Nat : l = Len(R) /\ l > 0
      BY <2>10
    <2>12. PICK cut \in 1..l : cut = AtMost(to, l)
      BY <2>1, <2>11 DEF AtMost
    <2>13. Replay(log') = Splice(R, 1, cut, UserMessage(n + 1))
      <3>1. Replay(log') = ReplayRecord(log', R, n + 1)
        BY <1>1, <2>3, <2>4, <2>10, ReplayOneMore
      <3>2. AtMost(r.from, Len(R)) = 1 /\ AtMost(r.to, Len(R)) = cut /\ 1 <= cut
        BY <2>1, <2>2, <2>11, <2>12 DEF AtMost
      <3> QED BY <2>2, <2>4, <3>1, <3>2 DEF ReplayRecord
    <2>14. IsSplice(MessageSet, R, 1, cut, UserMessage(n + 1), Replay(log'))
      <3>1. 1 \in Nat /\ cut \in Nat /\ 1 <= cut /\ cut <= Len(R)
        BY <2>11
      <3>2. IsSplice(MessageSet, R, 1, cut, UserMessage(n + 1), Splice(R, 1, cut, UserMessage(n + 1)))
        BY <2>5, <3>1, Spliced
      <3> QED BY <2>13, <3>2
    <2>15. Sound(log', Replay(log'), <<>>)
      <3>1. Clean(log') => Unbroken(R) /\ (cut < Len(R) => R[cut + 1].role = "user")
        <4>1. ASSUME Clean(log') PROVE R = vm /\ cut = to
          BY <2>1, <2>7, <2>10, <2>11, <2>12, <4>1 DEF AtMost
        <4> QED BY <2>1, <2>7, <4>1
      <3>2. IsSplice(MessageSet, R, 1, cut, UserMessage(Len(log) + 1), Replay(log'))
        BY <2>5, <2>14
      <3>3. r.type = "compaction" /\ R # <<>> /\ cut \in 1..Len(R) /\ Sound(log, R, <<>>)
        BY <2>2, <2>6, <2>10, <2>11
      <3> QED BY ONLY <1>1, <2>3, <3>1, <3>2, <3>3, R \in Seq(MessageSet), SoundCut
    <2>16. OnRecord(Replay(log')) /\ (~offRecord => OnRecord(view'.messages))
      <3>1. \A k \in 1..Len(R) : 1 \in Nat /\ k \in Nat /\ 1 <= k /\ k <= Len(R)
        BY <2>11
      <3>2. OnRecord(R) /\ (~offRecord => OnRecord(vm))
        BY <1>2, <2>10 DEF Conversations
      <3>3. OnRecord(Replay(log'))
        BY <2>5, <2>11, <2>14, <3>1, <3>2, OnRecordSpliced
      <3>4. 1 \in Nat /\ 1 <= to
        BY <2>1
      <3> QED BY <1>7, <2>5, <2>8, <3>2, <3>3, <3>4, OnRecordSpliced
    <2>17. HasCompaction(log') = TRUE
      <3>1. n + 1 \in 1..Len(log')
        BY <2>4
      <3> QED BY <2>2, <2>4, <3>1 DEF HasCompaction
    <2> QED BY <2>3, <2>8, <2>9, <2>15, <2>16, <2>17 DEF Conversations
  <1> QED BY <1>8, <1>9, <1>10

(* A resume.                                                                 *)
LEMMA TalkResume ==
    ASSUME Inv, Conversations, ResumeSession
    PROVE  Conversations'
  <1>1. TypeInv /\ CacheAgrees /\ log' = log /\ todo' = todo
    BY DEF Inv, ResumeSession
  <1>2. CASE CacheValid
    <2>1. view' = view
      BY <1>1, <1>2 DEF ResumeSession, CacheValid, CacheAgrees
    <2>2. offRecord' = offRecord
      BY <1>1, <1>2 DEF ResumeSession, TypeInv
    <2> QED BY <1>1, <2>1, <2>2 DEF Conversations
  <1>3. CASE ~CacheValid
    <2>1. view' = Replayed(log) /\ offRecord' = FALSE
      BY <1>3 DEF ResumeSession
    <2>2. log \in Seq(RecordSet)
      BY <1>1 DEF TypeInv
    <2>3. Replayed(log).messages = Replay(log)
      BY <2>2, ReplayedType
    <2>4. Replayed(log).compacted = HasCompaction(log)
      <3>1. DOMAIN log = 1..Len(log)
        BY <2>2
      <3> QED BY <3>1 DEF Replayed, HasCompaction
    <2> QED BY <1>1, <2>1, <2>3, <2>4 DEF Conversations
  <1> QED BY <1>2, <1>3

\* Calls and conversations are as they should be.
PairInv == Batch /\ Conversations

(* Records that are no part of the conversation are written.                 *)
LEMMA QuietStep ==
    ASSUME TypeInv, PairInv,
           log' = log \/ \E type \in {"other", "end"} : log' = Append(log, Record(type)),
           view' = view, offRecord' = offRecord, lives' = lives,
           \/ todo' = todo /\ (phase' \notin {"tools", "canceling"} => todo = <<>>)
           \/ todo' = <<>> /\ phase' = "away",
           phase' \in {"idle", "away"} \/ phase \notin {"idle", "away"},
           phase' # "away" => phase # "away"
    PROVE  PairInv'
  <1>1. log \in Seq(RecordSet)
    BY DEF TypeInv
  <1>2. \/ log' = log
        \/ /\ Grown(log, log') /\ Gained(log, log', {"other", "end"})
           /\ Replay(log') = Replay(log)
    <2>1. ASSUME NEW type \in {"other", "end"}, log' = Append(log, Record(type))
          PROVE  /\ Grown(log, log') /\ Gained(log, log', {"other", "end"})
                 /\ Replay(log') = Replay(log)
      <3>1. Record(type) \in RecordSet /\ Record(type).type \in {"other", "end"}
        BY RecordTypesAre
      <3>2. Grown(log, log') /\ Gained(log, log', {"other", "end"})
        BY <1>1, <2>1, <3>1, OneRecord
      <3> QED BY <1>1, <2>1, <3>2, ReplayQuiet
    <2> QED BY <2>1
  <1>3. \/ log' = log
        \/ /\ Grown(log, log')
           /\ Gained(log, log', {"other", "end", "user", "assistant", "call", "compaction"})
           /\ \/ phase' = "away"
              \/ Gained(log, log', {"other", "end", "user", "assistant", "compaction"})
    BY <1>2 DEF Gained
  <1>4. todo' = todo \/ todo' = <<>>
    OBVIOUS
  <1>5. Conversations'
    BY <1>2, <1>4, TalkStays DEF PairInv
  <1>6. Batch'
    <2>1. lives' = 1 /\ phase' # "away" => lives = 1 /\ phase # "away"
      OBVIOUS
    <2>2. \/ phase' \in {"idle", "away"} \/ phase \notin {"idle", "away"}
          \/ \E i \in 1..Len(log') : log'[i].type = "user"
      OBVIOUS
    <2> QED BY <1>3, <2>1, <2>2, BatchKept DEF PairInv
  <1> QED BY <1>5, <1>6 DEF PairInv

(* A user's message starts or resumes a turn.                                *)
LEMMA UserStep ==
    ASSUME TypeInv, PairInv, phase \in {"idle", "halted"}, phase' = "streaming",
           NEW before \in {<<>>, <<Other>>}, PushUser(before),
           UNCHANGED <<todo, lives, offRecord>>
    PROVE  PairInv'
  <1>1. /\ Grown(log, log') /\ GoodView(view')
        /\ \E k \in Nat : UserAt(k)
    BY UserPushed
  <1>2. PICK k \in Nat : UserAt(k)
    BY <1>1
  <1>3. todo = <<>> /\ todo' = <<>>
    BY DEF PairInv, Batch
  <1>4. Conversations'
    BY <1>1, <1>2, <1>3, TalkUser DEF PairInv
  <1>5. /\ k \in (Len(log) + 1)..Len(log') /\ log'[k].type = "user"
        /\ \A i \in (Len(log) + 1)..Len(log') : i # k => log'[i].type = "other"
    BY <1>2 DEF UserAt
  <1>6. /\ Gained(log, log', {"other", "end", "user", "assistant", "call", "compaction"})
        /\ Gained(log, log', {"other", "end", "user", "assistant", "compaction"})
    BY <1>5 DEF Gained
  <1>7. \E i \in 1..Len(log') : log'[i].type = "user"
    <2>1. k \in 1..Len(log')
      BY <1>1, <1>5 DEF Grown
    <2> QED BY <1>5, <2>1
  <1>8. Batch'
    BY <1>1, <1>3, <1>6, <1>7, BatchKept DEF PairInv
  <1> QED BY <1>4, <1>8 DEF PairInv

(* The conversations of a turn are not empty.                                *)
LEMMA InTurn ==
    ASSUME PairInv, phase \notin {"idle", "away"}
    PROVE  view.messages # <<>> /\ Replay(log) # <<>>
  <1>1. \E i \in 1..Len(log) : log[i].type = "user"
    BY DEF PairInv, Batch
  <1>2. Pinned(log, view.messages) /\ Pinned(log, Replay(log))
    BY DEF PairInv, Conversations, Sound
  <1> QED BY <1>1, <1>2, NotEmpty

(* An answer without calls, or reasoning that is only recorded.              *)
LEMMA AnswerStep ==
    ASSUME Inv, PairInv, NEW answered \in BOOLEAN, Answer(answered)
    PROVE  PairInv'
  <1>1. /\ TypeInv /\ log \in Seq(RecordSet) /\ phase = "streaming"
        /\ log[Len(log)].type \notin {"assistant", "call"}
        /\ phase' \in {"ending", "checking"} /\ todo' = todo /\ lives' = lives
    BY DEF Inv, TypeInv, StreamClean, Answer
  <1>2. todo = <<>> /\ todo' = <<>> /\ Waits(log, todo) /\ Len(<<>>) = 0
    BY <1>1 DEF PairInv, Batch
  <1>3. view.messages # <<>> /\ Replay(log) # <<>>
    BY <1>1, InTurn
  <1>4. CASE PushAnswer(answered, 0) /\ ~answered
    <2>1. AnswerRecords(answered, 0) = <<>>
      BY <1>4 DEF AnswerRecords
    <2>2. log' = log /\ view' = view /\ offRecord' = offRecord
      BY <1>1, <1>4, <2>1 DEF PushAnswer
    <2> QED BY <1>1, <1>2, <2>2, QuietStep
  <1>5. CASE (PushAnswer(answered, 0) /\ answered) \/ RecordReasoning
    <2>1. PICK n \in Nat : n = 0
      OBVIOUS
    <2>2. PICK yes \in BOOLEAN : yes = TRUE
      OBVIOUS
    <2>3. log' = log \o AnswerRecords(yes, n)
      <3>1. CASE PushAnswer(answered, 0) /\ answered
        BY <2>1, <2>2, <3>1 DEF PushAnswer
      <3>2. CASE RecordReasoning
        <4>1. [i \in 1..n |-> Record("call")] = <<>>
          BY <2>1
        <4>2. Record("assistant") \in RecordSet
          BY RecordTypesAre
        <4>3. PICK r \in RecordSet : r = Record("assistant")
          BY <4>2
        <4>4. <<r>> \o <<>> = <<r>> /\ log \o <<r>> = Append(log, r)
          BY <1>1
        <4>5. AnswerRecords(yes, n) = <<r>>
          BY <2>2, <4>1, <4>3, <4>4 DEF AnswerRecords
        <4> QED BY <3>2, <4>3, <4>4, <4>5 DEF RecordReasoning
      <3> QED BY <1>5, <3>1, <3>2
    <2>4. \/ /\ view' = Push(view, AssistantMessage(Len(log) + 1, CallRecords(yes, n)))
             /\ offRecord' = offRecord
          \/ view' = view /\ offRecord' = TRUE /\ todo' = <<>>
      BY <1>2, <1>5, <2>1, <2>2 DEF PushAnswer, RecordReasoning
    <2>5. \A k \in 1..Len(todo') : todo'[k] \in CallRecords(yes, n)
      BY <1>2
    <2>6. Conversations'
      BY <1>1, <1>2, <1>3, <2>2, <2>3, <2>4, <2>5, TalkAnswer DEF PairInv
    <2>7. /\ Grown(log, log') /\ WithAnswer(log, yes, n, log')
          /\ Gained(log, log', {"assistant", "call"})
      BY <1>1, <2>2, <2>3, AnswerWritten
    <2>8. /\ Gained(log, log', {"other", "end", "user", "assistant", "call", "compaction"})
          /\ Gained(log, log', {"other", "end", "user", "assistant", "compaction"})
      <3>1. Len(log') = Len(log) + 1 /\ log'[Len(log) + 1].type = "assistant"
        BY <1>1, <2>1, <2>2, <2>7 DEF WithAnswer, Answered, Record
      <3>2. \A i \in (Len(log) + 1)..(Len(log) + 1) : i = Len(log) + 1
        BY <1>1
      <3> QED BY <3>1, <3>2 DEF Gained
    <2>9. Batch'
      BY <1>1, <1>2, <2>7, <2>8, BatchKept DEF PairInv
    <2> QED BY <2>6, <2>9 DEF PairInv
  <1> QED BY <1>4, <1>5 DEF Answer

(* An answer with calls, which then wait for their results.                  *)
LEMMA CallsStep ==
    ASSUME Inv, PairInv, NEW answered \in BOOLEAN, NEW calls \in 1..MaxCalls,
           AnswerWithCalls(answered, calls)
    PROVE  PairInv'
  <1>1. /\ TypeInv /\ log \in Seq(RecordSet) /\ phase = "streaming" /\ phase' = "tools"
        /\ log[Len(log)].type \notin {"assistant", "call"} /\ lives' = lives
        /\ todo' = [i \in 1..calls |-> CallsFrom(answered) + i]
        /\ calls \in Nat /\ calls > 0 /\ PushAnswer(answered, calls)
    BY HistoryAssumption DEF Inv, TypeInv, StreamClean, AnswerWithCalls
  <1>2. todo = <<>> /\ Waits(log, todo)
    BY <1>1 DEF PairInv, Batch
  <1>3. view.messages # <<>> /\ Replay(log) # <<>>
    BY <1>1, InTurn
  <1>4. PICK n \in Nat, a \in {0, 1} :
            n = Len(log) /\ a = Answered(answered) /\ (answered <=> a = 1)
    BY <1>1 DEF Answered
  <1>5. CallsFrom(answered) = n + a
    BY <1>4 DEF CallsFrom, Answered
  <1>6. Len(todo') = calls /\ \A k \in 1..calls : todo'[k] = n + a + k
    <2>1. PICK t : t = todo'
      OBVIOUS
    <2>2. t = [i \in 1..calls |-> n + a + i]
      BY <1>1, <1>5, <2>1
    <2>3. Len(t) = calls /\ \A k \in 1..calls : t[k] = n + a + k
      BY <1>1, <2>2
    <2> QED BY <2>1, <2>3
  <1>7. \A k \in 1..Len(todo') : todo'[k] \in CallRecords(answered, calls)
    BY <1>5, <1>6 DEF CallRecords
  <1>8. log' = log \o AnswerRecords(answered, calls) /\ offRecord' = offRecord
        /\ view' = Push(view, AssistantMessage(Len(log) + 1, CallRecords(answered, calls)))
    BY <1>1 DEF PushAnswer
  <1>9. Conversations'
    BY <1>1, <1>2, <1>3, <1>7, <1>8, TalkAnswer DEF PairInv
  <1>10. /\ Grown(log, log') /\ WithAnswer(log, answered, calls, log')
         /\ Gained(log, log', {"assistant", "call"})
    BY <1>1, <1>8, AnswerWritten
  <1>11. Answers(log') = Answers(log)
    <2>1. Gained(log, log', {"other", "end", "user", "assistant", "call", "compaction"})
      BY <1>10 DEF Gained
    <2> QED BY <1>10, <2>1, AnswersGrown
  <1>12. /\ Len(log') = n + a + calls /\ \A i \in 1..n : log'[i] = log[i]
         /\ answered => log'[n + 1].type = "assistant"
    BY <1>4, <1>10 DEF WithAnswer, Record
  <1>13. Waits(log', todo')
    <2>1. Answers(log) \subseteq 1..n
      BY <1>2, <1>4 DEF Waits
    <2>2. \A k \in 1..calls : n + a + k \in 1..(n + a + calls) /\ n + a + k \notin 1..n
      BY <1>1
    <2>3. \A x \in 1..n : x \in 1..(n + a + calls)
      BY <1>1
    <2>4. \A k, j \in 1..calls : n + a + k = n + a + j => k = j
      OBVIOUS
    <2> QED BY <1>6, <1>11, <1>12, <2>1, <2>2, <2>3, <2>4 DEF Waits
  <1>14. ASSUME lives' = 1, NEW c \in 1..Len(log'), log'[c].type = "call"
         PROVE  c \in Answers(log') \/ \E k \in 1..Len(todo') : todo'[k] = c
    <2>1. c \in 1..n \/ (a = 1 /\ c = n + 1) \/ c \in (n + a + 1)..(n + a + calls)
      BY <1>12
    <2>2. CASE c \in 1..n
      <3>1. c \in Answers(log) \/ \E k \in 1..Len(todo) : todo[k] = c
        BY <1>1, <1>4, <1>12, <1>14, <2>2 DEF PairInv, Batch
      <3> QED BY <1>2, <1>11, <3>1
    <2>3. CASE a = 1 /\ c = n + 1
      BY <1>4, <1>12, <1>14, <2>3
    <2>4. CASE c \in (n + a + 1)..(n + a + calls)
      <3>1. c - (n + a) \in 1..calls /\ n + a + (c - (n + a)) = c
        BY <2>4
      <3> QED BY <1>6, <3>1
    <2> QED BY <2>1, <2>2, <2>3, <2>4
  <1>15. \E i \in 1..Len(log') : log'[i].type = "user"
    <2>1. PICK i \in 1..n : log[i].type = "user"
      BY <1>1, <1>4 DEF PairInv, Batch
    <2>2. i \in 1..Len(log')
      BY <1>1, <1>12
    <2> QED BY <1>12, <2>1, <2>2
  <1>16. Batch'
    BY <1>1, <1>13, <1>14, <1>15 DEF Batch
  <1> QED BY <1>9, <1>16 DEF PairInv

(* A result.                                                                 *)
LEMMA ResultStep ==
    ASSUME Inv, PairInv, phase \in {"tools", "canceling"},
           log' = Append(log, Result(Head(todo))), todo' = Tail(todo),
           NEW pushed, pushed = Push(view, ToolMessage(Len(log) + 1, Head(todo))),
           \/ view' = pushed /\ offRecord' = offRecord
           \/ view' = Push(pushed, Synthetic) /\ offRecord' = TRUE,
           lives' = lives, phase' \in {"tools", "canceling"} \/ todo' = <<>>
    PROVE  PairInv'
  <1>1. TypeInv /\ log \in Seq(RecordSet) /\ todo \in Seq(Nat) /\ todo # <<>>
    BY DEF Inv, TypeInv
  <1>2. view.messages # <<>> /\ Replay(log) # <<>>
    BY InTurn
  <1>3. Conversations' /\ Waits(log', todo') /\ Answers(log') = Answers(log) \cup {Head(todo)}
    BY <1>1, <1>2, TalkResult DEF PairInv, Batch
  <1>4. PICK n \in Nat :
            /\ n = Len(log) /\ Len(log') = n + 1 /\ \A i \in 1..n : log'[i] = log[i]
            /\ log'[n + 1].type = "result"
    <2>1. Head(todo) \in Nat
      BY <1>1
    <2>2. Result(Head(todo)) \in RecordSet /\ Result(Head(todo)).type = "result"
      BY <2>1, RecordTypesAre
    <2>3. Longer(log, Result(Head(todo)), log')
      BY <1>1, <2>2, OneRecord
    <2> QED BY <1>1, <2>2, <2>3 DEF Longer
  <1>5. PICK l \in Nat : /\ l = Len(todo) /\ Len(todo') = l - 1 /\ todo[1] = Head(todo)
                         /\ \A k \in 2..l : k - 1 \in 1..(l - 1) /\ todo'[k - 1] = todo[k]
    <2>1. Len(todo) \in Nat /\ Len(todo) > 0 /\ Len(Tail(todo)) = Len(todo) - 1
      BY <1>1
    <2>2. PICK l \in Nat : l = Len(todo) /\ l > 0
      BY <2>1
    <2>3. \A k \in 1..(l - 1) : Tail(todo)[k] = todo[k + 1]
      BY <1>1, <2>2
    <2>4. \A k \in 2..l : k - 1 \in 1..(l - 1) /\ (k - 1) + 1 = k
      BY <2>2
    <2>5. \A k \in 2..l : Tail(todo)[k - 1] = todo[k]
      BY <2>3, <2>4
    <2>6. todo[1] = Head(todo) /\ Len(todo') = l - 1
      BY <1>1, <2>1, <2>2
    <2> QED BY <2>2, <2>4, <2>5, <2>6
  <1>6. ASSUME lives' = 1, NEW c \in 1..(n + 1), log'[c].type = "call"
        PROVE  c \in Answers(log') \/ \E k \in 1..Len(todo') : todo'[k] = c
    <2>1. c \in 1..n
      BY <1>4, <1>6
    <2>2. c \in Answers(log) \/ \E k \in 1..l : todo[k] = c
      BY <1>4, <1>5, <1>6, <2>1 DEF PairInv, Batch
    <2>3. ASSUME NEW k \in 1..l, todo[k] = c
          PROVE  c \in Answers(log') \/ \E j \in 1..Len(todo') : todo'[j] = c
      <3>1. CASE k = 1
        BY <1>3, <1>5, <2>3, <3>1
      <3>2. CASE k \in 2..l
        BY <1>5, <2>3, <3>2
      <3> QED BY <3>1, <3>2
    <2> QED BY <1>3, <2>2, <2>3
  <1>7. \E i \in 1..(n + 1) : log'[i].type = "user"
    <2>1. PICK i \in 1..n : log[i].type = "user"
      BY <1>4 DEF PairInv, Batch
    <2>2. i \in 1..(n + 1)
      OBVIOUS
    <2> QED BY <1>4, <2>1, <2>2
  <1>8. Batch'
    BY <1>3, <1>4, <1>6, <1>7 DEF Batch
  <1> QED BY <1>3, <1>8 DEF PairInv

(* A compaction between turns, or at the end of one.                         *)
LEMMA CompactStep ==
    ASSUME Inv, PairInv, phase \in {"idle", "ending"}, phase' = "idle",
           NEW trigger \in {"auto", "manual"}, NEW requested, Compact(trigger, requested),
           UNCHANGED <<todo, lives, offRecord>>
    PROVE  PairInv'
  <1>1. TypeInv /\ Faithful
    BY DEF Inv
  <1>2. todo = <<>> /\ todo' = <<>>
    BY DEF PairInv, Batch
  <1>3. /\ Conversations'
        /\ log' = log \/ (Grown(log, log') /\ Gained(log, log', {"compaction"}))
    BY <1>1, <1>2, TalkCompact DEF PairInv
  <1>4. \/ log' = log
        \/ /\ Grown(log, log')
           /\ Gained(log, log', {"other", "end", "user", "assistant", "call", "compaction"})
           /\ Gained(log, log', {"other", "end", "user", "assistant", "compaction"})
    BY <1>3 DEF Gained
  <1>5. Batch'
    BY <1>1, <1>2, <1>4, BatchKept DEF PairInv
  <1> QED BY <1>3, <1>5 DEF PairInv

(* A crash while an answer is written.                                       *)
LEMMA CrashAnsweringStep ==
    ASSUME Inv, PairInv, NEW answered \in BOOLEAN, NEW calls \in 0..MaxCalls,
           CrashAnswering(answered, calls)
    PROVE  PairInv'
  <1>1. /\ TypeInv /\ phase = "streaming" /\ phase' = "away" /\ offRecord' = TRUE
        /\ log[Len(log)].type \notin {"assistant", "call"} /\ calls \in Nat
        /\ todo' = todo /\ view' = view
    BY HistoryAssumption DEF Inv, StreamClean, CrashAnswering
  <1>2. todo = <<>> /\ todo' = <<>> /\ Waits(log, todo) /\ Len(<<>>) = 0
    BY <1>1 DEF PairInv, Batch
  <1>3. view.messages # <<>> /\ Replay(log) # <<>>
    BY <1>1, InTurn
  <1>4. PICK n \in 1..Len(AnswerRecords(answered, calls)) :
            log' = log \o SubSeq(AnswerRecords(answered, calls), 1, n)
    BY DEF CrashAnswering
  <1>5. PICK asked \in Nat :
            /\ answered \/ asked > 0
            /\ SubSeq(AnswerRecords(answered, calls), 1, n) = AnswerRecords(answered, asked)
    BY <1>1, AnswerPart
  <1>6. log' = log \o AnswerRecords(answered, asked)
    BY <1>4, <1>5
  <1>7. \A k \in 1..Len(todo') : todo'[k] \in CallRecords(answered, asked)
    BY <1>2
  <1>8. Conversations'
    BY <1>1, <1>2, <1>3, <1>5, <1>6, <1>7, TalkAnswer DEF PairInv
  <1>9. Grown(log, log') /\ Gained(log, log', {"assistant", "call"})
    BY <1>1, <1>5, <1>6, AnswerWritten
  <1>10. Gained(log, log', {"other", "end", "user", "assistant", "call", "compaction"})
    BY <1>9 DEF Gained
  <1>11. Batch'
    BY <1>1, <1>2, <1>9, <1>10, BatchKept DEF PairInv
  <1> QED BY <1>8, <1>11 DEF PairInv

(* A resume.                                                                 *)
LEMMA ResumeStep ==
    ASSUME Inv, PairInv, ResumeSession
    PROVE  PairInv'
  <1>1. /\ TypeInv /\ phase = "away" /\ phase' = "idle" /\ log' = log /\ todo' = todo
        /\ lives' = lives + 1
    BY DEF Inv, ResumeSession
  <1>2. lives \in Nat /\ lives >= 1
    BY <1>1, HistoryAssumption DEF TypeInv
  <1>3. lives' # 1
    BY <1>1, <1>2
  <1>4. todo = <<>>
    BY <1>1 DEF PairInv, Batch
  <1>5. Batch'
    BY <1>1, <1>3, <1>4, BatchKept DEF PairInv
  <1>6. Conversations'
    BY TalkResume DEF PairInv
  <1> QED BY <1>5, <1>6 DEF PairInv

(* Every step keeps the calls and the conversations as they should be.       *)
LEMMA StepKeepsPairs ==
    ASSUME Inv, PairInv, [Next]_vars PROVE PairInv'
  <1>0. TypeInv /\ Other = Record("other") /\ todo \in Seq(Nat)
    BY RecordTypesAre DEF Inv, TypeInv
  <1>1. phase \notin {"tools", "canceling"} => todo = <<>>
    BY DEF PairInv, Batch
  <1>2. CASE UserInput
    BY <1>0, <1>2, UserStep DEF UserInput
  <1>3. CASE StreamFails
    BY <1>0, <1>1, <1>3, QuietStep DEF StreamFails
  <1>4. CASE CancelTools
    BY <1>0, <1>4, QuietStep DEF CancelTools
  <1>5. CASE CompactCommand \/ LoseCache \/ Left \/ Full \/ UNCHANGED vars
    BY <1>0, <1>1, <1>5, QuietStep DEF CompactCommand, LoseCache, Left, Full, vars
  <1>6. CASE PushCanceledResult
    <2>1. PICK pushed : pushed = Push(view, ToolMessage(Len(log) + 1, Head(todo)))
      OBVIOUS
    <2>2. /\ phase \in {"tools", "canceling"} /\ log' = Append(log, Result(Head(todo)))
          /\ todo' = Tail(todo) /\ view' = pushed /\ offRecord' = offRecord /\ lives' = lives
          /\ phase' \in {"tools", "canceling"} \/ todo' = <<>>
      BY <1>6, <2>1 DEF PushCanceledResult
    <2> QED BY <2>1, <2>2, ResultStep
  <1>7. CASE \E answered \in BOOLEAN : Answer(answered)
    BY <1>7, AnswerStep
  <1>8. CASE \E answered \in BOOLEAN : \E calls \in 1..MaxCalls : AnswerWithCalls(answered, calls)
    BY <1>8, CallsStep
  <1>9. CASE \E answered \in BOOLEAN : \E calls \in 0..MaxCalls : CrashAnswering(answered, calls)
    BY <1>9, CrashAnsweringStep
  <1>10. CASE \E attached \in {FALSE, Attachments} : IngestToolResult(attached)
    <2>1. PICK attached \in BOOLEAN : IngestToolResult(attached)
      BY <1>10, HistoryAssumption
    <2>2. PICK pushed : pushed = Push(view, ToolMessage(Len(log) + 1, Head(todo)))
      OBVIOUS
    <2>3. /\ phase \in {"tools", "canceling"} /\ log' = Append(log, Result(Head(todo)))
          /\ todo' = Tail(todo) /\ lives' = lives
          /\ phase' \in {"tools", "canceling"} \/ todo' = <<>>
      BY <2>1 DEF IngestToolResult
    <2>4. \/ view' = pushed /\ offRecord' = offRecord
          \/ view' = Push(pushed, Synthetic) /\ offRecord' = TRUE
      <3>1. /\ view' = IF attached THEN Push(pushed, Synthetic) ELSE pushed
            /\ offRecord' = (offRecord \/ attached) /\ offRecord \in BOOLEAN
        BY <1>0, <2>1, <2>2 DEF IngestToolResult, TypeInv
      <3> QED BY <3>1
    <2> QED BY <2>2, <2>3, <2>4, ResultStep
  <1>11. CASE ChecksEnd
    <2>1. /\ log' = Append(log, Other) /\ phase = "checking" /\ todo' = todo /\ lives' = lives
          /\ phase' \in {"ending", "streaming", "halted"} /\ todo = <<>>
          /\ \/ view' = view /\ offRecord' = offRecord
             \/ view' = Push(view, Synthetic) /\ offRecord' = TRUE
      BY <1>1, <1>11 DEF ChecksEnd
    <2>2. CASE view' = view /\ offRecord' = offRecord
      BY <1>0, <2>1, <2>2, QuietStep
    <2>3. CASE view' = Push(view, Synthetic) /\ offRecord' = TRUE
      <3>1. view.messages # <<>>
        BY <2>1, InTurn
      <3>2. Conversations'
        BY <1>0, <2>1, <2>3, <3>1, TalkSynthetic DEF PairInv
      <3>3. /\ Grown(log, log')
            /\ Gained(log, log', {"other", "end", "user", "assistant", "call", "compaction"})
            /\ Gained(log, log', {"other", "end", "user", "assistant", "compaction"})
        <4>1. Other \in RecordSet /\ Other.type = "other" /\ log \in Seq(RecordSet)
          BY <1>0, RecordTypesAre DEF TypeInv
        <4> QED BY <2>1, <4>1, OneRecord
      <3>4. Batch'
        BY <1>0, <2>1, <3>3, BatchKept DEF PairInv
      <3> QED BY <3>2, <3>4 DEF PairInv
    <2> QED BY <2>1, <2>2, <2>3
  <1>12. CASE ResolveHalt
    <2>1. CASE log' = Append(log, Other) /\ view' = view
      BY <1>0, <1>1, <1>12, <2>1, QuietStep DEF ResolveHalt
    <2>2. CASE PushUser(<<Other>>) /\ phase' = "streaming"
      BY <1>0, <1>12, <2>2, UserStep DEF ResolveHalt
    <2> QED BY <1>12, <2>1, <2>2 DEF ResolveHalt
  <1>13. CASE TurnEnd
    <2>1. CASE pending = "none"
      BY <1>0, <1>1, <1>13, <2>1, QuietStep DEF TurnEnd
    <2>2. CASE pending # "none"
      <3>1. PICK trigger \in {"auto", "manual"} : trigger = pending
        BY <1>0, <2>2 DEF TypeInv
      <3>2. Compact(trigger, "none") /\ phase \in {"idle", "ending"} /\ phase' = "idle"
            /\ UNCHANGED <<todo, lives, offRecord>>
        BY <1>13, <2>2, <3>1 DEF TurnEnd
      <3> QED BY <3>2, CompactStep
    <2> QED BY <2>1, <2>2
  <1>14. CASE IdleCompact
    <2>1. /\ Compact("manual", pending) /\ phase \in {"idle", "ending"} /\ phase' = "idle"
          /\ UNCHANGED <<todo, lives, offRecord>>
      BY <1>14 DEF IdleCompact
    <2> QED BY <2>1, CompactStep
  <1>15. CASE IdleWrite \/ EndSession
    BY <1>0, <1>1, <1>15, QuietStep DEF IdleWrite, EndSession
  <1>16. CASE Crash
    BY <1>0, <1>16, QuietStep DEF Crash
  <1>17. CASE ResumeSession
    BY <1>17, ResumeStep
  <1> QED BY <1>2, <1>3, <1>4, <1>5, <1>6, <1>7, <1>8, <1>9, <1>10, <1>11, <1>12, <1>13,
             <1>14, <1>15, <1>16, <1>17 DEF Next

(* It holds of a session that was just opened.                               *)
LEMMA InitPairs ==
    ASSUME Init PROVE PairInv
  <1>1. /\ phase = "idle" /\ todo = <<>> /\ log = <<Other>> /\ view = Fresh /\ offRecord = FALSE
    BY DEF Init
  <1>2. /\ Other.type = "other" /\ Other \in RecordSet
    BY RecordTypesAre
  <1>3. Len(log) = 1 /\ \A i \in 1..1 : log[i].type = "other"
    BY <1>1, <1>2
  <1>4. view.messages = <<>> /\ view.compacted = FALSE /\ Len(<<>>) = 0
    BY <1>1 DEF Fresh
  <1>5. Replay(log) = <<>>
    <2>1. Inv
      BY InitInv
    <2>2. Clean(log)
      BY <1>3 DEF Clean
    <2> QED BY <1>1, <1>4, <2>1, <2>2 DEF Inv, Faithful
  <1>6. Answers(log) = {}
    BY <1>3 DEF Answers
  <1>7. Waits(log, todo)
    BY <1>1, <1>4, <1>6 DEF Waits
  <1>8. Pinned(log, <<>>)
    BY <1>3 DEF Pinned
  <1>9. Whole(<<>>, Answers(log), Len(log))
    BY <1>4 DEF Whole, Joined
  <1>10. Sound(log, <<>>, <<>>) /\ OnRecord(<<>>) /\ HasCompaction(log) = FALSE
    BY <1>3, <1>4, <1>8, <1>9 DEF Sound, OnRecord, HasCompaction
  <1>11. Batch
    BY <1>1, <1>3, <1>7 DEF Batch
  <1>12. Conversations
    BY <1>1, <1>4, <1>5, <1>10 DEF Conversations
  <1> QED BY <1>11, <1>12 DEF PairInv

\* Between the pinned messages of m and to, a marker stands for what was there.
IsCut(m, compacted, pinned, to, s) ==
    /\ pinned <= to /\ to <= Len(m)
    /\ pinned = Len(m) \/ pinned = IF compacted THEN 2 ELSE 1
    /\ pinned <= IF compacted THEN 2 ELSE 1
    /\ to < Len(m) => m[to + 1].role = "user"
    /\ IsSplice(MessageSet, m, pinned, to, Synthetic, s)
Windowed(m, compacted, s) == s = m \/ \E pinned, to \in Nat : IsCut(m, compacted, pinned, to, s)

(* What the window leaves of a conversation.                                 *)
LEMMA SentIs ==
    ASSUME NEW v, GoodView(v)
    PROVE  Windowed(v.messages, v.compacted, Sent(v))
  <1> DEFINE wanted == IF v.compacted THEN 2 ELSE 1
             pinned == IF Len(v.messages) < wanted THEN Len(v.messages) ELSE wanted
             to == CutBefore(v.messages, pinned, WindowTurns)
  <1>1. PICK m \in Seq(MessageSet) : m = v.messages
    BY DEF GoodView, ViewSet
  <1>2. /\ pinned \in Nat /\ pinned <= Len(m) /\ Len(m) \in Nat
        /\ pinned = Len(m) \/ pinned = wanted
        /\ pinned <= wanted
    BY <1>1
  <1>3. Sent(v) = IF to = pinned THEN v.messages
                  ELSE SubSeq(v.messages, 1, pinned) \o <<Synthetic>>
                           \o SubSeq(v.messages, to + 1, Len(v.messages))
    BY DEF Sent
  <1> HIDE DEF pinned
  <1>4. /\ to \in pinned..Len(m)
        /\ to > pinned => to = Len(m) \/ m[to + 1].role = "user"
    <2>1. WindowTurns \in Nat
      BY HistoryAssumption
    <2>2. /\ CutBefore(m, pinned, WindowTurns) \in pinned..Len(m)
          /\ CutBefore(m, pinned, WindowTurns) > pinned =>
                \/ CutBefore(m, pinned, WindowTurns) = Len(m)
                \/ m[CutBefore(m, pinned, WindowTurns) + 1].role = "user"
      BY <1>2, <2>1, CutIsTurn
    <2> QED BY <1>1, <2>2
  <1> HIDE DEF to
  <1>5. CASE to = pinned
    BY <1>3, <1>5 DEF Windowed
  <1>6. CASE to # pinned
    <2>1. to \in Nat /\ pinned <= to /\ to <= Len(m)
          /\ (to < Len(m) => m[to + 1].role = "user")
      BY <1>2, <1>4, <1>6
    <2>2. Sent(v) = Splice(m, pinned, to, Synthetic)
      BY <1>1, <1>3, <1>6 DEF Splice
    <2>3. Synthetic \in MessageSet
      BY MessageTypes
    <2>4. IsSplice(MessageSet, m, pinned, to, Synthetic, Splice(m, pinned, to, Synthetic))
      BY <1>2, <2>1, <2>3, Spliced
    <2>5. IsCut(m, v.compacted, pinned, to, Sent(v))
      BY <1>2, <2>1, <2>2, <2>4 DEF IsCut
    <2> QED BY <1>1, <1>2, <2>1, <2>5 DEF Windowed
  <1> QED BY <1>5, <1>6

(* The pinned messages are sent first.                                       *)
LEMMA PinnedSent ==
    ASSUME Inv, PairInv
    PROVE  PinnedAreSent
  <1>1. /\ TypeInv /\ GoodView(view) /\ log \in Seq(RecordSet)
        /\ Pinned(log, view.messages) /\ view.compacted = HasCompaction(log)
    BY DEF Inv, TypeInv, PairInv, Conversations, Sound
  <1>2. PICK m, s : m = view.messages /\ s = Sent(view) /\ m \in Seq(MessageSet)
    BY <1>1 DEF GoodView, ViewSet
  <1>3. DOMAIN log = 1..Len(log) /\ Len(m) \in Nat
    BY <1>1
  <1> SUFFICES ASSUME Recorded("user") # {}
               PROVE  /\ m # <<>> /\ s[1].rec = FirstUser
                      /\ Recorded("compaction") # {} =>
                            /\ Len(s) >= 2
                            /\ \A i \in Recorded("compaction") : s[2].rec >= i
                            /\ log[s[2].rec].type = "compaction"
    BY <1>2 DEF PinnedAreSent
  <1>4. m # <<>> /\ Len(m) >= 1
    <2>1. \E i \in 1..Len(log) : log[i].type = "user"
      BY <1>3 DEF Recorded
    <2>2. m # <<>>
      BY <1>1, <1>2, <2>1, NotEmpty
    <2> QED BY <2>2
  <1>5. PICK u \in 1..Len(log) : IsFirst(log, u) /\ m[1].rec = u
    BY <1>1, <1>2, <1>4 DEF Pinned
  <1>6. FirstUser = u
    <2>1. \A i \in 1..Len(log) : IsFirst(log, i) => i = u
      <3> SUFFICES ASSUME NEW i \in 1..Len(log), IsFirst(log, i), i # u PROVE FALSE
        OBVIOUS
      <3>1. i \in 1..(u - 1) \/ u \in 1..(i - 1)
        OBVIOUS
      <3> QED BY <1>5, <3>1 DEF IsFirst
    <2>2. FirstUser = CHOOSE i \in 1..Len(log) : IsFirst(log, i)
      BY <1>3 DEF FirstUser, IsFirst
    <2> QED BY <1>5, <2>1, <2>2
  <1>7. /\ s[1] = m[1]
        /\ view.compacted /\ Len(m) >= 2 => s[2] = m[2] /\ Len(s) >= 2
    <2>1. CASE s = m
      BY <2>1
    <2>2. CASE \E pinned, to \in Nat : IsCut(m, view.compacted, pinned, to, s)
      <3>1. PICK pinned, to \in Nat : IsCut(m, view.compacted, pinned, to, s)
        BY <2>2
      <3>2. pinned >= 1 /\ (view.compacted /\ Len(m) >= 2 => pinned >= 2)
        BY <1>4, <3>1 DEF IsCut
      <3>3. 1 \in 1..pinned /\ (pinned >= 2 => 2 \in 1..pinned)
        BY <3>2
      <3>4. \A i \in 1..pinned : s[i] = m[i]
        BY <3>1 DEF IsCut, IsSplice
      <3>5. Len(s) = pinned + 1 + (Len(m) - to)
        BY <3>1 DEF IsCut, IsSplice
      <3>6. pinned >= 2 => Len(s) >= 2
        BY <1>3, <3>1, <3>5 DEF IsCut
      <3> QED BY <3>2, <3>3, <3>4, <3>6
    <2>3. Windowed(m, view.compacted, s)
      BY <1>1, <1>2, SentIs
    <2> QED BY <2>1, <2>2, <2>3 DEF Windowed
  <1>8. ASSUME Recorded("compaction") # {}
        PROVE  /\ Len(s) >= 2
               /\ \A i \in Recorded("compaction") : s[2].rec >= i
               /\ log[s[2].rec].type = "compaction"
    <2>1. HasCompaction(log)
      BY <1>3, <1>8 DEF Recorded, HasCompaction
    <2>2. PICK c \in 1..Len(log) : IsLatest(log, c) /\ Len(m) >= 2 /\ m[2].rec = c
      BY <1>1, <1>2, <2>1 DEF Pinned, HasCompaction
    <2>3. s[2].rec = c /\ Len(s) >= 2
      BY <1>1, <1>7, <2>1, <2>2
    <2>4. \A i \in Recorded("compaction") : i \in 1..Len(log) /\ log[i].type = "compaction"
      BY <1>3 DEF Recorded
    <2> QED BY <2>2, <2>3, <2>4 DEF IsLatest
  <1> QED BY <1>4, <1>5, <1>6, <1>7, <1>8

(* Calls and results are sent in pairs.                                      *)
LEMMA PairsSent ==
    ASSUME Inv, PairInv
    PROVE  AnsweredPairsAreSent
  <1>1. /\ GoodView(view) /\ log \in Seq(RecordSet) /\ Sound(log, view.messages, todo)
        /\ view.compacted = HasCompaction(log)
    BY DEF Inv, TypeInv, PairInv, Conversations
  <1>2. PICK m, s : m = view.messages /\ s = Sent(view) /\ m \in Seq(MessageSet)
    BY <1>1 DEF GoodView, ViewSet
  <1>3. PICK n \in Nat : n = Len(log) /\ DOMAIN log = 1..n
    BY <1>1
  <1> SUFFICES ASSUME phase = "streaming", BatchesWhole PROVE Paired(s, AnsweredCalls)
    BY <1>2 DEF AnsweredPairsAreSent
  <1>4. m # <<>> /\ Len(m) >= 1 /\ Len(m) \in Nat
    BY <1>2, InTurn
  <1>5. Unbroken(m) /\ Clean(log)
    BY <1>2, <1>3 DEF BatchesWhole, Unbroken, Clean, Recorded
  <1>6. Whole(m, Answers(log), n) /\ Pinned(log, m)
    BY <1>1, <1>2, <1>3, <1>5 DEF Sound
  <1>7. AnsweredCalls = Answers(log)
    BY <1>3 DEF AnsweredCalls, Answers, Recorded
  <1>8. s \in Seq(MessageSet) /\ Whole(s, Answers(log), n)
    <2>1. CASE s = m
      <3>1. m \in Seq(MessageSet) /\ Whole(m, Answers(log), n)
        BY <1>2, <1>6
      <3> QED BY ONLY <2>1, <3>1
    <2>2. CASE \E pinned, to \in Nat : IsCut(m, view.compacted, pinned, to, s)
      <3>1. PICK pinned, to \in Nat : IsCut(m, view.compacted, pinned, to, s)
        BY <2>2
      <3>2. m[1].role = "user" /\ (HasCompaction(log) => m[2].role = "user" /\ Len(m) >= 2)
        BY <1>4, <1>6 DEF Pinned, HasCompaction
      <3>3. \A y \in 1..pinned : y = 1 \/ (y = 2 /\ HasCompaction(log))
        BY <1>1, <3>1 DEF IsCut
      <3>4. \A y \in 1..pinned : m[y].role = "user"
        BY <3>2, <3>3
      <3>5. PICK x : x = Synthetic /\ x.role = "user" /\ x.calls = {}
        <4>1. Synthetic.role = "user" /\ Synthetic.calls = {}
          BY DEF Synthetic, UserMessage
        <4> QED BY <4>1
      <3>6. IsSplice(MessageSet, m, pinned, to, x, s)
        BY <3>1, <3>5 DEF IsCut
      <3>7. pinned <= to /\ to <= Len(m) /\ (to < Len(m) => m[to + 1].role = "user")
        BY <3>1 DEF IsCut
      <3>8. x.role = "user" /\ x.calls = {}
        BY <3>5
      <3>9. Whole(m, Answers(log), n)
        BY <1>6
      <3>10. m \in Seq(MessageSet)
        BY <1>2
      <3>11. Whole(s, Answers(log), n)
        BY ONLY <3>4, <3>6, <3>7, <3>8, <3>9, <3>10, n \in Nat,
                pinned \in Nat, to \in Nat, WholeSpliced
      <3>12. s \in Seq(MessageSet)
        BY <3>1 DEF IsCut, IsSplice
      <3> QED BY <3>11, <3>12
    <2>3. Windowed(m, view.compacted, s)
      BY <1>1, <1>2, SentIs
    <2> QED BY <2>1, <2>2, <2>3 DEF Windowed
  <1>9. DOMAIN s = 1..Len(s)
    BY <1>8
  <1>10. ASSUME NEW c \in CallsOf(s) \cap Answers(log)
         PROVE  \E i \in Uses(s, c) : \E j \in Results(s, c) : i < j
    <2>1. PICK x \in 1..Len(s) : c \in s[x].calls
      BY <1>9 DEF CallsOf
    <2>2. PICK i \in 1..Len(s), j \in 1..Len(s) : IsPair(s, i, j, c)
      BY <1>8, <2>1 DEF Whole, Joined
    <2>3. i \in Uses(s, c) /\ j \in Results(s, c) /\ i < j
      BY <1>9, <2>2 DEF IsPair, Uses, Results
    <2> QED BY <2>3
  <1> QED BY <1>7, <1>10 DEF Paired

(* HC-7, FR-3, context.rs and turn.rs: what the model is sent begins with    *)
(* the original task and the latest summary, and holds every answered call   *)
(* with its result after it, whatever was windowed, compacted, canceled,     *)
(* replayed or cut by a crash; and no turn of the first life leaves a call   *)
(* without a result.                                                         *)
THEOREM SentCorrect == Spec => []SentIsWhole
  <1>1. Init => PairInv
    BY InitPairs
  <1>2. Inv /\ PairInv /\ [Next]_vars => PairInv'
    BY StepKeepsPairs
  <1>3. Inv /\ PairInv => SentIsWhole
    <2> SUFFICES ASSUME Inv, PairInv PROVE SentIsWhole
      OBVIOUS
    <2>1. BatchesAnswered
      <3> SUFFICES ASSUME lives = 1, phase \in {"streaming", "ending", "idle"}
                   PROVE  Recorded("call") \subseteq AnsweredCalls
        BY DEF BatchesAnswered
      <3>1. DOMAIN log = 1..Len(log)
        BY DEF Inv, TypeInv
      <3>2. todo = <<>> /\ Len(<<>>) = 0
        BY DEF PairInv, Batch
      <3>3. \A c \in 1..Len(log) : log[c].type = "call" =>
                c \in Answers(log) \/ \E k \in 1..Len(todo) : todo[k] = c
        BY DEF PairInv, Batch
      <3> QED BY <3>1, <3>2, <3>3 DEF Recorded, AnsweredCalls, Answers
    <2>2. PinnedAreSent /\ AnsweredPairsAreSent
      BY PinnedSent, PairsSent
    <2> QED BY <2>1, <2>2 DEF SentIsWhole
  <1> QED BY <1>1, <1>2, <1>3, SpecInv, PTL DEF Spec
==============================================================================
