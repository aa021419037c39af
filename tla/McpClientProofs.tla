--------------------------- MODULE McpClientProofs ---------------------------
(* Theorems about McpClient and the other parts of Wire, for every set of    *)
(* callers and any number of calls, lines and room in the pipes: a call      *)
(* returns the whole answer to its own request, as long as the server sends  *)
(* no requests of its own; for every body and way to cut it in chunks, the   *)
(* events are those of the body in one piece; and what is committed of a     *)
(* streamed answer is the whole of it.                                       *)
EXTENDS Wire, TLAPS, SequenceTheorems, WellFoundedInduction, NaturalsInduction

------------------------------------------------------------------------------
(* The inductive invariant                                                   *)

Halves == [kind : {"request", "answer", "note", "asks"}, id : Nat, half : {1, 2}]
Places == {"idle", "waiting", "writing", "written half", "reading", "answered", "failed"}
TypeOK ==
    /\ call \in [Callers -> [at : Places, id : Nat, answered : Nat]]
    /\ nextId \in Nat
    /\ partial \in Seq(Halves) /\ input \in Seq(Halves) /\ output \in Seq(Halves)
    /\ server \in [line : Seq(Halves), mid : Nat, todo : SUBSET Nat, said : Nat, gone : BOOLEAN]

Second(h) == [h EXCEPT !.half = 2]

(* What comes from the server is halves in pairs.  A cancelled read may have *)
(* taken the first of a pair away; the pair the server is in the middle of   *)
(* lacks its second.                                                         *)
InPairs ==
    \A i \in 1..(Len(output) - 1) :
        IF output[i].half = 1 THEN output[i + 1] = Second(output[i]) ELSE output[i + 1].half = 1
InTheMiddle ==
    output # <<>> =>
        IF server.mid = 0 THEN output[Len(output)].half = 2
        ELSE output[Len(output)] = Half("answer", server.mid, 1)

(* What was read of a line is its first half, and its second comes next.     *)
ReadSoFar ==
    \/ partial = <<>>
    \/ /\ Len(partial) = 1 /\ partial[1].half = 1
       /\ IF output # <<>> THEN output[1] = Second(partial[1])
          ELSE server.mid # 0 /\ partial[1] = Half("answer", server.mid, 1)

(* Requests of the server's own are those it makes.                          *)
NoQuestions ==
    /\ \A i \in 1..Len(output) : output[i].kind = "asks" => ServerAsks
    /\ \A i \in 1..Len(partial) : partial[i].kind = "asks" => ServerAsks

LinesInv == TypeOK /\ InPairs /\ InTheMiddle /\ ReadSoFar /\ NoQuestions
McpInv == LinesInv /\ (ServerAsks \/ AnswersMatch)

------------------------------------------------------------------------------
(* Sequences                                                                 *)

(* What is in a sequence to which an element was added.                      *)
LEMMA Added ==
    ASSUME NEW S, NEW s \in Seq(S), NEW e \in S, NEW t, t = Append(s, e)
    PROVE  /\ t \in Seq(S) /\ Len(s) \in Nat /\ Len(t) = Len(s) + 1 /\ t # <<>>
           /\ t[Len(t)] = e
           /\ \A i \in 1..Len(s) : t[i] = s[i]
  OBVIOUS

(* What is in a sequence to which two were added.                            *)
LEMMA AddedTwo ==
    ASSUME NEW S, NEW s \in Seq(S), NEW e \in S, NEW f \in S, NEW t, t = s \o <<e, f>>
    PROVE  /\ t \in Seq(S) /\ Len(s) \in Nat /\ Len(t) = Len(s) + 2 /\ t # <<>>
           /\ t[Len(t)] = f /\ t[Len(s) + 1] = e
           /\ \A i \in 1..Len(s) : t[i] = s[i]
  OBVIOUS

(* What is in a sequence from which the head was taken.                      *)
LEMMA Taking ==
    ASSUME NEW S, NEW s \in Seq(S), s # <<>>, NEW t, t = Tail(s)
    PROVE  /\ Head(s) = s[1] /\ s[1] \in S
           /\ t \in Seq(S) /\ Len(s) \in Nat /\ Len(t) = Len(s) - 1 /\ Len(s) >= 1
           /\ \A i \in 1..Len(t) : i + 1 \in 1..Len(s) /\ t[i] = s[i + 1]
  <1>1. Len(s) \in Nat /\ Len(s) # 0
    BY EmptySeq
  <1>2. t \in Seq(S) /\ Len(t) = Len(s) - 1 /\ \A i \in 1..Len(t) : t[i] = s[i + 1]
    BY HeadTailProperties
  <1>3. Head(s) = s[1] /\ s[1] \in S
    BY <1>1, HeadTailProperties
  <1> QED BY <1>1, <1>2, <1>3

------------------------------------------------------------------------------
(* The callers                                                               *)

(* A step of a caller's that reads nothing leaves the server's lines alone,  *)
(* and what was read of one stays or is forgotten.                           *)
Writes ==
    /\ call' \in [Callers -> [at : Places, id : Nat, answered : Nat]]
    /\ nextId' \in Nat /\ input' \in Seq(Halves)
    /\ partial' = partial \/ partial' = <<>>
    /\ UNCHANGED <<output, server>>
    /\ \A c \in Callers :
          call'[c].at = "answered" => call[c].at = "answered" /\ call'[c] = call[c]

(* These are such steps.                                                     *)
LEMMA CallersWrite ==
    ASSUME McpClientAssumption, TypeOK, NEW c \in Callers,
           Begin(c) \/ Acquire(c) \/ Write(c) \/ WriteFails(c) \/ ReadEnds(c) \/ TimesOut(c)
              \/ Cancel(c)
    PROVE  Writes
  <1>1. /\ call \in [Callers -> [at : Places, id : Nat, answered : Nat]]
        /\ nextId \in Nat /\ input \in Seq(Halves)
    BY DEF TypeOK
  <1>2. CASE Begin(c)
    <2>0. "waiting" \in Places
      BY DEF Places
    <2>1. nextId + 1 \in Nat /\ [at |-> "waiting", id |-> nextId, answered |-> 0]
                                  \in [at : Places, id : Nat, answered : Nat]
      BY <1>1, <2>0
    <2>2. call' = [call EXCEPT ![c] = [at |-> "waiting", id |-> nextId, answered |-> 0]]
      BY <1>2 DEF Begin
    <2> HIDE DEF Places
    <2>3. call' \in [Callers -> [at : Places, id : Nat, answered : Nat]]
      BY <1>1, <2>1, <2>2
    <2>4. \A d \in Callers : call'[d].at = "answered" => call'[d] = call[d]
      BY <1>1, <2>2
    <2> QED BY <1>1, <1>2, <2>1, <2>3, <2>4 DEF Begin, Writes
  <1>3. CASE Write(c)
    <2>1. \A n \in {1, 2} : Half("request", call[c].id, n) \in Halves
      BY <1>1 DEF Half, Halves
    <2>2. PICK h \in Halves : input' = Append(input, h)
      BY <1>3, <2>1 DEF Write
    <2>3. input' \in Seq(Halves)
      BY <1>1, <2>2
    <2> QED BY <1>1, <1>3, <2>3 DEF Write, Goes, At, Writes, Places
  <1>4. CASE Acquire(c)
    BY <1>1, <1>4 DEF Acquire, Goes, Writes, Places
  <1>5. CASE WriteFails(c) \/ ReadEnds(c) \/ TimesOut(c)
    BY <1>1, <1>5 DEF WriteFails, ReadEnds, TimesOut, Fails, Releases, Goes, Writes, Places
  <1>6. CASE Cancel(c)
    BY <1>1, <1>6 DEF Cancel, Releases, Goes, Writes, Places
  <1> QED BY <1>2, <1>3, <1>4, <1>5, <1>6

(* They keep the invariant.                                                  *)
LEMMA WritesKeep ==
    ASSUME McpInv, Writes
    PROVE  McpInv'
  <1>1. TypeOK'
    <2>1. <<>> \in Seq(Halves)
      OBVIOUS
    <2> QED BY <2>1 DEF McpInv, LinesInv, TypeOK, Writes
  <1>2. InPairs' /\ InTheMiddle' /\ ReadSoFar'
    BY DEF McpInv, LinesInv, InPairs, InTheMiddle, ReadSoFar, Writes
  <1>3. NoQuestions'
    BY EmptySeq DEF McpInv, LinesInv, NoQuestions, Writes
  <1>4. AnswersMatch => AnswersMatch'
    BY DEF AnswersMatch, At, Writes
  <1> QED BY <1>1, <1>2, <1>3, <1>4 DEF McpInv, LinesInv

(* A read takes a first half where none was, or a second that belongs to the *)
(* first, or one whose first was lost.                                       *)
LEMMA ReadKeeps ==
    ASSUME McpInv, NEW c \in Callers, Read(c)
    PROVE  McpInv'
  <1> DEFINE h == Head(output)
             line == Append(partial, h)
  <1>1. /\ call \in [Callers -> [at : Places, id : Nat, answered : Nat]]
        /\ partial \in Seq(Halves) /\ output \in Seq(Halves) /\ nextId \in Nat
        /\ server \in [line : Seq(Halves), mid : Nat, todo : SUBSET Nat, said : Nat, gone : BOOLEAN]
        /\ input \in Seq(Halves)
    BY DEF McpInv, LinesInv, TypeOK
  <1>2. /\ output # <<>> /\ output' = Tail(output)
        /\ UNCHANGED <<nextId, input, server>>
    BY DEF Read
  <1>3. /\ h = output[1] /\ h \in Halves /\ Len(output) \in Nat /\ Len(output) >= 1
        /\ output' \in Seq(Halves) /\ Len(output') = Len(output) - 1
        /\ \A i \in 1..Len(output') : i + 1 \in 1..Len(output) /\ output'[i] = output[i + 1]
    BY <1>1, <1>2, Taking
  <1>4. /\ line \in Seq(Halves) /\ Len(line) = Len(partial) + 1 /\ Len(partial) \in Nat
        /\ line[Len(line)] = h /\ \A i \in 1..Len(partial) : line[i] = partial[i]
    BY <1>1, <1>3, Added
  <1> HIDE DEF line, h
  <1>5. InPairs /\ InTheMiddle /\ ReadSoFar /\ NoQuestions /\ (ServerAsks \/ AnswersMatch)
    BY DEF McpInv, LinesInv
  <1>6. InPairs'
    BY <1>3, <1>5 DEF InPairs
  <1>7. InTheMiddle'
    <2>1. output' # <<>> => Len(output') >= 1
      BY <1>3, EmptySeq
    <2>2. output' # <<>> => output'[Len(output')] = output[Len(output)]
      BY <1>3, <2>1
    <2> QED BY <1>2, <1>5, <2>2 DEF InTheMiddle
  <1>8. CASE h.half = 1
    <2>1. partial = <<>>
      BY <1>2, <1>3, <1>5, <1>8 DEF ReadSoFar, Second, Halves
    <2>2. partial' = line /\ UNCHANGED <<call, holder>>
      BY <1>8 DEF Read, h, line
    <2>3. Len(line) = 1 /\ line[1] = h
      BY <1>4, <2>1
    <2>4. ReadSoFar'
      <3>1. CASE Len(output) = 1
        <4>1. output' = <<>>
          BY <1>3, <3>1, EmptySeq
        <4>2. server.mid # 0 /\ h = Half("answer", server.mid, 1)
          BY <1>2, <1>3, <1>5, <1>8, <3>1 DEF InTheMiddle
        <4> QED BY <1>2, <1>8, <2>2, <2>3, <4>1, <4>2 DEF ReadSoFar
      <3>2. CASE Len(output) # 1
        <4>1. Len(output') >= 1 /\ output' # <<>> /\ 1 \in 1..Len(output')
              /\ 1 \in 1..(Len(output) - 1)
          BY <1>3, <3>2, EmptySeq
        <4>2. output'[1] = Second(h)
          BY <1>3, <1>5, <1>8, <4>1 DEF InPairs
        <4> QED BY <1>8, <2>2, <2>3, <4>1, <4>2 DEF ReadSoFar
      <3> QED BY <3>1, <3>2
    <2>5. NoQuestions'
      BY <1>3, <1>5, <2>2, <2>3 DEF NoQuestions
    <2>6. TypeOK'
      BY <1>1, <1>2, <1>3, <1>4, <2>2 DEF TypeOK
    <2> QED BY <1>5, <1>6, <1>7, <2>2, <2>4, <2>5, <2>6 DEF McpInv, LinesInv, AnswersMatch, At
  <1>9. CASE h.half # 1
    <2>1. partial' = <<>>
      BY <1>9 DEF Read, Releases, h, line
    <2>2. ReadSoFar' /\ NoQuestions'
      BY <1>3, <1>5, <2>1, EmptySeq DEF ReadSoFar, NoQuestions
    <2>3. CASE IsAnswer(c, line)
      <3>1. call' = [call EXCEPT ![c].at = "answered",
                        ![c].answered = IF WholeAnswer(line) THEN line[1].id ELSE 0]
        BY <1>9, <2>3 DEF Read, h, line
      <3>2. Len(line) = 2 /\ line[1].kind \in {"answer", "asks"} /\ line[1].id = call[c].id
        BY <2>3 DEF IsAnswer
      <3>3. /\ Len(partial) = 1 /\ line[1] = partial[1] /\ line[2] = h
            /\ partial[1].half = 1 /\ h = Second(partial[1]) /\ partial[1] \in Halves
            /\ partial # <<>>
        <4>0. PICK n \in Nat : n = Len(partial) /\ n + 1 = Len(line)
          BY <1>4
        <4>1. n = 1
          BY <3>2, <4>0
        <4>2. 1 \in 1..Len(partial) /\ Len(partial) = 1
          BY <4>0, <4>1
        <4>3. line[1] = partial[1] /\ line[2] = h
          BY <1>4, <3>2, <4>2
        <4>4. partial[1] \in Halves
          BY <1>1, <4>2, ElementOfSeq
        <4>5. partial # <<>>
          <5>1. partial = <<>> => Len(partial) = 0
            OBVIOUS
          <5> QED BY <4>2, <5>1
        <4> QED BY <1>2, <1>3, <1>5, <4>2, <4>3, <4>4, <4>5 DEF ReadSoFar
      <3>4. ServerAsks \/ WholeAnswer(line)
        <4>1. ServerAsks \/ partial[1].kind = "answer"
          BY <1>5, <3>2, <3>3 DEF NoQuestions
        <4>2. ASSUME partial[1].kind = "answer"
              PROVE  WholeAnswer(line)
          <5>1. line = <<partial[1], Second(partial[1])>>
            BY <1>4, <3>2, <3>3
          <5>2. partial[1] = Half("answer", line[1].id, 1)
            BY <3>3, <4>2 DEF Half, Halves
          <5>3. Second(partial[1]) = Half("answer", line[1].id, 2)
            BY <5>2 DEF Half, Second
          <5> QED BY <5>1, <5>2, <5>3 DEF WholeAnswer, Line
        <4> QED BY <4>1, <4>2
      <3>5. line[1].id \in Nat
        BY <1>1, <3>2
      <3>6. TypeOK'
        <4>1. PICK n \in Nat : call' = [call EXCEPT ![c].at = "answered", ![c].answered = n]
          BY <3>1, <3>5
        <4>2. "answered" \in Places /\ <<>> \in Seq(Halves)
          BY DEF Places
        <4>3. call' \in [Callers -> [at : Places, id : Nat, answered : Nat]]
          BY <1>1, <4>1, <4>2
        <4> QED BY <1>1, <1>2, <1>3, <2>1, <4>2, <4>3 DEF TypeOK
      <3>7. ServerAsks \/ AnswersMatch'
        BY <1>1, <1>5, <3>1, <3>2, <3>4 DEF AnswersMatch, At
      <3> QED BY <1>6, <1>7, <2>2, <3>6, <3>7 DEF McpInv, LinesInv
    <2>4. CASE ~IsAnswer(c, line)
      <3>1. UNCHANGED <<call, holder>>
        BY <1>9, <2>4 DEF Read, h, line
      <3>2. TypeOK'
        BY <1>1, <1>2, <1>3, <2>1, <3>1, EmptySeq DEF TypeOK
      <3> QED BY <1>5, <1>6, <1>7, <2>2, <3>1, <3>2 DEF McpInv, LinesInv, AnswersMatch, At
    <2> QED BY <2>3, <2>4
  <1> QED BY <1>8, <1>9

------------------------------------------------------------------------------
(* The server                                                                *)

(* The server takes a half of a request, or goes.                            *)
LEMMA ServerTakes ==
    ASSUME McpInv, ServerReads \/ ServerGoes
    PROVE  McpInv'
  <1>1. /\ call \in [Callers -> [at : Places, id : Nat, answered : Nat]]
        /\ partial \in Seq(Halves) /\ output \in Seq(Halves) /\ nextId \in Nat
        /\ server \in [line : Seq(Halves), mid : Nat, todo : SUBSET Nat, said : Nat, gone : BOOLEAN]
        /\ input \in Seq(Halves)
    BY DEF McpInv, LinesInv, TypeOK
  <1>2. UNCHANGED <<output, nextId, call, holder, partial>>
    BY DEF ServerReads, ServerGoes, Unmoved
  <1>3. /\ input' \in Seq(Halves) /\ server'.mid = server.mid
        /\ server' \in [line : Seq(Halves), mid : Nat, todo : SUBSET Nat, said : Nat,
                        gone : BOOLEAN]
    <2>1. CASE ServerGoes
      BY <1>1, <2>1 DEF ServerGoes
    <2>2. CASE ServerReads
      <3> DEFINE h == Head(input)
                 line == Append(server.line, h)
      <3>1. h \in Halves /\ input' \in Seq(Halves)
        BY <1>1, <2>2, Taking DEF ServerReads
      <3>2. line \in Seq(Halves) /\ Len(line) = Len(server.line) + 1 /\ Len(server.line) \in Nat
        BY <1>1, <3>1, Added
      <3>3. Len(line) = 2 => line[1].id \in Nat
        <4>1. Len(line) = 2 => line[1] \in Halves
          BY <3>2
        <4> QED BY <4>1 DEF Halves
      <3>4. server' = IF h.half = 1 THEN [server EXCEPT !.line = line]
                      ELSE [server EXCEPT !.line = <<>>,
                               !.todo = IF Len(line) = 2 THEN @ \union {line[1].id} ELSE @]
        BY <2>2 DEF ServerReads
      <3> HIDE DEF line, h
      <3>5. (IF Len(line) = 2 THEN server.todo \union {line[1].id} ELSE server.todo) \in SUBSET Nat
        BY <1>1, <3>3
      <3> QED BY <1>1, <3>1, <3>2, <3>4, <3>5, EmptySeq
    <2> QED BY <2>1, <2>2
  <1>4. TypeOK'
    BY <1>1, <1>2, <1>3 DEF TypeOK
  <1> QED BY <1>2, <1>3, <1>4
          DEF McpInv, LinesInv, InPairs, InTheMiddle, ReadSoFar, NoQuestions, AnswersMatch, At

(* A half or a pair goes out where the last one ended.                       *)
LEMMA SendsKeeps ==
    ASSUME McpInv, NEW mid \in Nat, NEW todo \in SUBSET Nat, NEW said \in Nat, NEW lines,
           Sends(lines, mid, todo, said),
           \/ \E h \in Halves : /\ server.mid = 0 /\ mid # 0 /\ h = Half("answer", mid, 1)
                                /\ lines = <<h>>
           \/ /\ server.mid # 0 /\ mid = 0 /\ lines = <<Half("answer", server.mid, 2)>>
           \/ \E h \in Halves : /\ server.mid = 0 /\ mid = 0 /\ h.half = 1
                                /\ (h.kind = "asks" => ServerAsks)
                                /\ lines = <<h, Second(h)>>
    PROVE  McpInv'
  <1>1. /\ call \in [Callers -> [at : Places, id : Nat, answered : Nat]]
        /\ partial \in Seq(Halves) /\ output \in Seq(Halves) /\ nextId \in Nat
        /\ server \in [line : Seq(Halves), mid : Nat, todo : SUBSET Nat, said : Nat, gone : BOOLEAN]
        /\ input \in Seq(Halves) /\ Len(output) \in Nat
    BY DEF McpInv, LinesInv, TypeOK
  <1>2. /\ UNCHANGED <<input, nextId, call, holder, partial>>
        /\ output' = output \o lines
        /\ server' = [server EXCEPT !.mid = mid, !.todo = todo, !.said = said]
    BY DEF Sends, Unmoved
  <1>3. /\ server' \in [line : Seq(Halves), mid : Nat, todo : SUBSET Nat, said : Nat,
                        gone : BOOLEAN]
        /\ server'.mid = mid
    BY <1>1, <1>2
  <1>4. InPairs /\ InTheMiddle /\ ReadSoFar /\ NoQuestions /\ (ServerAsks \/ AnswersMatch)
    BY DEF McpInv, LinesInv
  <1>5. output # <<>> <=> Len(output) # 0
    BY <1>1, EmptySeq
  <1>6. ASSUME NEW h \in Halves, lines = <<h>>, h.kind = "answer",
               output # <<>> => IF output[Len(output)].half = 1 THEN h = Second(output[Len(output)])
                                ELSE h.half = 1,
               IF mid = 0 THEN h.half = 2 ELSE h = Half("answer", mid, 1),
               partial # <<>> /\ output = <<>> => h = Second(partial[1])
        PROVE  McpInv'
    <2>1. /\ output' \in Seq(Halves) /\ Len(output') = Len(output) + 1 /\ output' # <<>>
          /\ output'[Len(output')] = h /\ \A i \in 1..Len(output) : output'[i] = output[i]
      BY <1>1, <1>2, <1>6, Added
    <2>2. TypeOK'
      BY <1>1, <1>2, <1>3, <2>1 DEF TypeOK
    <2>3. InPairs'
      <3> SUFFICES ASSUME NEW i \in 1..(Len(output') - 1)
                   PROVE  IF output'[i].half = 1 THEN output'[i + 1] = Second(output'[i])
                          ELSE output'[i + 1].half = 1
        BY DEF InPairs
      <3>1. CASE i = Len(output)
        BY <1>1, <1>5, <1>6, <2>1, <3>1
      <3>2. CASE i # Len(output)
        <4>1. i \in 1..(Len(output) - 1) /\ i + 1 \in 1..Len(output) /\ i \in 1..Len(output)
          BY <1>1, <2>1, <3>2
        <4> QED BY <1>4, <2>1, <4>1 DEF InPairs
      <3> QED BY <3>1, <3>2
    <2>4. InTheMiddle'
      BY <1>3, <1>6, <2>1 DEF InTheMiddle
    <2>5. ReadSoFar'
      <3>1. CASE output = <<>>
        BY <1>1, <1>2, <1>4, <1>5, <1>6, <2>1, <3>1 DEF ReadSoFar
      <3>2. CASE output # <<>>
        BY <1>1, <1>2, <1>4, <1>5, <2>1, <3>2 DEF ReadSoFar
      <3> QED BY <3>1, <3>2
    <2>6. NoQuestions'
      BY <1>1, <1>2, <1>4, <1>6, <2>1 DEF NoQuestions
    <2> QED BY <1>2, <1>4, <2>2, <2>3, <2>4, <2>5, <2>6 DEF McpInv, LinesInv, AnswersMatch, At
  <1>7. ASSUME NEW h \in Halves, server.mid = 0, mid = 0, h.half = 1,
               h.kind = "asks" => ServerAsks, lines = <<h, Second(h)>>
        PROVE  McpInv'
    <2>1. Second(h) \in Halves /\ Second(h).half = 2 /\ Second(h).kind = h.kind
      BY DEF Second, Halves
    <2>2. /\ output' \in Seq(Halves) /\ Len(output') = Len(output) + 2 /\ output' # <<>>
          /\ output'[Len(output')] = Second(h) /\ output'[Len(output) + 1] = h
          /\ \A i \in 1..Len(output) : output'[i] = output[i]
      BY <1>1, <1>2, <1>7, <2>1, AddedTwo
    <2>3. TypeOK'
      BY <1>1, <1>2, <1>3, <2>2 DEF TypeOK
    <2>4. InPairs'
      <3> SUFFICES ASSUME NEW i \in 1..(Len(output') - 1)
                   PROVE  IF output'[i].half = 1 THEN output'[i + 1] = Second(output'[i])
                          ELSE output'[i + 1].half = 1
        BY DEF InPairs
      <3>1. CASE i = Len(output)
        BY <1>1, <1>4, <1>5, <1>7, <2>2, <3>1 DEF InTheMiddle
      <3>2. CASE i = Len(output) + 1
        BY <1>1, <1>7, <2>2, <3>2
      <3>3. CASE i \notin {Len(output), Len(output) + 1}
        <4>1. i \in 1..(Len(output) - 1) /\ i + 1 \in 1..Len(output) /\ i \in 1..Len(output)
          BY <1>1, <2>2, <3>3
        <4> QED BY <1>4, <2>2, <4>1 DEF InPairs
      <3> QED BY <3>1, <3>2, <3>3
    <2>5. InTheMiddle'
      BY <1>3, <1>7, <2>1, <2>2 DEF InTheMiddle
    <2>6. ReadSoFar'
      <3>1. partial # <<>> => output # <<>>
        BY <1>4, <1>7 DEF ReadSoFar
      <3> QED BY <1>1, <1>2, <1>4, <1>5, <2>2, <3>1 DEF ReadSoFar
    <2>7. NoQuestions'
      <3>1. \A i \in 1..Len(output) : output[i].kind = "asks" => ServerAsks
        BY <1>4 DEF NoQuestions
      <3>2. ASSUME NEW i \in 1..Len(output'), output'[i].kind = "asks" PROVE ServerAsks
        <4>1. CASE i \in 1..Len(output)
          BY <2>2, <3>1, <3>2, <4>1
        <4>2. CASE i \notin 1..Len(output)
          <5>1. i = Len(output) + 1 \/ i = Len(output')
            BY <1>1, <2>2, <4>2
          <5> QED BY <1>7, <2>1, <2>2, <3>2, <5>1
        <4> QED BY <4>1, <4>2
      <3>3. \A i \in 1..Len(partial') : partial'[i].kind = "asks" => ServerAsks
        BY <1>2, <1>4 DEF NoQuestions
      <3> QED BY <3>2, <3>3 DEF NoQuestions
    <2> QED BY <1>2, <1>4, <2>3, <2>4, <2>5, <2>6, <2>7 DEF McpInv, LinesInv, AnswersMatch, At
  <1>8. ASSUME NEW h \in Halves, server.mid = 0, mid # 0, h = Half("answer", mid, 1), lines = <<h>>
        PROVE  McpInv'
    <2>1. h.kind = "answer" /\ h.half = 1
      BY <1>8 DEF Half
    <2>2. output # <<>> => output[Len(output)].half = 2
      BY <1>4, <1>8 DEF InTheMiddle
    <2>3. partial # <<>> => output # <<>>
      BY <1>4, <1>8 DEF ReadSoFar
    <2> QED BY <1>6, <1>8, <2>1, <2>2, <2>3
  <1>9. ASSUME server.mid # 0, mid = 0, lines = <<Half("answer", server.mid, 2)>>
        PROVE  McpInv'
    <2> DEFINE h == Half("answer", server.mid, 2)
    <2>1. h \in Halves /\ h.kind = "answer" /\ h.half = 2
      BY <1>1 DEF Half, Halves
    <2>2. h = Second(Half("answer", server.mid, 1)) /\ Half("answer", server.mid, 1).half = 1
      BY DEF Half, Second
    <2>3. output # <<>> => output[Len(output)].half = 1 /\ h = Second(output[Len(output)])
      BY <1>4, <1>9, <2>2 DEF InTheMiddle
    <2>4. partial # <<>> /\ output = <<>> => h = Second(partial[1])
      BY <1>4, <2>2 DEF ReadSoFar
    <2> HIDE DEF h
    <2>5. lines = <<h>>
      BY <1>9 DEF h
    <2> QED BY <1>6, <1>9, <2>1, <2>3, <2>4, <2>5
  <1> QED BY <1>7, <1>8, <1>9

(* What the server says comes in pairs, or half of one and then the rest.    *)
LEMMA ServerSends ==
    ASSUME McpClientAssumption, McpInv,
           \/ \E id \in 1..MaxCalls : ServerAnswers(id)
           \/ ServerGoesOn
           \/ \E id \in 0..MaxSaid : ServerSays("note", id) \/ ServerSays("asks", id)
    PROVE  McpInv'
  <1>1. server \in [line : Seq(Halves), mid : Nat, todo : SUBSET Nat, said : Nat, gone : BOOLEAN]
    BY DEF McpInv, LinesInv, TypeOK
  <1>2. \A kind \in {"answer", "note", "asks"} : \A id \in Nat :
           /\ Half(kind, id, 1) \in Halves
           /\ Half(kind, id, 1).half = 1 /\ Half(kind, id, 1).kind = kind
           /\ Line(kind, id) = <<Half(kind, id, 1), Second(Half(kind, id, 1))>>
    BY DEF Half, Halves, Line, Second
  <1>3. ASSUME NEW id \in 1..MaxCalls, ServerAnswers(id)
        PROVE  McpInv'
    <2>1. id \in Nat /\ id # 0
      BY DEF McpClientAssumption
    <2>2. server.mid = 0 /\ server.todo \ {id} \in SUBSET Nat /\ server.said \in Nat
      BY <1>1, <1>3 DEF ServerAnswers
    <2>3. CASE Sends(Line("answer", id), 0, server.todo \ {id}, server.said)
      BY <1>2, <2>1, <2>2, <2>3, SendsKeeps
    <2>4. CASE Sends(<<Half("answer", id, 1)>>, id, server.todo \ {id}, server.said)
      BY <1>2, <2>1, <2>2, <2>4, SendsKeeps
    <2> QED BY <1>3, <2>3, <2>4 DEF ServerAnswers
  <1>4. CASE ServerGoesOn
    BY <1>1, <1>4, SendsKeeps DEF ServerGoesOn
  <1>5. ASSUME NEW id \in 0..MaxSaid, NEW kind \in {"note", "asks"}, ServerSays(kind, id)
        PROVE  McpInv'
    <2>1. id \in Nat /\ server.said + 1 \in Nat /\ server.todo \in SUBSET Nat
      BY <1>1
    <2>2. /\ server.mid = 0 /\ (kind = "asks" => ServerAsks)
          /\ Sends(Line(kind, id), 0, server.todo, server.said + 1)
      BY <1>5 DEF ServerSays
    <2> QED BY <1>2, <2>1, <2>2, SendsKeeps
  <1> QED BY <1>3, <1>4, <1>5

------------------------------------------------------------------------------
(* Theorems                                                                  *)

(* At first nothing was said.                                                *)
LEMMA McpInit == Init => McpInv
  <1> SUFFICES ASSUME Init PROVE McpInv
    OBVIOUS
  <1>1. TypeOK
    BY DEF Init, TypeOK, NoCall, Places
  <1> QED BY <1>1 DEF Init, McpInv, LinesInv, InPairs, InTheMiddle, ReadSoFar, NoQuestions,
                      AnswersMatch, At, NoCall

(* Every step keeps the invariant.                                           *)
LEMMA McpStep ==
    ASSUME McpClientAssumption, McpInv, [Next]_vars
    PROVE  McpInv'
  <1>1. CASE UNCHANGED vars
    BY <1>1 DEF vars, McpInv, LinesInv, TypeOK, InPairs, InTheMiddle, ReadSoFar, NoQuestions,
                AnswersMatch, At
  <1>2. CASE \E c \in Callers :
                Begin(c) \/ Acquire(c) \/ Write(c) \/ WriteFails(c) \/ ReadEnds(c) \/ TimesOut(c)
                   \/ Cancel(c)
    BY <1>2, CallersWrite, WritesKeep DEF McpInv, LinesInv
  <1>3. CASE \E c \in Callers : Read(c)
    BY <1>3, ReadKeeps
  <1>4. CASE Server
    BY <1>4, ServerTakes, ServerSends DEF Server
  <1> QED BY <1>1, <1>2, <1>3, <1>4 DEF Next

(* Whatever callers before it left in the pipes, a call returns the whole    *)
(* answer to its own request, from a server that sends no requests of its    *)
(* own (mcp_client.rs read_matching_response).                               *)
THEOREM AnswersMatchCorrect ==
    ASSUME McpClientAssumption, ~ServerAsks
    PROVE  Spec => []AnswersMatch
  <1>1. McpInv /\ [Next]_vars => McpInv'
    BY McpStep
  <1>2. McpInv => AnswersMatch
    BY DEF McpInv
  <1> QED BY McpInit, <1>1, <1>2, PTL DEF Spec

------------------------------------------------------------------------------
(* Frames of an event stream                                                *)

(* Induction, over a set of numbers.                                         *)
LEMMA Climb ==
    ASSUME NEW T, 0 \in T, \A n \in Nat : n \in T => n + 1 \in T
    PROVE  Nat \subseteq T
  <1> DEFINE D == Nat \ T
             R == {ss \in Nat \X Nat : ss[1] < ss[2]}
  <1> SUFFICES ASSUME D # {} PROVE FALSE
    OBVIOUS
  <1>1. IsWellFoundedOn(R, Nat)
    BY NatLessThanWellFounded DEF OpToRel
  <1> HIDE DEF R
  <1>2. PICK d \in D : \A y \in D : <<y, d>> \notin R
    BY <1>1, WFMin
  <1>3. d \in Nat /\ d # 0
    OBVIOUS
  <1>4. d - 1 \in Nat /\ d - 1 < d /\ (d - 1) + 1 = d
    BY <1>3
  <1>5. d - 1 \in T
    BY <1>2, <1>3, <1>4 DEF R
  <1>6. d \in T
    BY <1>4, <1>5
  <1> QED BY <1>2, <1>6

(* Of numbers one is the least.                                              *)
LEMMA Least ==
    ASSUME NEW T, T \subseteq Nat, T # {}
    PROVE  \E d \in T : \A y \in T : d <= y
  <1> DEFINE R == {ss \in Nat \X Nat : ss[1] < ss[2]}
  <1>1. IsWellFoundedOn(R, Nat)
    BY NatLessThanWellFounded DEF OpToRel
  <1> HIDE DEF R
  <1>2. PICK d \in T : \A y \in T : <<y, d>> \notin R
    BY <1>1, WFMin
  <1>3. \A y \in T : ~(y < d)
    BY <1>2 DEF R
  <1> QED BY <1>3

(* n elements of a sequence after the first k.                               *)
LEMMA PieceIs ==
    ASSUME NEW E, NEW s \in Seq(E), NEW k \in Nat, NEW n \in Nat, k + n <= Len(s),
           NEW t, t = SubSeq(s, k + 1, k + n)
    PROVE  t \in Seq(E) /\ Len(t) = n /\ \A i \in 1..n : t[i] = s[i + k]
  <1>2. \A j \in (k + 1)..(k + n) : s[j] \in E
    OBVIOUS
  <1>3. k + 1 \in Int /\ k + n \in Int
    OBVIOUS
  <1>4. /\ t \in Seq(E)
        /\ Len(t) = IF k + 1 <= k + n THEN (k + n) - (k + 1) + 1 ELSE 0
        /\ \A i \in 1..((k + n) - (k + 1) + 1) : t[i] = s[k + 1 + i - 1]
    BY <1>2, <1>3, SubSeqProperties
  <1>5. (k + n) - (k + 1) + 1 = n /\ (~(k + 1 <= k + n) => n = 0)
    OBVIOUS
  <1>6. Len(t) = n
    BY <1>4, <1>5
  <1>7. ASSUME NEW i \in 1..n PROVE t[i] = s[i + k]
    <2>1. k + 1 + i - 1 = i + k
      OBVIOUS
    <2>2. t[i] = s[k + 1 + i - 1]
      BY <1>4, <1>5
    <2> QED BY <2>1, <2>2
  <1> QED BY <1>4, <1>6, <1>7

(* A separator stands at i: the bytes after the first i are one.             *)
At2(s, i) == i \in Nat /\ i + 2 <= Len(s) /\ s[i + 1] = "n" /\ s[i + 2] = "n"
At4(s, i) ==
    /\ i \in Nat /\ i + 4 <= Len(s)
    /\ s[i + 1] = "r" /\ s[i + 2] = "n" /\ s[i + 3] = "r" /\ s[i + 4] = "n"
SepAt(s, i) == At2(s, i) \/ At4(s, i)
SepLen(s, i) == IF At2(s, i) THEN 2 ELSE 4
First(s, i) == SepAt(s, i) /\ \A j \in Nat : SepAt(s, j) => i <= j

LEMMA OffsetsAre ==
    ASSUME NEW s \in Seq(Frames!Bytes), NEW i
    PROVE  /\ i \in Frames!Offsets(s, <<"n", "n">>) <=> At2(s, i)
           /\ i \in Frames!Offsets(s, <<"r", "n", "r", "n">>) <=> At4(s, i)
  <1>1. Len(s) \in Nat /\ \A j \in 1..Len(s) : s[j] \in Frames!Bytes
    OBVIOUS
  <1>2. i \in Frames!Offsets(s, <<"n", "n">>) <=> At2(s, i)
    <2> DEFINE t == SubSeq(s, i + 1, i + 2)
    <2>1. i \in Frames!Offsets(s, <<"n", "n">>) <=> i \in 0..(Len(s) - 2) /\ t = <<"n", "n">>
      BY DEF Frames!Offsets
    <2>2. ASSUME i \in 0..(Len(s) - 2) PROVE t = <<"n", "n">> <=> s[i + 1] = "n" /\ s[i + 2] = "n"
      <3>1. t \in Seq(Frames!Bytes) /\ Len(t) = 2 /\ t[1] = s[i + 1] /\ t[2] = s[i + 2]
        <4>1. i \in Nat /\ i + 2 <= Len(s)
          BY <1>1, <2>2
        <4>0. t = SubSeq(s, i + 1, i + 2)
          OBVIOUS
        <4> HIDE DEF t
        <4>2. t \in Seq(Frames!Bytes) /\ Len(t) = 2 /\ \A j \in 1..2 : t[j] = s[j + i]
          BY <4>0, <4>1, PieceIs
        <4>3. t[1] = s[1 + i] /\ t[2] = s[2 + i]
          BY <4>2
        <4>4. 1 + i = i + 1 /\ 2 + i = i + 2
          BY <4>1
        <4> QED BY <4>2, <4>3, <4>4
      <3>2. <<"n", "n">> \in Seq(Frames!Bytes) /\ Len(<<"n", "n">>) = 2
        BY DEF Frames!Bytes
      <3> HIDE DEF t
      <3>3. t[1] = "n" /\ t[2] = "n" => t = <<"n", "n">>
        BY <3>1, <3>2, SeqEqual
      <3> QED BY <3>1, <3>3
    <2> QED BY <1>1, <2>1, <2>2 DEF At2
  <1>3. i \in Frames!Offsets(s, <<"r", "n", "r", "n">>) <=> At4(s, i)
    <2> DEFINE t == SubSeq(s, i + 1, i + 4)
               sep == <<"r", "n", "r", "n">>
    <2>1. i \in Frames!Offsets(s, sep) <=> i \in 0..(Len(s) - 4) /\ t = sep
      BY DEF Frames!Offsets
    <2>2. ASSUME i \in 0..(Len(s) - 4)
          PROVE  t = sep <=> s[i + 1] = "r" /\ s[i + 2] = "n" /\ s[i + 3] = "r" /\ s[i + 4] = "n"
      <3>1. /\ t \in Seq(Frames!Bytes) /\ Len(t) = 4
            /\ t[1] = s[i + 1] /\ t[2] = s[i + 2] /\ t[3] = s[i + 3] /\ t[4] = s[i + 4]
        <4>1. i \in Nat /\ i + 4 <= Len(s)
          BY <1>1, <2>2
        <4>0. t = SubSeq(s, i + 1, i + 4)
          OBVIOUS
        <4> HIDE DEF t
        <4>2. t \in Seq(Frames!Bytes) /\ Len(t) = 4 /\ \A j \in 1..4 : t[j] = s[j + i]
          BY <4>0, <4>1, PieceIs
        <4>3. t[1] = s[1 + i] /\ t[2] = s[2 + i] /\ t[3] = s[3 + i] /\ t[4] = s[4 + i]
          BY <4>2
        <4>4. 1 + i = i + 1 /\ 2 + i = i + 2 /\ 3 + i = i + 3 /\ 4 + i = i + 4
          BY <4>1
        <4> QED BY <4>2, <4>3, <4>4
      <3>2. sep \in Seq(Frames!Bytes) /\ Len(sep) = 4
        BY DEF Frames!Bytes
      <3>3. sep[1] = "r" /\ sep[2] = "n" /\ sep[3] = "r" /\ sep[4] = "n"
        OBVIOUS
      <3> HIDE DEF t, sep
      <3>4. t[1] = "r" /\ t[2] = "n" /\ t[3] = "r" /\ t[4] = "n" => t = sep
        BY <3>1, <3>2, <3>3, SeqEqual
      <3> QED BY <3>1, <3>3, <3>4
    <2> QED BY <1>1, <2>1, <2>2 DEF At4
  <1> QED BY <1>2, <1>3

(* What the search finds is the first separator.                             *)
LEMMA BoundaryIs ==
    ASSUME NEW s \in Seq(Frames!Bytes)
    PROVE  /\ Frames!HasBoundary(s) <=> \E i \in Nat : SepAt(s, i)
           /\ Frames!HasBoundary(s) => \E at \in Nat : First(s, at)
           /\ \A at \in Nat : First(s, at) =>
                  Frames!Boundary(s) = [offset |-> at, length |-> SepLen(s, at)]
  <1> DEFINE S == UNION {Frames!Offsets(s, sep) : sep \in Frames!Separators}
  <1>1. \A i : i \in S <=> SepAt(s, i)
    <2>1. \A i : i \in S <=> \/ i \in Frames!Offsets(s, <<"n", "n">>)
                             \/ i \in Frames!Offsets(s, <<"r", "n", "r", "n">>)
      BY Zenon DEF Frames!Separators
    <2> QED BY <2>1, OffsetsAre DEF SepAt
  <1>2. Frames!HasBoundary(s) <=> S # {}
    BY DEF Frames!HasBoundary
  <1>3. Frames!Boundary(s) = [offset |-> Frames!LeastOf(S),
                              length |-> IF Frames!LeastOf(S) \in Frames!Offsets(s, <<"n", "n">>)
                                         THEN 2 ELSE 4]
    BY DEF Frames!Boundary
  <1> HIDE DEF S
  <1>4. S \subseteq Nat
    BY <1>1 DEF SepAt, At2, At4
  <1>5. Frames!HasBoundary(s) <=> \E i \in Nat : SepAt(s, i)
    BY <1>1, <1>2, <1>4
  <1>6. Frames!HasBoundary(s) => \E at \in Nat : First(s, at)
    <2>1. SUFFICES ASSUME S # {} PROVE \E at \in Nat : First(s, at)
      BY <1>2
    <2>2. PICK at \in S : \A y \in S : at <= y
      BY <1>4, <2>1, Least
    <2> QED BY <1>1, <1>4, <2>2 DEF First
  <1>7. ASSUME NEW at \in Nat, First(s, at)
        PROVE  Frames!Boundary(s) = [offset |-> at, length |-> SepLen(s, at)]
    <2>1. at \in S /\ \A y \in S : at <= y
      BY <1>1, <1>4, <1>7 DEF First
    <2>2. Frames!LeastOf(S) \in S /\ \A y \in S : Frames!LeastOf(S) <= y
      BY <2>1 DEF Frames!LeastOf
    <2>3. Frames!LeastOf(S) <= at /\ at <= Frames!LeastOf(S) /\ Frames!LeastOf(S) \in Nat
      BY <1>4, <2>1, <2>2
    <2>4. Frames!LeastOf(S) = at
      BY <2>3
    <2> QED BY <1>3, <2>4, OffsetsAre DEF SepLen
  <1> QED BY <1>5, <1>6, <1>7

(* What is left after the first k bytes.                                     *)
LEMMA DropIs ==
    ASSUME NEW s \in Seq(Frames!Bytes), NEW k \in 0..Len(s)
    PROVE  /\ Frames!Drop(s, k) \in Seq(Frames!Bytes) /\ Len(Frames!Drop(s, k)) = Len(s) - k
           /\ \A i \in 1..(Len(s) - k) : Frames!Drop(s, k)[i] = s[i + k]
           /\ \A i \in Nat : /\ SepAt(Frames!Drop(s, k), i) <=> SepAt(s, i + k)
                             /\ SepLen(Frames!Drop(s, k), i) = SepLen(s, i + k)
  <1>1. Len(s) \in Nat /\ \A j \in 1..Len(s) : s[j] \in Frames!Bytes
    OBVIOUS
  <1>2. PICK t : t = Frames!Drop(s, k)
    OBVIOUS
  <1>3. /\ t \in Seq(Frames!Bytes) /\ Len(t) = Len(s) - k
        /\ \A i \in 1..(Len(s) - k) : t[i] = s[i + k]
    <2>1. PICK n : n = Len(s) - k
      OBVIOUS
    <2>2. k \in Nat /\ n \in Nat /\ k + n = Len(s) /\ k + n <= Len(s)
      BY <1>1, <2>1
    <2>3. t = SubSeq(s, k + 1, k + n)
      BY <1>2, <2>2 DEF Frames!Drop
    <2>4. t \in Seq(Frames!Bytes) /\ Len(t) = n /\ \A i \in 1..n : t[i] = s[i + k]
      BY <2>2, <2>3, PieceIs
    <2> QED BY <2>1, <2>4
  <1>4. ASSUME NEW i \in Nat PROVE (At2(t, i) <=> At2(s, i + k)) /\ (At4(t, i) <=> At4(s, i + k))
    <2>1. i + k \in Nat /\ (i + 2 <= Len(t) <=> i + k + 2 <= Len(s))
                        /\ (i + 4 <= Len(t) <=> i + k + 4 <= Len(s))
      BY <1>1, <1>3
    <2>2. ASSUME i + 2 <= Len(t) PROVE t[i + 1] = s[i + k + 1] /\ t[i + 2] = s[i + k + 2]
      BY <1>1, <1>3, <2>2
    <2>3. ASSUME i + 4 <= Len(t) PROVE t[i + 3] = s[i + k + 3] /\ t[i + 4] = s[i + k + 4]
      BY <1>1, <1>3, <2>3
    <2>4. i + 4 <= Len(t) => i + 2 <= Len(t)
      BY <1>1, <1>3
    <2> QED BY <2>1, <2>2, <2>3, <2>4 DEF At2, At4
  <1> QED BY <1>2, <1>3, <1>4 DEF SepAt, SepLen

(* Two kinds of round.                                                       *)
LEMMA ScanNone ==
    ASSUME NEW s \in Seq(Frames!Bytes), NEW k \in 0..Len(s), NEW f,
           \A i \in Nat : k <= i => ~SepAt(s, i)
    PROVE  Frames!ScanFrom(s, k, f) = [events |-> <<>>, rest |-> s]
  <1>1. ~Frames!HasBoundary(Frames!Drop(s, k))
    <2>1. \A i \in Nat : i + k \in Nat /\ k <= i + k
      OBVIOUS
    <2>2. \A i \in Nat : ~SepAt(Frames!Drop(s, k), i)
      BY <2>1, DropIs
    <2> QED BY <2>2, DropIs, BoundaryIs
  <1> QED BY <1>1 DEF Frames!ScanFrom

Round(s, at, f, c) == [events |-> Frames!EventOf(Frames!Take(s, at)) \o f[c].events,
                       rest |-> f[c].rest]

LEMMA ScanSome ==
    ASSUME NEW s \in Seq(Frames!Bytes), NEW k \in 0..Len(s), NEW f,
           NEW at \in Nat, First(s, at), k <= at,
           NEW c, c = Frames!Drop(s, at + SepLen(s, at))
    PROVE  Frames!ScanFrom(s, k, f) = Round(s, at, f, c)
  <1>1. PICK t : t = Frames!Drop(s, k)
    OBVIOUS
  <1>2. t \in Seq(Frames!Bytes) /\ \A i \in Nat : /\ SepAt(t, i) <=> SepAt(s, i + k)
                                                  /\ SepLen(t, i) = SepLen(s, i + k)
    BY <1>1, DropIs
  <1>3. at - k \in Nat /\ (at - k) + k = at
    OBVIOUS
  <1>4. First(t, at - k)
    <2>1. SepAt(t, at - k)
      BY <1>2, <1>3 DEF First
    <2>2. ASSUME NEW j \in Nat, SepAt(t, j) PROVE at - k <= j
      <3>1. SepAt(s, j + k) /\ j + k \in Nat
        BY <1>2, <2>2
      <3>2. at <= j + k
        BY <3>1 DEF First
      <3> QED BY <3>2
    <2> QED BY <2>1, <2>2 DEF First
  <1>5. Frames!HasBoundary(t)
    BY <1>2, <1>3, <1>4, BoundaryIs DEF First
  <1>6. Frames!Boundary(t) = [offset |-> at - k, length |-> SepLen(t, at - k)]
    BY <1>2, <1>3, <1>4, BoundaryIs
  <1>7. SepLen(t, at - k) = SepLen(s, at)
    BY <1>2, <1>3
  <1>8. /\ Frames!Boundary(t).offset = at - k /\ Frames!Boundary(t).length = SepLen(s, at)
        /\ k + (at - k) = at
    BY <1>3, <1>6, <1>7
  <1> QED BY <1>1, <1>5, <1>8, Zenon DEF Frames!ScanFrom, Round

(* What is left after a separator is shorter.                                *)
LEMMA LeftIsShorter ==
    ASSUME NEW s \in Seq(Frames!Bytes), NEW at \in Nat, SepAt(s, at)
    PROVE  /\ at + SepLen(s, at) \in 0..Len(s) /\ SepLen(s, at) \in {2, 4}
           /\ Frames!Drop(s, at + SepLen(s, at)) \in Seq(Frames!Bytes)
           /\ Len(Frames!Drop(s, at + SepLen(s, at))) < Len(s)
  <1>1. at + SepLen(s, at) \in 0..Len(s) /\ SepLen(s, at) \in {2, 4}
    <2>1. CASE At2(s, at)
      BY <2>1 DEF SepLen, At2
    <2>2. CASE ~At2(s, at)
      <3>1. At4(s, at) /\ SepLen(s, at) = 4
        BY <2>2 DEF SepAt, SepLen
      <3> QED BY <3>1 DEF At4
    <2> QED BY <2>1, <2>2
  <1>2. PICK n : n = at + SepLen(s, at)
    OBVIOUS
  <1>3. n \in 0..Len(s) /\ n > 0
    BY <1>1, <1>2
  <1>4. Frames!Drop(s, n) \in Seq(Frames!Bytes) /\ Len(Frames!Drop(s, n)) = Len(s) - n
    BY <1>3, DropIs
  <1> QED BY <1>1, <1>2, <1>3, <1>4

(* A round asks the rest of the loop for something shorter alone.            *)
LEMMA RoundIsLocal ==
    ASSUME NEW s \in Seq(Frames!Bytes), NEW f, NEW g,
           \A c \in Seq(Frames!Bytes) : Len(c) < Len(s) => f[c] = g[c]
    PROVE  Frames!ScanFrom(s, 0, f) = Frames!ScanFrom(s, 0, g)
  <1>1. 0 \in 0..Len(s)
    OBVIOUS
  <1>2. CASE \E i \in Nat : SepAt(s, i)
    <2>1. PICK at \in Nat : First(s, at)
      BY <1>2, BoundaryIs
    <2>2. PICK c : c = Frames!Drop(s, at + SepLen(s, at))
      OBVIOUS
    <2>3. c \in Seq(Frames!Bytes) /\ Len(c) < Len(s)
      BY <2>1, <2>2, LeftIsShorter DEF First
    <2>4. f[c] = g[c]
      BY <2>3
    <2>5. /\ Frames!ScanFrom(s, 0, f) = Round(s, at, f, c)
          /\ Frames!ScanFrom(s, 0, g) = Round(s, at, g, c)
      <3>1. First(s, at) /\ 0 <= at
        BY <2>1
      <3> QED BY <1>1, <2>2, <3>1, ScanSome
    <2> QED BY <2>4, <2>5, Zenon DEF Round
  <1>3. CASE \A i \in Nat : ~SepAt(s, i)
    BY <1>1, <1>3, ScanNone
  <1> QED BY <1>2, <1>3

(* f is Scan on texts shorter than n.                                        *)
Shorter(n) == {b \in Seq(Frames!Bytes) : Len(b) < n}
ScansTo(n, f) == f = [b \in Shorter(n) |-> Frames!ScanFrom(b, 0, f)]

LEMMA ScansExist ==
    ASSUME NEW m \in Nat
    PROVE  \E f : ScansTo(m, f)
  <1> DEFINE T == {n \in Nat : \E f : ScansTo(n, f)}
  <1>1. 0 \in T
    <2> DEFINE f == [b \in Shorter(0) |-> 0]
    <2>1. Shorter(0) = {}
      BY DEF Shorter
    <2>2. ScansTo(0, f)
      BY <2>1 DEF ScansTo
    <2> QED BY <2>2
  <1>2. ASSUME NEW n \in Nat, n \in T PROVE \E f : ScansTo(n + 1, f)
    <2>1. PICK f : ScansTo(n, f)
      BY <1>2
    <2> DEFINE g == [b \in Shorter(n + 1) |-> Frames!ScanFrom(b, 0, f)]
    <2>2. ASSUME NEW b \in Shorter(n + 1) PROVE Frames!ScanFrom(b, 0, f) = Frames!ScanFrom(b, 0, g)
      <3>1. b \in Seq(Frames!Bytes) /\ Len(b) < n + 1
        BY DEF Shorter
      <3>2. ASSUME NEW c \in Seq(Frames!Bytes), Len(c) < Len(b) PROVE f[c] = g[c]
        <4>1. c \in Shorter(n) /\ c \in Shorter(n + 1)
          BY <3>1, <3>2 DEF Shorter
        <4>2. f[c] = Frames!ScanFrom(c, 0, f)
          BY <2>1, <4>1 DEF ScansTo
        <4> QED BY <4>1, <4>2
      <3> HIDE DEF g
      <3> QED BY <3>1, <3>2, RoundIsLocal
    <2>3. g = [b \in Shorter(n + 1) |-> Frames!ScanFrom(b, 0, g)]
      <3>1. PICK h : h = g
        OBVIOUS
      <3>2. \A b \in Shorter(n + 1) : Frames!ScanFrom(b, 0, f) = Frames!ScanFrom(b, 0, h)
        BY <2>2, <3>1
      <3>3. g = [b \in Shorter(n + 1) |-> Frames!ScanFrom(b, 0, h)]
        BY <3>2
      <3> HIDE DEF g
      <3> QED BY <3>1, <3>3
    <2> HIDE DEF g
    <2> QED BY <2>3 DEF ScansTo
  <1>3. \A n \in Nat : n \in T => n + 1 \in T
    BY <1>2
  <1> HIDE DEF T
  <1>4. m \in T
    BY <1>1, <1>3, Climb
  <1> QED BY <1>4 DEF T

LEMMA ScansAgree ==
    ASSUME NEW m \in Nat, NEW n \in Nat, NEW f, NEW g, ScansTo(m, f), ScansTo(n, g),
           NEW b \in Seq(Frames!Bytes), Len(b) < m, Len(b) < n
    PROVE  f[b] = g[b]
  <1> DEFINE T == {k \in Nat : \A c \in Seq(Frames!Bytes) :
                       Len(c) < k /\ Len(c) < m /\ Len(c) < n => f[c] = g[c]}
  <1>1. 0 \in T
    OBVIOUS
  <1>2. ASSUME NEW k \in Nat, k \in T,
               NEW c \in Seq(Frames!Bytes), Len(c) < k + 1, Len(c) < m, Len(c) < n
        PROVE  f[c] = g[c]
    <2>1. \A d \in Seq(Frames!Bytes) : Len(d) < Len(c) => f[d] = g[d]
      <3>1. SUFFICES ASSUME NEW d \in Seq(Frames!Bytes), Len(d) < Len(c) PROVE f[d] = g[d]
        OBVIOUS
      <3>2. Len(d) \in Nat /\ Len(c) \in Nat
        OBVIOUS
      <3>3. Len(d) < k /\ Len(d) < m /\ Len(d) < n
        BY <1>2, <3>1, <3>2
      <3> QED BY <1>2, <3>3
    <2>2. c \in Shorter(m) /\ c \in Shorter(n)
      BY <1>2 DEF Shorter
    <2>3. f[c] = Frames!ScanFrom(c, 0, f) /\ g[c] = Frames!ScanFrom(c, 0, g)
      BY <2>2 DEF ScansTo
    <2> QED BY <2>1, <2>3, RoundIsLocal
  <1>3. \A k \in Nat : k \in T => k + 1 \in T
    BY <1>2
  <1> HIDE DEF T
  <1>4. Nat \subseteq T
    BY <1>1, <1>3, Climb
  <1>5. Len(b) + 1 \in Nat /\ Len(b) < Len(b) + 1
    OBVIOUS
  <1>6. Len(b) + 1 \in T
    BY <1>4, <1>5
  <1> QED BY <1>5, <1>6 DEF T

(* The loop, round by round.                                                 *)
LEMMA ScanIs == \A b \in Seq(Frames!Bytes) : Frames!Scan[b] = Frames!ScanFrom(b, 0, Frames!Scan)
  <1> DEFINE Loop(f) == f = [b \in Seq(Frames!Bytes) |-> Frames!ScanFrom(b, 0, f)]
             F(n) == CHOOSE f : ScansTo(n, f)
             g == [b \in Seq(Frames!Bytes) |-> F(Len(b) + 1)[b]]
  <1>1. \A n \in Nat : ScansTo(n, F(n))
    BY ScansExist
  <1> HIDE DEF F
  <1>2. ASSUME NEW b \in Seq(Frames!Bytes) PROVE F(Len(b) + 1)[b] = Frames!ScanFrom(b, 0, g)
    <2>1. PICK n \in Nat : n = Len(b) + 1
      OBVIOUS
    <2>2. b \in Shorter(n) /\ Len(b) < n
      BY <2>1 DEF Shorter
    <2>3. PICK h : h = F(n)
      OBVIOUS
    <2>4. ScansTo(n, h)
      BY <1>1, <2>3
    <2>5. h[b] = Frames!ScanFrom(b, 0, h)
      BY <2>2, <2>4 DEF ScansTo
    <2>6. ASSUME NEW c \in Seq(Frames!Bytes), Len(c) < Len(b) PROVE h[c] = g[c]
      <3>1. PICK k \in Nat : k = Len(c) + 1
        OBVIOUS
      <3>2. ScansTo(k, F(k))
        BY <1>1
      <3>3. Len(c) < k /\ Len(c) < n
        BY <2>1, <2>6, <3>1
      <3>4. h[c] = F(k)[c]
        BY <2>4, <3>2, <3>3, ScansAgree
      <3> QED BY <3>1, <3>4
    <2> HIDE DEF g
    <2> QED BY <2>1, <2>3, <2>5, <2>6, RoundIsLocal
  <1>3. Loop(g)
    <2>1. PICK h : h = g
      OBVIOUS
    <2>2. \A b \in Seq(Frames!Bytes) : F(Len(b) + 1)[b] = Frames!ScanFrom(b, 0, h)
      BY <1>2, <2>1
    <2>3. g = [b \in Seq(Frames!Bytes) |-> Frames!ScanFrom(b, 0, h)]
      BY <2>2
    <2> HIDE DEF g
    <2> QED BY <2>1, <2>3
  <1> HIDE DEF g
  <1>4. Frames!Scan = CHOOSE f : Loop(f)
    BY DEF Frames!Scan
  <1>5. Loop(Frames!Scan)
    BY <1>3, <1>4
  <1>6. Frames!Scan = [b \in Seq(Frames!Bytes) |-> Frames!ScanFrom(b, 0, Frames!Scan)]
    BY <1>5
  <1> QED BY <1>6

(* The events there may be.                                                  *)
Event == {Frames!EventOf(frame)[1] : frame \in Seq(Frames!Bytes)}

LEMMA EventsAre ==
    ASSUME NEW frame \in Seq(Frames!Bytes)
    PROVE  Frames!EventOf(frame) \in Seq(Event)
  <1>1. CASE Frames!EventOf(frame) = <<>>
    BY <1>1
  <1>2. CASE Frames!EventOf(frame) # <<>>
    <2>1. PICK e : Frames!EventOf(frame) = <<e>>
      BY <1>2 DEF Frames!EventOf
    <2>2. Frames!EventOf(frame)[1] = e
      BY <2>1
    <2>3. e \in Event
      BY <2>2 DEF Event
    <2> QED BY <2>1, <2>3
  <1> QED BY <1>1, <1>2

(* What a scan leaves has no separator, and what it finds is events.         *)
Scanned(b) ==
    /\ Frames!Scan[b] = [events |-> Frames!Scan[b].events, rest |-> Frames!Scan[b].rest]
    /\ Frames!Scan[b].events \in Seq(Event)
    /\ Frames!Scan[b].rest \in Seq(Frames!Bytes) /\ \A i \in Nat : ~SepAt(Frames!Scan[b].rest, i)

LEMMA ScanType == \A b \in Seq(Frames!Bytes) : Scanned(b)
  <1> DEFINE T == {k \in Nat : \A b \in Seq(Frames!Bytes) : Len(b) < k => Scanned(b)}
  <1>1. 0 \in T
    OBVIOUS
  <1>2. ASSUME NEW k \in Nat, k \in T, NEW b \in Seq(Frames!Bytes), Len(b) < k + 1 PROVE Scanned(b)
    <2>1. Frames!Scan[b] = Frames!ScanFrom(b, 0, Frames!Scan) /\ 0 \in 0..Len(b)
      BY ScanIs
    <2>2. CASE \A i \in Nat : ~SepAt(b, i)
      <3>1. Frames!Scan[b] = [events |-> <<>>, rest |-> b]
        BY <2>1, <2>2, ScanNone
      <3> QED BY <2>2, <3>1 DEF Scanned
    <2>3. CASE \E i \in Nat : SepAt(b, i)
      <3>1. PICK at \in Nat : First(b, at)
        BY <2>3, BoundaryIs
      <3>2. PICK c : c = Frames!Drop(b, at + SepLen(b, at))
        OBVIOUS
      <3>3. c \in Seq(Frames!Bytes) /\ Len(c) < Len(b)
        BY <3>1, <3>2, LeftIsShorter DEF First
      <3>4. Len(c) < k
        BY <1>2, <3>3
      <3>5. Scanned(c)
        BY <1>2, <3>3, <3>4
      <3>6. Frames!Scan[b] = [events |-> Frames!EventOf(Frames!Take(b, at)) \o Frames!Scan[c].events,
                              rest |-> Frames!Scan[c].rest]
        <4>1. 0 <= at /\ 0 \in 0..Len(b)
          OBVIOUS
        <4>2. Frames!ScanFrom(b, 0, Frames!Scan) = Round(b, at, Frames!Scan, c)
          BY <3>1, <3>2, <4>1, ScanSome
        <4> QED BY <2>1, <4>2, Zenon DEF Round
      <3>7. Frames!Take(b, at) \in Seq(Frames!Bytes)
        <4>1. at <= Len(b)
          BY <3>1 DEF First, SepAt, At2, At4
        <4>2. \A j \in 1..at : b[j] \in Frames!Bytes
          BY <4>1
        <4> QED BY <4>2, SubSeqProperties DEF Frames!Take
      <3>8. Frames!EventOf(Frames!Take(b, at)) \in Seq(Event)
        BY <3>7, EventsAre
      <3>9. Frames!EventOf(Frames!Take(b, at)) \o Frames!Scan[c].events \in Seq(Event)
        BY <3>5, <3>8, ConcatProperties DEF Scanned
      <3> QED BY <3>5, <3>6, <3>9 DEF Scanned
    <2> QED BY <2>2, <2>3
  <1>3. \A k \in Nat : k \in T => k + 1 \in T
    BY <1>2
  <1> HIDE DEF T
  <1>4. Nat \subseteq T
    BY <1>1, <1>3, Climb
  <1>5. ASSUME NEW b \in Seq(Frames!Bytes) PROVE Scanned(b)
    <2>1. Len(b) + 1 \in Nat /\ Len(b) < Len(b) + 1
      OBVIOUS
    <2>2. Len(b) + 1 \in T
      BY <1>4, <2>1
    <2> QED BY <2>1, <2>2 DEF T
  <1> QED BY <1>5

(* Bytes that come after a separator do not move the first one: one that     *)
(* begins before it would have to lie across it.                             *)
LEMMA FirstStays ==
    ASSUME NEW b \in Seq(Frames!Bytes), NEW c \in Seq(Frames!Bytes), NEW at \in Nat, First(b, at)
    PROVE  /\ First(b \o c, at) /\ SepLen(b \o c, at) = SepLen(b, at)
           /\ Frames!Take(b \o c, at) = Frames!Take(b, at)
           /\ \A k \in 0..Len(b) : Frames!Drop(b \o c, k) = Frames!Drop(b, k) \o c
  <1>1. PICK t : t = b \o c
    OBVIOUS
  <1>2. /\ t \in Seq(Frames!Bytes) /\ Len(t) = Len(b) + Len(c)
        /\ \A i \in 1..(Len(b) + Len(c)) : t[i] = IF i <= Len(b) THEN b[i] ELSE c[i - Len(b)]
    BY <1>1, ConcatProperties
  <1>3. Len(b) \in Nat /\ Len(c) \in Nat /\ \A i \in 1..Len(b) : t[i] = b[i]
    BY <1>2
  <1>4. ASSUME NEW i \in Nat, i + 2 <= Len(b) PROVE At2(t, i) <=> At2(b, i)
    <2>1. i + 1 \in 1..Len(b) /\ i + 2 \in 1..Len(b) /\ i + 2 <= Len(t)
      BY <1>2, <1>3, <1>4
    <2> QED BY <1>3, <1>4, <2>1 DEF At2
  <1>5. ASSUME NEW i \in Nat, i + 4 <= Len(b) PROVE At4(t, i) <=> At4(b, i)
    <2>1. /\ i + 1 \in 1..Len(b) /\ i + 2 \in 1..Len(b)
          /\ i + 3 \in 1..Len(b) /\ i + 4 \in 1..Len(b)
          /\ i + 4 <= Len(t)
      BY <1>2, <1>3, <1>5
    <2> QED BY <1>3, <1>5, <2>1 DEF At4
  <1>6. at + 2 <= Len(b) /\ (At4(b, at) => at + 4 <= Len(b))
    BY <1>3 DEF First, SepAt, At2, At4
  <1>7. SepAt(t, at) /\ (At2(t, at) <=> At2(b, at))
    BY <1>4, <1>5, <1>6 DEF First, SepAt
  <1>8. ASSUME NEW i \in Nat, SepAt(t, i), i < at PROVE FALSE
    <2>1. ~SepAt(b, i)
      BY <1>8 DEF First
    <2>2. i + 2 <= Len(b)
      BY <1>3, <1>6, <1>8
    <2>3. At4(t, i) /\ ~(i + 4 <= Len(b))
      BY <1>4, <1>5, <1>8, <2>1, <2>2 DEF SepAt
    <2>4. ~At4(b, at)
      BY <1>3, <1>6, <1>8, <2>3
    <2>5. At2(b, at)
      BY <2>4 DEF First, SepAt
    <2>6. at = i + 1
      BY <1>3, <1>6, <1>8, <2>3
    <2>7. t[i + 2] = "n" /\ t[i + 3] = "n"
      BY <1>7, <2>5, <2>6 DEF At2
    <2> QED BY <2>3, <2>7 DEF At4
  <1>9. First(t, at)
    BY <1>7, <1>8 DEF First
  <1>10. SepLen(t, at) = SepLen(b, at)
    BY <1>7 DEF SepLen
  <1>11. Frames!Take(t, at) = Frames!Take(b, at)
    <2>1. at <= Len(b) /\ at <= Len(t)
      BY <1>2, <1>3, <1>6
    <2>2. (\A j \in 1..at : b[j] \in Frames!Bytes) /\ \A j \in 1..at : t[j] \in Frames!Bytes
      BY <1>2, <2>1
    <2>3. /\ Frames!Take(b, at) \in Seq(Frames!Bytes) /\ Frames!Take(t, at) \in Seq(Frames!Bytes)
          /\ Len(Frames!Take(b, at)) = IF 1 <= at THEN at - 1 + 1 ELSE 0
          /\ Len(Frames!Take(t, at)) = IF 1 <= at THEN at - 1 + 1 ELSE 0
          /\ \A i \in 1..(at - 1 + 1) : /\ Frames!Take(b, at)[i] = b[1 + i - 1]
                                        /\ Frames!Take(t, at)[i] = t[1 + i - 1]
      BY <2>2, SubSeqProperties DEF Frames!Take
    <2>4. Len(Frames!Take(b, at)) = at /\ Len(Frames!Take(t, at)) = at
      BY <2>3
    <2>5. \A i \in 1..at : Frames!Take(b, at)[i] = Frames!Take(t, at)[i]
      BY <1>3, <2>1, <2>3
    <2> QED BY <2>3, <2>4, <2>5, SeqEqual
  <1>12. ASSUME NEW k \in 0..Len(b) PROVE Frames!Drop(t, k) = Frames!Drop(b, k) \o c
    <2>1. PICK d : d = Frames!Drop(b, k)
      OBVIOUS
    <2>2. /\ d \in Seq(Frames!Bytes)
          /\ Len(d) = Len(b) - k /\ \A i \in 1..(Len(b) - k) : d[i] = b[i + k]
      BY <2>1, DropIs
    <2>3. PICK u : u = d \o c
      OBVIOUS
    <2>4. /\ u \in Seq(Frames!Bytes) /\ Len(u) = Len(d) + Len(c)
          /\ \A i \in 1..(Len(d) + Len(c)) : u[i] = IF i <= Len(d) THEN d[i] ELSE c[i - Len(d)]
      BY <2>2, <2>3, ConcatProperties
    <2>5. PICK v : v = Frames!Drop(t, k)
      OBVIOUS
    <2>6. k \in 0..Len(t)
      BY <1>2, <1>3
    <2>7. /\ v \in Seq(Frames!Bytes)
          /\ Len(v) = Len(t) - k /\ \A i \in 1..(Len(t) - k) : v[i] = t[i + k]
      BY <1>2, <2>5, <2>6, DropIs
    <2>8. Len(v) = Len(u)
      BY <1>2, <1>3, <2>2, <2>4, <2>7
    <2>9. ASSUME NEW i \in 1..Len(v) PROVE v[i] = u[i]
      <3>1. i \in 1..(Len(t) - k) /\ i \in 1..(Len(d) + Len(c)) /\ i + k \in 1..(Len(b) + Len(c))
        BY <1>2, <1>3, <2>2, <2>4, <2>7
      <3>2. v[i] = t[i + k]
        BY <2>7, <3>1
      <3>3. CASE i <= Len(d)
        <4>1. i + k <= Len(b) /\ i \in 1..(Len(b) - k)
          BY <1>3, <2>2, <3>3
        <4>2. t[i + k] = b[i + k] /\ u[i] = d[i] /\ d[i] = b[i + k]
          BY <1>2, <2>2, <2>4, <3>1, <3>3, <4>1
        <4> QED BY <3>2, <4>2
      <3>4. CASE ~(i <= Len(d))
        <4>1. ~(i + k <= Len(b)) /\ i + k - Len(b) = i - Len(d)
          BY <1>3, <2>2, <3>4
        <4>2. t[i + k] = c[i + k - Len(b)] /\ u[i] = c[i - Len(d)]
          BY <1>2, <2>4, <3>1, <3>4, <4>1, SMTT(30)
        <4> QED BY <3>2, <4>1, <4>2
      <3> QED BY <3>3, <3>4
    <2>10. v = u
      BY <2>4, <2>7, <2>8, <2>9, SeqEqual
    <2> QED BY <2>1, <2>3, <2>5, <2>10
  <1> QED BY <1>1, <1>9, <1>10, <1>11, <1>12

(* Joining three sequences in either order.                                  *)
LEMMA Regrouped ==
    ASSUME NEW E, NEW x \in Seq(E), NEW y \in Seq(E), NEW z \in Seq(E)
    PROVE  (x \o y) \o z = x \o (y \o z)
  BY ConcatAssociative

(* Scanning what a scan left, and what came since, goes on with the scan.    *)
LEMMA ScanGoesOn ==
    ASSUME NEW c \in Seq(Frames!Bytes)
    PROVE  \A b \in Seq(Frames!Bytes) :
               LET more == Frames!Scan[Frames!Scan[b].rest \o c] IN
               Frames!Scan[b \o c] = [events |-> Frames!Scan[b].events \o more.events,
                                      rest |-> more.rest]
  <1> DEFINE GoesOn(b) ==
                 LET more == Frames!Scan[Frames!Scan[b].rest \o c] IN
                 Frames!Scan[b \o c] = [events |-> Frames!Scan[b].events \o more.events,
                                        rest |-> more.rest]
             T == {k \in Nat : \A b \in Seq(Frames!Bytes) : Len(b) < k => GoesOn(b)}
  <1>1. 0 \in T
    <2>1. \A b \in Seq(Frames!Bytes) : ~(Len(b) < 0)
      OBVIOUS
    <2> HIDE DEF GoesOn
    <2> QED BY <2>1
  <1>2. ASSUME NEW k \in Nat, k \in T, NEW b \in Seq(Frames!Bytes), Len(b) < k + 1 PROVE GoesOn(b)
    <2>1. b \o c \in Seq(Frames!Bytes) /\ Len(b \o c) = Len(b) + Len(c)
      BY ConcatProperties
    <2>2. /\ Frames!Scan[b] = Frames!ScanFrom(b, 0, Frames!Scan)
          /\ Frames!Scan[b \o c] = Frames!ScanFrom(b \o c, 0, Frames!Scan)
      BY <2>1, ScanIs
    <2>3. 0 \in 0..Len(b) /\ 0 \in 0..Len(b \o c)
      BY <2>1
    <2>4. CASE \A i \in Nat : ~SepAt(b, i)
      <3>1. Frames!Scan[b] = [events |-> <<>>, rest |-> b]
        BY <2>2, <2>3, <2>4, ScanNone
      <3>2. PICK s : s = Frames!Scan[b \o c]
        OBVIOUS
      <3>3. s = [events |-> s.events, rest |-> s.rest] /\ s.events \in Seq(Event)
        BY <2>1, <3>2, ScanType DEF Scanned
      <3>4. <<>> \o s.events = s.events
        BY <3>3, ConcatEmptySeq
      <3>5. Frames!Scan[b].rest = b /\ Frames!Scan[b].events = <<>>
        BY <3>1
      <3> QED BY <3>2, <3>3, <3>4, <3>5
    <2>5. CASE \E i \in Nat : SepAt(b, i)
      <3>1. PICK at \in Nat : First(b, at)
        BY <2>5, BoundaryIs
      <3>2. PICK n : n = at + SepLen(b, at)
        OBVIOUS
      <3>3. PICK d, head : d = Frames!Drop(b, n) /\ head = Frames!EventOf(Frames!Take(b, at))
        OBVIOUS
      <3>4. d \in Seq(Frames!Bytes) /\ Len(d) < Len(b) /\ n \in 0..Len(b)
        BY <3>1, <3>2, <3>3, LeftIsShorter DEF First
      <3>5. Frames!Scan[b] = [events |-> head \o Frames!Scan[d].events,
                              rest |-> Frames!Scan[d].rest]
        <4>1. First(b, at) /\ 0 <= at /\ d = Frames!Drop(b, at + SepLen(b, at))
          BY <3>1, <3>2, <3>3
        <4>2. Frames!ScanFrom(b, 0, Frames!Scan) = Round(b, at, Frames!Scan, d)
          BY <2>3, <4>1, ScanSome
        <4> QED BY <2>2, <3>3, <4>2, Zenon DEF Round
      <3>6. /\ First(b \o c, at) /\ SepLen(b \o c, at) = SepLen(b, at)
            /\ Frames!Take(b \o c, at) = Frames!Take(b, at) /\ Frames!Drop(b \o c, n) = d \o c
        BY <3>1, <3>3, <3>4, FirstStays
      <3>7. Frames!Scan[b \o c] = [events |-> head \o Frames!Scan[d \o c].events,
                                   rest |-> Frames!Scan[d \o c].rest]
        <4>1. PICK t, e : t = b \o c /\ e = d \o c
          OBVIOUS
        <4>2. /\ t \in Seq(Frames!Bytes) /\ 0 \in 0..Len(t)
              /\ Frames!Scan[t] = Frames!ScanFrom(t, 0, Frames!Scan)
          BY <2>1, <2>2, <2>3, <4>1
        <4>3. First(t, at) /\ 0 <= at /\ e = Frames!Drop(t, at + SepLen(t, at))
          BY <3>2, <3>6, <4>1
        <4>4. Frames!ScanFrom(t, 0, Frames!Scan) = Round(t, at, Frames!Scan, e)
          BY <4>2, <4>3, ScanSome
        <4>5. Frames!EventOf(Frames!Take(t, at)) = head
          BY <3>3, <3>6, <4>1
        <4> QED BY <4>1, <4>2, <4>4, <4>5, Zenon DEF Round
      <3>8. PICK more : more = Frames!Scan[Frames!Scan[d].rest \o c]
        OBVIOUS
      <3>9. Frames!Scan[d \o c] = [events |-> Frames!Scan[d].events \o more.events,
                                   rest |-> more.rest]
        <4>1. Len(d) < k
          BY <1>2, <3>4
        <4>2. GoesOn(d)
          BY <1>2, <3>4, <4>1
        <4> QED BY <3>8, <4>2
      <3>10. /\ Frames!Scan[b].rest = Frames!Scan[d].rest
             /\ Frames!Scan[b].events = head \o Frames!Scan[d].events
        BY <3>5
      <3>11. head \o (Frames!Scan[d].events \o more.events) =
                 (head \o Frames!Scan[d].events) \o more.events
        <4>1. Frames!Scan[d].events \in Seq(Event) /\ Frames!Scan[d].rest \in Seq(Frames!Bytes)
          BY <3>4, ScanType DEF Scanned
        <4>2. Frames!Scan[d].rest \o c \in Seq(Frames!Bytes)
          BY <4>1, ConcatProperties
        <4>3. more.events \in Seq(Event)
          BY <3>8, <4>2, ScanType DEF Scanned
        <4>4. Frames!Take(b, at) \in Seq(Frames!Bytes)
          <5>1. at <= Len(b)
            BY <3>1 DEF First, SepAt, At2, At4
          <5>2. \A j \in 1..at : b[j] \in Frames!Bytes
            BY <5>1
          <5> QED BY <5>2, SubSeqProperties DEF Frames!Take
        <4>5. head \in Seq(Event)
          BY <3>3, <4>4, EventsAre
        <4>6. PICK x, y, z : x = head /\ y = Frames!Scan[d].events /\ z = more.events
          OBVIOUS
        <4>7. x \in Seq(Event) /\ y \in Seq(Event) /\ z \in Seq(Event)
          BY <4>1, <4>3, <4>5, <4>6
        <4>8. (x \o y) \o z = x \o (y \o z)
          BY <4>7, Regrouped, SMTT(30)
        <4> QED BY <4>6, <4>8, Zenon
      <3>12. Frames!Scan[b \o c] = [events |-> Frames!Scan[b].events \o more.events,
                                    rest |-> more.rest]
        <4>1. PICK whole, later : whole = Frames!Scan[b \o c] /\ later = Frames!Scan[d \o c]
          OBVIOUS
        <4>2. later.events = Frames!Scan[d].events \o more.events /\ later.rest = more.rest
          <5>1. PICK joined : joined = Frames!Scan[d].events \o more.events
            OBVIOUS
          <5>2. later = [events |-> joined, rest |-> more.rest]
            BY <3>9, <4>1, <5>1, Zenon
          <5> QED BY <5>1, <5>2, Zenon
        <4>3. whole = [events |-> head \o later.events, rest |-> later.rest]
          BY <3>7, <4>1, Zenon
        <4> HIDE DEF GoesOn
        <4>4. head \o later.events = Frames!Scan[b].events \o more.events
          BY <3>10, <3>11, <4>2, Zenon
        <4> QED BY <4>1, <4>2, <4>3, <4>4, Zenon
      <3> QED BY <3>8, <3>10, <3>12
    <2> QED BY <2>4, <2>5
  <1> HIDE DEF GoesOn
  <1>3. \A k \in Nat : k \in T => k + 1 \in T
    BY <1>2
  <1> HIDE DEF T
  <1>4. Nat \subseteq T
    BY <1>1, <1>3, Climb
  <1>5. ASSUME NEW b \in Seq(Frames!Bytes) PROVE GoesOn(b)
    <2>1. Len(b) + 1 \in Nat /\ Len(b) < Len(b) + 1
      OBVIOUS
    <2>2. Len(b) + 1 \in T
      BY <1>4, <2>1
    <2> QED BY <2>1, <2>2 DEF T
  <1> QED BY <1>5 DEF GoesOn

(* Where push resumes it misses nothing.                                     *)
LEMMA ResumeMissesNothing ==
    ASSUME NEW b \in Seq(Frames!Bytes), NEW c \in Seq(Frames!Bytes), \A i \in Nat : ~SepAt(b, i)
    PROVE  Frames!ScanFrom(b \o c, Frames!ResumeAt(Len(b)), Frames!Scan) = Frames!Scan[b \o c]
  <1>1. PICK t : t = b \o c
    OBVIOUS
  <1>2. /\ t \in Seq(Frames!Bytes) /\ Len(t) = Len(b) + Len(c)
        /\ \A i \in 1..(Len(b) + Len(c)) : t[i] = IF i <= Len(b) THEN b[i] ELSE c[i - Len(b)]
    BY <1>1, ConcatProperties
  <1>3. Len(b) \in Nat /\ Len(c) \in Nat
    OBVIOUS
  <1>4. PICK k : k = Frames!ResumeAt(Len(b))
    OBVIOUS
  <1>5. k \in 0..Len(t) /\ k \in 0..Len(b) /\ (k = 0 \/ k = Len(b) - 3)
    BY <1>2, <1>3, <1>4 DEF Frames!ResumeAt, Frames!MAX_SEP_LEN
  <1>6. ASSUME NEW i \in Nat, SepAt(t, i) PROVE k <= i
    <2>1. SUFFICES ASSUME i < Len(b) - 3 PROVE FALSE
      BY <1>3, <1>5
    <2>2. /\ i + 1 \in 1..Len(b) /\ i + 2 \in 1..Len(b)
          /\ i + 3 \in 1..Len(b) /\ i + 4 \in 1..Len(b)
          /\ i + 2 <= Len(b) /\ i + 4 <= Len(b)
      BY <1>3, <2>1
    <2>3. \A j \in 1..Len(b) : t[j] = b[j]
      BY <1>2, <1>3
    <2>4. SepAt(b, i)
      BY <1>6, <2>2, <2>3 DEF SepAt, At2, At4
    <2> QED BY <2>4
  <1>7. Frames!Scan[t] = Frames!ScanFrom(t, 0, Frames!Scan) /\ 0 \in 0..Len(t)
    BY <1>2, <1>3, ScanIs
  <1>8. CASE \E i \in Nat : SepAt(t, i)
    <2>1. PICK at \in Nat : First(t, at)
      BY <1>2, <1>8, BoundaryIs
    <2>2. k <= at /\ 0 <= at
      BY <1>6, <2>1 DEF First
    <2>3. Frames!ScanFrom(t, k, Frames!Scan) = Frames!ScanFrom(t, 0, Frames!Scan)
      <3>1. PICK d : d = Frames!Drop(t, at + SepLen(t, at))
        OBVIOUS
      <3>2. t \in Seq(Frames!Bytes) /\ k \in 0..Len(t) /\ 0 \in 0..Len(t)
        BY <1>2, <1>5, <1>7
      <3>3. Frames!ScanFrom(t, k, Frames!Scan) = Round(t, at, Frames!Scan, d)
        BY <2>1, <2>2, <3>1, <3>2, ScanSome
      <3>4. Frames!ScanFrom(t, 0, Frames!Scan) = Round(t, at, Frames!Scan, d)
        BY <2>1, <2>2, <3>1, <3>2, ScanSome
      <3> QED BY <3>3, <3>4
    <2> QED BY <1>1, <1>4, <1>7, <2>3
  <1>9. CASE \A i \in Nat : ~SepAt(t, i)
    <2>1. Frames!ScanFrom(t, k, Frames!Scan) = Frames!ScanFrom(t, 0, Frames!Scan)
      <3>1. t \in Seq(Frames!Bytes) /\ k \in 0..Len(t) /\ 0 \in 0..Len(t)
        BY <1>2, <1>5, <1>7
      <3>2. /\ \A i \in Nat : k <= i => ~SepAt(t, i)
            /\ \A i \in Nat : 0 <= i => ~SepAt(t, i)
        BY <1>9
      <3>3. Frames!ScanFrom(t, k, Frames!Scan) = [events |-> <<>>, rest |-> t]
        BY <3>1, <3>2, ScanNone, Zenon
      <3>4. Frames!ScanFrom(t, 0, Frames!Scan) = [events |-> <<>>, rest |-> t]
        BY <3>1, <3>2, ScanNone, Zenon
      <3> QED BY <3>3, <3>4
    <2> QED BY <1>1, <1>4, <1>7, <2>1
  <1> QED BY <1>8, <1>9

(* The invariant over every step.                                            *)
LEMMA SseStep ==
    ASSUME Frames!SseAssumption, Frames!SseInv, Frames!Next
    PROVE  Frames!SseInv'
  <1>1. PICK whole : whole = Frames!Scan[x1]
    OBVIOUS
  <1>2. /\ whole = [events |-> whole.events, rest |-> whole.rest]
        /\ whole.events \in Seq(Event) /\ whole.rest \in Seq(Frames!Bytes)
    BY <1>1, ScanType DEF Frames!SseInv, Scanned
  <1>3. ASSUME NEW chunk \in Frames!Chunks, Frames!Push(chunk) PROVE Frames!SseInv'
    <2>1. chunk \in Seq(Frames!Bytes)
      <3>1. PICK n \in 1..MaxChunk : chunk \in [1..n -> Frames!Bytes]
        BY DEF Frames!Chunks
      <3>2. n \in Nat
        BY DEF Frames!SseAssumption
      <3> QED BY <3>1, <3>2
    <2>2. ~x6 /\ ~x4 /\ whole.events = x5 /\ whole.rest = x2
      BY <1>1, <1>3 DEF Frames!Push, Frames!SseInv
    <2>3. /\ x2 \in Seq(Frames!Bytes) /\ x1 \in Seq(Frames!Bytes)
          /\ (\A i \in Nat : ~SepAt(x2, i)) /\ x3 = Len(x2)
      BY BoundaryIs DEF Frames!SseInv
    <2>4. PICK scan : scan = Frames!Scan[x2 \o chunk]
      OBVIOUS
    <2>5. scan = Frames!ScanFrom(x2 \o chunk, Frames!ResumeAt(x3), Frames!Scan)
      BY <2>1, <2>3, <2>4, ResumeMissesNothing
    <2>6. /\ x1' = x1 \o chunk /\ x6' = x6
          /\ x5' = x5 \o scan.events
          /\ x4' = Frames!TooLong(scan)
          /\ x2' = IF Frames!TooLong(scan) THEN <<>> ELSE scan.rest
          /\ x3' = IF Frames!TooLong(scan) THEN 0 ELSE Len(scan.rest)
      BY <1>3, <2>5 DEF Frames!Push
    <2>7. x2 \o chunk \in Seq(Frames!Bytes) /\ x1' \in Seq(Frames!Bytes)
      BY <2>1, <2>3, <2>6, ConcatProperties
    <2>8. /\ scan = [events |-> scan.events, rest |-> scan.rest] /\ scan.events \in Seq(Event)
          /\ scan.rest \in Seq(Frames!Bytes) /\ \A i \in Nat : ~SepAt(scan.rest, i)
      BY <2>4, <2>7, ScanType DEF Scanned
    <2>9. Frames!Scan[x1'] = [events |-> x5', rest |-> scan.rest]
      BY <1>1, <2>1, <2>2, <2>3, <2>4, <2>6, ScanGoesOn
    <2>10. /\ x2' \in Seq(Frames!Bytes) /\ ~Frames!HasBoundary(x2') /\ x3' = Len(x2')
           /\ Len(x2') <= MaxFrameBytes
      <3>1. CASE Frames!TooLong(scan)
        <4>1. x2' = <<>> /\ x3' = 0
          BY <2>6, <3>1
        <4>2. <<>> \in Seq(Frames!Bytes) /\ \A i \in Nat : ~SepAt(<<>>, i)
          BY DEF SepAt, At2, At4
        <4>3. ~Frames!HasBoundary(<<>>)
          BY <4>2, BoundaryIs
        <4> QED BY <4>1, <4>2, <4>3 DEF Frames!SseAssumption
      <3>2. CASE ~Frames!TooLong(scan)
        <4>1. x2' = scan.rest /\ x3' = Len(scan.rest)
          BY <2>6, <3>2
        <4>2. Len(scan.rest) <= MaxFrameBytes
          BY <2>8, <3>2 DEF Frames!TooLong, Frames!SseAssumption
        <4>3. ~Frames!HasBoundary(scan.rest)
          BY <2>8, BoundaryIs
        <4> QED BY <2>8, <4>1, <4>2, <4>3
      <3> QED BY <3>1, <3>2
    <2>11. ~x4' => x2' = scan.rest
      BY <2>6
    <2>12. ~x4' => x5' = Frames!OfWholeBody'
      <3>1. SUFFICES ASSUME ~x4' PROVE x5' = Frames!OfWholeBody'
        OBVIOUS
      <3>2. x5' = Frames!Scan[x1'].events
        BY <2>9
      <3>3. x5' \in Seq(Event)
        BY <1>2, <2>2, <2>6, <2>8, ConcatProperties
      <3>4. Frames!OfWholeBody' = Frames!Scan[x1'].events \o <<>>
        BY <2>2, <2>6 DEF Frames!OfWholeBody
      <3> QED BY <3>2, <3>3, <3>4, ConcatEmptySeq
    <2>13. ~x4' => Frames!Scan[x1'] = [events |-> x5', rest |-> x2']
      BY <2>9, <2>11
    <2>14. ~x6' /\ x5' = Frames!Scan[x1'].events
      BY <2>2, <2>6, <2>9
    <2> QED BY <2>7, <2>10, <2>12, <2>13, <2>14 DEF Frames!SseInv
  <1>4. CASE Frames!Finish
    <2>1. /\ ~x6 /\ ~x4 /\ x6' = TRUE /\ x1' = x1 /\ x4' = x4
          /\ x5' = x5 \o Frames!EventOf(x2) /\ x2' = <<>> /\ x3' = 0
      BY <1>4 DEF Frames!Finish
    <2>2. whole.events = x5 /\ whole.rest = x2
      BY <1>1, <2>1 DEF Frames!SseInv
    <2>3. x5' = Frames!OfWholeBody'
      BY <1>1, <2>1, <2>2 DEF Frames!OfWholeBody
    <2>4. <<>> \in Seq(Frames!Bytes) /\ \A i \in Nat : ~SepAt(<<>>, i)
      BY DEF SepAt, At2, At4
    <2>5. ~Frames!HasBoundary(<<>>) /\ Len(<<>>) = 0
      BY <2>4, BoundaryIs
    <2>6. x1 \in Seq(Frames!Bytes) /\ 0 <= MaxFrameBytes
      BY DEF Frames!SseInv, Frames!SseAssumption
    <2> QED BY <2>1, <2>3, <2>4, <2>5, <2>6 DEF Frames!SseInv
  <1> QED BY <1>3, <1>4 DEF Frames!Next

(* And over a step of another part.                                          *)
LEMMA SseSame == Frames!SseInv /\ UNCHANGED Frames!vars => Frames!SseInv'
  <1>1. SUFFICES ASSUME Frames!SseInv, UNCHANGED Frames!vars PROVE Frames!SseInv'
    OBVIOUS
  <1>2. /\ x1' = x1 /\ x2' = x2 /\ x3' = x3
        /\ x4' = x4 /\ x5' = x5 /\ x6' = x6
    BY <1>1 DEF Frames!vars
  <1>3. Frames!OfWholeBody' = Frames!OfWholeBody
    BY <1>2 DEF Frames!OfWholeBody
  <1>4. Frames!HasBoundary(x2') = Frames!HasBoundary(x2) /\ Frames!Scan[x1'] = Frames!Scan[x1]
    BY <1>2, Zenon
  <1> QED BY <1>1, <1>2, <1>3, <1>4 DEF Frames!SseInv

(* The invariant at the start.                                               *)
LEMMA SseStarts == Frames!SseAssumption /\ Frames!Init => Frames!SseInv
  <1>1. SUFFICES ASSUME Frames!SseAssumption, Frames!Init PROVE Frames!SseInv
    OBVIOUS
  <1>2. <<>> \in Seq(Frames!Bytes) /\ Len(<<>>) = 0 /\ \A i \in Nat : ~SepAt(<<>>, i)
    BY DEF SepAt, At2, At4
  <1>3. Frames!Scan[<<>>] = [events |-> <<>>, rest |-> <<>>]
    <2>1. 0 \in 0..Len(<<>>) /\ \A i \in Nat : 0 <= i => ~SepAt(<<>>, i)
      BY <1>2
    <2>2. Frames!ScanFrom(<<>>, 0, Frames!Scan) = [events |-> <<>>, rest |-> <<>>]
      BY <1>2, <2>1, ScanNone, Zenon
    <2> QED BY <1>2, <2>2, ScanIs, Zenon
  <1>4. ~Frames!HasBoundary(<<>>)
    BY <1>2, BoundaryIs
  <1>5. /\ x1 = <<>> /\ x2 = <<>> /\ x3 = 0 /\ x4 = FALSE
        /\ x5 = <<>> /\ x6 = FALSE
    BY <1>1 DEF Frames!Init
  <1>6. Frames!OfWholeBody = <<>>
    <2>1. Frames!OfWholeBody = <<>> \o <<>>
      BY <1>3, <1>5 DEF Frames!OfWholeBody
    <2> QED BY <2>1
  <1> QED BY <1>1, <1>2, <1>3, <1>4, <1>5, <1>6 DEF Frames!SseInv, Frames!SseAssumption

(* The invariant says what the property asks.                                *)
LEMMA SseTells ==
    ASSUME Frames!SseInv
    PROVE  Frames!ChunksMakeNoDifference /\ Frames!BufferIsBounded
  <1>1. ASSUME x4 PROVE Frames!IsPrefixOf(x5, Frames!OfWholeBody)
    <2>1. ~x6 /\ x5 = Frames!Scan[x1].events /\ x1 \in Seq(Frames!Bytes)
      BY <1>1 DEF Frames!SseInv
    <2>2. x5 \in Seq(Event)
      BY <2>1, ScanType DEF Scanned
    <2>3. Frames!OfWholeBody = x5
      <3>1. Frames!OfWholeBody = x5 \o <<>>
        BY <2>1 DEF Frames!OfWholeBody
      <3> QED BY <2>2, <3>1, ConcatEmptySeq
    <2>4. Frames!Take(x5, Len(x5)) = x5
      BY <2>2, SubSeqFull DEF Frames!Take
    <2>5. Len(x5) <= Len(x5)
      BY <2>2
    <2> QED BY <2>3, <2>4, <2>5 DEF Frames!IsPrefixOf
  <1> QED BY <1>1 DEF Frames!SseInv, Frames!ChunksMakeNoDifference, Frames!BufferIsBounded

(* The invariant in the composition.                                         *)
LEMMA FramesInvariant == WireSpec => [](part = "sse" => Frames!SseInv)
  <1> DEFINE Inv == part = "sse" => Frames!SseInv
  <1>1. WireInit => Inv
    BY WireAssumption, SseStarts DEF WireInit
  <1>2. Inv /\ [WireNext]_wires => Inv'
    <2>1. SUFFICES ASSUME Inv, [WireNext]_wires, part' = "sse" PROVE Frames!SseInv'
      OBVIOUS
    <2>2. CASE OfSse(Frames!Next)
      BY <2>1, <2>2, WireAssumption, SseStep DEF OfSse
    <2>3. CASE UNCHANGED wires
      <3>1. UNCHANGED Frames!vars /\ part = "sse"
        BY <2>1, <2>3 DEF wires, others, Frames!vars
      <3> QED BY <2>1, <3>1, SseSame
    <2> QED BY <2>1, <2>2, <2>3 DEF WireNext, OfMcp, OfStreams, OfRequests
  <1> QED BY <1>1, <1>2, PTL DEF WireSpec

\* For every body and every way to cut it in chunks: the events are those of
\* the body in one piece, and no more than a frame is kept (sse.rs push).
THEOREM FramesCorrect == WireSpec => []FramesAreWhole
  <1> DEFINE Inv == part = "sse" => Frames!SseInv
  <1>1. Inv => FramesAreWhole
    BY SseTells DEF FramesAreWhole
  <1> QED BY <1>1, FramesInvariant, PTL

------------------------------------------------------------------------------
(* A streamed answer                                                         *)

(* In this part x1..x12 are wire, server, answer, mapper, queue, started,    *)
(* out, phase, drops, message, usage and lastError of Streams.  First the    *)
(* events and what the engine makes of them.                                 *)

(* A tool call, and an answer, as the engine assembles them.                 *)
CallSet == [id : TheAnswer!Ids, args : Seq(Nat \X Nat)]
OutSet == [text : Nat, reasoning : Seq(Nat), signature : Int, redacted : BOOLEAN,
           calls : Seq(CallSet), done : BOOLEAN]

(* Of no event, one, two.                                                    *)
LEMMA AfterIs ==
    /\ \A o : TheAnswer!After(o, <<>>) = o
    /\ \A o, e : TheAnswer!After(o, <<e>>) = TheAnswer!Assembled(o, e)
    /\ \A o, e, f : TheAnswer!After(o, <<e, f>>) = TheAnswer!Assembled(TheAnswer!Assembled(o, e), f)
  <1>1. ASSUME NEW o PROVE TheAnswer!After(o, <<>>) = o
    BY DEF TheAnswer!After
  <1>2. ASSUME NEW o, NEW e PROVE TheAnswer!After(o, <<e>>) = TheAnswer!Assembled(o, e)
    BY DEF TheAnswer!After
  <1>3. ASSUME NEW o, NEW e, NEW f
        PROVE  TheAnswer!After(o, <<e, f>>)
                   = TheAnswer!Assembled(TheAnswer!Assembled(o, e), f)
    BY DEF TheAnswer!After
  <1> QED BY <1>1, <1>2, <1>3

(* The events kind by kind.                                                  *)
LEMMA AssembledIs ==
    ASSUME NEW o, NEW id, NEW says
    PROVE  /\ TheAnswer!Assembled(o, TheAnswer!Ev("text", id, says)) = [o EXCEPT !.text = @ + 1]
           /\ TheAnswer!Assembled(o, TheAnswer!Ev("reasoning", id, says))
                 = [o EXCEPT !.reasoning = Append(@, says)]
           /\ TheAnswer!Assembled(o, TheAnswer!Ev("signature", id, says)) =
                  [o EXCEPT !.signature = says, !.redacted = FALSE]
           /\ TheAnswer!Assembled(o, TheAnswer!Ev("redacted", id, says)) =
                  [o EXCEPT !.signature = says, !.redacted = TRUE]
           /\ TheAnswer!Assembled(o, TheAnswer!Ev("call_start", id, says)) =
                  [o EXCEPT !.calls = Append(@, [id |-> id, args |-> <<>>])]
           /\ TheAnswer!Assembled(o, TheAnswer!Ev("call_delta", id, says)) =
                  [o EXCEPT !.calls = TheAnswer!WithFragment(@, TheAnswer!Ev("call_delta", id, says))]
           /\ TheAnswer!Assembled(o, TheAnswer!Ev("done", id, says)) = [o EXCEPT !.done = TRUE]
           /\ TheAnswer!Assembled(o, TheAnswer!Ev("usage", id, says)) = o
           /\ TheAnswer!Assembled(o, TheAnswer!Ev("error", id, says)) = o
  BY DEF TheAnswer!Assembled, TheAnswer!Ev

(* c is calls with one more fragment, which is of the nth.                   *)
GoesTo(calls, says, n, c) ==
    /\ c \in Seq(CallSet) /\ Len(c) = Len(calls) /\ c[n].id = calls[n].id
    /\ c[n].args = Append(calls[n].args, says)
    /\ \A j \in 1..Len(calls) : j # n => c[j] = calls[j]

(* A fragment goes to the one call with its id.                              *)
LEMMA FragmentGoes ==
    ASSUME NEW calls \in Seq(CallSet), NEW ev, ev.says \in Nat \X Nat,
           NEW n \in 1..Len(calls), calls[n].id = ev.id,
           \A j \in 1..Len(calls) : calls[j].id = ev.id => j = n,
           NEW c, c = TheAnswer!WithFragment(calls, ev)
    PROVE  GoesTo(calls, ev.says, n, c)
  <1> DEFINE own == {i \in 1..Len(calls) : calls[i].id = ev.id}
  <1>0. DOMAIN calls = 1..Len(calls) /\ Len(calls) \in Nat
    OBVIOUS
  <1>1. own = {n}
    OBVIOUS
  <1>2. (CHOOSE j \in own : \A k \in own : j <= k) = n
    <2>1. n \in Int
      OBVIOUS
    <2>2. \A j \in {n} : \A k \in {n} : j <= k
      BY <2>1
    <2> QED BY <1>1, <2>2
  <1>3. c = [i \in 1..Len(calls) |-> IF own # {} /\ i = CHOOSE j \in own : \A k \in own : j <= k
                                    THEN TheAnswer!AppendTo(calls[i], ev) ELSE calls[i]]
    BY <1>0 DEF TheAnswer!WithFragment
  <1>4. own # {}
    BY <1>1
  <1> HIDE DEF own
  <1>5. c = [i \in 1..Len(calls) |-> IF i = n THEN TheAnswer!AppendTo(calls[i], ev) ELSE calls[i]]
    BY <1>2, <1>3, <1>4
  <1>6. /\ calls[n] \in CallSet
        /\ TheAnswer!AppendTo(calls[n], ev) = [calls[n] EXCEPT !.args = Append(@, ev.says)]
    BY DEF TheAnswer!AppendTo
  <1>7. /\ TheAnswer!AppendTo(calls[n], ev) \in CallSet
        /\ TheAnswer!AppendTo(calls[n], ev).id = calls[n].id
        /\ TheAnswer!AppendTo(calls[n], ev).args = Append(calls[n].args, ev.says)
    <2>1. PICK one, args : one = calls[n] /\ args = Append(calls[n].args, ev.says)
      OBVIOUS
    <2>2. one \in CallSet
      BY <1>6, <2>1
    <2>3. one.id \in TheAnswer!Ids /\ one.args \in Seq(Nat \X Nat)
      BY <2>2 DEF CallSet
    <2>4. args \in Seq(Nat \X Nat)
      BY <2>1, <2>3
    <2>5. TheAnswer!AppendTo(calls[n], ev) = [one EXCEPT !.args = args]
      BY <1>6, <2>1
    <2>6. [one EXCEPT !.args = args] = [id |-> one.id, args |-> args]
      <3>1. PICK x, y : one = [id |-> x, args |-> y]
        BY <2>2 DEF CallSet
      <3> QED BY <3>1
    <2>7. TheAnswer!AppendTo(calls[n], ev) = [id |-> one.id, args |-> args]
      BY <2>5, <2>6
    <2>8. [id |-> one.id, args |-> args] \in CallSet
      BY <2>3, <2>4 DEF CallSet
    <2>9. PICK new : new = TheAnswer!AppendTo(calls[n], ev)
      OBVIOUS
    <2>10. new.id = one.id /\ new.args = args /\ new \in CallSet
      BY <2>7, <2>8, <2>9
    <2> QED BY <2>1, <2>9, <2>10, Zenon
  <1>8. \A i \in 1..Len(calls) : c[i] \in CallSet
    BY <1>5, <1>7
  <1>9. c \in Seq(CallSet) /\ Len(c) = Len(calls)
    <2>1. 1..Len(c) = 1..Len(calls) /\ Len(calls) \in Nat
      BY <1>5
    <2>2. c \in [1..Len(calls) -> CallSet]
      BY <1>5, <1>8
    <2> QED BY <2>1, <2>2
  <1> QED BY <1>5, <1>7, <1>9 DEF GoesTo

(* A call that starts, with a fragment in the same chunk.                    *)
LEMMA FragmentStarts ==
    ASSUME NEW calls \in Seq(CallSet), NEW id \in TheAnswer!Ids, NEW says \in Nat \X Nat,
           \A j \in 1..Len(calls) : calls[j].id # id
    PROVE  TheAnswer!WithFragment(Append(calls, [id |-> id, args |-> <<>>]),
                                  TheAnswer!Ev("call_delta", id, says))
               = Append(calls, [id |-> id, args |-> <<says>>])
  <1>1. PICK a, n, ev : /\ a = Append(calls, [id |-> id, args |-> <<>>]) /\ n = Len(calls) + 1
                        /\ ev = TheAnswer!Ev("call_delta", id, says)
    OBVIOUS
  <1>2. [id |-> id, args |-> <<>>] \in CallSet /\ [id |-> id, args |-> <<says>>] \in CallSet
    BY DEF CallSet
  <1>3. /\ a \in Seq(CallSet) /\ Len(a) = n /\ n \in 1..Len(a) /\ a[n].id = id /\ a[n].args = <<>>
        /\ \A j \in 1..Len(a) : j # n => j \in 1..Len(calls) /\ a[j] = calls[j]
    BY <1>1, <1>2
  <1>4. ev.id = id /\ ev.says = says
    BY <1>1 DEF TheAnswer!Ev
  <1>5. PICK c : c = TheAnswer!WithFragment(a, ev)
    OBVIOUS
  <1>6. /\ c \in Seq(CallSet) /\ Len(c) = Len(a) /\ c[n].id = id /\ c[n].args = Append(<<>>, says)
        /\ \A j \in 1..Len(a) : j # n => c[j] = a[j]
    <2>1. \A j \in 1..Len(a) : a[j].id = ev.id => j = n
      BY <1>3, <1>4
    <2>2. a[n].id = ev.id /\ ev.says \in Nat \X Nat /\ a \in Seq(CallSet) /\ n \in 1..Len(a)
      BY <1>3, <1>4
    <2>3. GoesTo(a, ev.says, n, c)
      BY <1>5, <2>1, <2>2, FragmentGoes
    <2> QED BY <1>3, <1>4, <2>3 DEF GoesTo
  <1>7. PICK d : d = Append(calls, [id |-> id, args |-> <<says>>])
    OBVIOUS
  <1>8. /\ d \in Seq(CallSet) /\ Len(d) = n /\ d[n] = [id |-> id, args |-> <<says>>]
        /\ \A j \in 1..Len(calls) : d[j] = calls[j]
    BY <1>1, <1>2, <1>7
  <1>9. c[n] = d[n]
    <2>1. c[n] \in CallSet
      BY <1>3, <1>6
    <2>2. c[n] = [id |-> c[n].id, args |-> c[n].args]
      BY <2>1 DEF CallSet
    <2>3. Append(<<>>, says) = <<says>>
      OBVIOUS
    <2> QED BY <1>6, <1>8, <2>2, <2>3
  <1>10. ASSUME NEW j \in 1..Len(c) PROVE c[j] = d[j]
    <2>1. j \in 1..Len(a)
      BY <1>3, <1>6
    <2>2. CASE j # n
      <3>1. j \in 1..Len(calls) /\ a[j] = calls[j] /\ c[j] = a[j]
        BY <1>3, <1>6, <2>1, <2>2
      <3> QED BY <1>8, <3>1
    <2> QED BY <1>9, <2>2
  <1>11. c = d
    BY <1>3, <1>6, <1>8, <1>10, SeqEqual
  <1> QED BY <1>1, <1>5, <1>7, <1>11

(* A call's fragments and the next.                                          *)
LEMMA FragmentsAre ==
    ASSUME NEW j \in Nat \ {0}, NEW n \in Nat
    PROVE  /\ TheAnswer!Fragments(j, n) \in Seq(Nat \X Nat) /\ Len(TheAnswer!Fragments(j, n)) = n
           /\ TheAnswer!Fragments(j, n + 1) = Append(TheAnswer!Fragments(j, n), <<j - 1, n + 1>>)
           /\ TheAnswer!Fragments(j, 0) = <<>> /\ TheAnswer!Fragments(j, 1) = << <<j - 1, 1>> >>
  <1>1. \A m \in Nat : /\ TheAnswer!Fragments(j, m) \in Seq(Nat \X Nat)
                       /\ Len(TheAnswer!Fragments(j, m)) = m
                       /\ \A k \in 1..m : TheAnswer!Fragments(j, m)[k] = <<j - 1, k>>
    BY DEF TheAnswer!Fragments
  <1>2. PICK a, b, f : /\ a = TheAnswer!Fragments(j, n) /\ b = TheAnswer!Fragments(j, n + 1)
                       /\ f = <<j - 1, n + 1>>
    OBVIOUS
  <1>3. /\ a \in Seq(Nat \X Nat) /\ Len(a) = n /\ \A k \in 1..n : a[k] = <<j - 1, k>>
        /\ b \in Seq(Nat \X Nat) /\ Len(b) = n + 1 /\ \A k \in 1..(n + 1) : b[k] = <<j - 1, k>>
        /\ f \in Nat \X Nat
    <2>1. n + 1 \in Nat
      OBVIOUS
    <2>2. a \in Seq(Nat \X Nat) /\ Len(a) = n /\ \A k \in 1..n : a[k] = <<j - 1, k>>
      BY <1>1, <1>2
    <2>3. b \in Seq(Nat \X Nat) /\ Len(b) = n + 1 /\ \A k \in 1..(n + 1) : b[k] = <<j - 1, k>>
      BY <1>1, <1>2, <2>1
    <2>4. f \in Nat \X Nat
      BY <1>2
    <2> QED BY <2>2, <2>3, <2>4
  <1>4. PICK c : c = Append(a, f)
    OBVIOUS
  <1>5. /\ c \in Seq(Nat \X Nat) /\ Len(c) = n + 1 /\ c[n + 1] = f
        /\ \A k \in 1..n : c[k] = a[k]
    BY <1>3, <1>4
  <1>6. \A k \in 1..(n + 1) : b[k] = c[k]
    <2> TAKE k \in 1..(n + 1)
    <2>1. CASE k \in 1..n
      BY <1>3, <1>5, <2>1
    <2>2. CASE k = n + 1
      BY <1>2, <1>3, <1>5, <2>2
    <2> QED BY <2>1, <2>2
  <1>7. b = c
    BY <1>3, <1>5, <1>6, SeqEqual
  <1>8. TheAnswer!Fragments(j, 0) = <<>>
    BY <1>1
  <1>9. TheAnswer!Fragments(j, 1) = << <<j - 1, 1>> >>
    BY DEF TheAnswer!Fragments
  <1> QED BY <1>1, <1>2, <1>4, <1>7, <1>8, <1>9

(* What is told, of a value the engine's state has.                          *)
LEMMA ToldOf ==
    ASSUME NEW p, p = TheAnswer!After(x7, x5)'
    PROVE  TheAnswer!Told(p)' => TheAnswer!Told(TheAnswer!After(x7, x5))'
  <1>1. TheAnswer!CallsTold(p)' => TheAnswer!CallsTold(TheAnswer!After(x7, x5))'
    BY DEF TheAnswer!CallsTold
  <1>2. TheAnswer!ThoughtsTold(p)' => TheAnswer!ThoughtsTold(TheAnswer!After(x7, x5))'
    BY DEF TheAnswer!ThoughtsTold
  <1> QED BY <1>1, <1>2 DEF TheAnswer!Told

(* And before the step.                                                      *)
LEMMA ToldBy ==
    ASSUME NEW o, o = TheAnswer!After(x7, x5), TheAnswer!Told(TheAnswer!After(x7, x5))
    PROVE  TheAnswer!Told(o)
  <1>1. TheAnswer!CallsTold(o)
    BY DEF TheAnswer!Told, TheAnswer!CallsTold
  <1>2. TheAnswer!ThoughtsTold(o)
    BY DEF TheAnswer!Told, TheAnswer!ThoughtsTold
  <1> QED BY <1>1, <1>2 DEF TheAnswer!Told

(* A sequence with one more element.                                         *)
LEMMA OneMore ==
    ASSUME NEW E, NEW s \in Seq(E), NEW e \in E, NEW c, c = Append(s, e)
    PROVE  /\ c \in Seq(E) /\ Len(c) = Len(s) + 1 /\ c[Len(s) + 1] = e
           /\ \A j \in 1..Len(s) : c[j] = s[j]
  OBVIOUS

(* The calls an engine has, c, and those a provider meant, a.                *)
CallsAgree(c, a, ids, w, server0) ==
    /\ Len(c) = Len(a)
    /\ \A j \in 1..Len(c) : c[j].args = TheAnswer!Fragments(j, a[j])
    /\ \A j, k \in 1..Len(c) : c[j].id = c[k].id => j = k
    /\ w = "openai" =>
        /\ DOMAIN ids = 0..(Len(c) - 1)
        /\ \A j \in 1..Len(c) : ids[j - 1] = c[j].id /\ c[j].id[2] = j - 1
    /\ w = "anthropic" =>
        /\ \A j \in 1..Len(c) : c[j].id[2] < server0.blocks
        /\ server0.kind = "tool_use" => c # <<>> /\ c[Len(c)].id = ids[server0.open]

(* Which is what is told of them.                                            *)
LEMMA CallsToldIs ==
    ASSUME NEW o
    PROVE  TheAnswer!CallsTold(o) <=> CallsAgree(o.calls, x3.calls, x4.ids, x1, x2)
  BY DEF TheAnswer!CallsTold, CallsAgree, TheAnswer!OpenAi, TheAnswer!Anthropic

(* After a step too.                                                         *)
LEMMA CallsToldNext ==
    ASSUME NEW o
    PROVE  TheAnswer!CallsTold(o)' <=> CallsAgree(o.calls, x3.calls', x4.ids', x1', x2')
  BY DEF TheAnswer!CallsTold, CallsAgree, TheAnswer!OpenAi, TheAnswer!Anthropic

(* A call's id.                                                              *)
LEMMA IdIs ==
    ASSUME NEW calls \in Seq(CallSet), NEW j \in 1..Len(calls)
    PROVE  calls[j] \in CallSet /\ calls[j].id \in TheAnswer!Ids /\ calls[j].id[2] \in Nat
  <1>1. calls[j] \in CallSet
    OBVIOUS
  <1>2. calls[j].id \in TheAnswer!Ids
    BY <1>1 DEF CallSet
  <1> QED BY <1>1, <1>2 DEF TheAnswer!Ids

(* No event of a call.                                                       *)
LEMMA CallsFrame ==
    ASSUME NEW c \in Seq(CallSet), NEW a, NEW ids, NEW w, NEW s, NEW t, CallsAgree(c, a, ids, w, s),
           s.blocks \in Nat, t.blocks \in Nat, s.blocks <= t.blocks,
           t.kind = "tool_use" => s.kind = "tool_use" /\ t.open = s.open
    PROVE  CallsAgree(c, a, ids, w, t)
  <1>1. ASSUME w = "anthropic", NEW j \in 1..Len(c) PROVE c[j].id[2] < t.blocks
    <2>1. c[j].id[2] < s.blocks
      BY <1>1 DEF CallsAgree
    <2>2. c[j].id[2] \in Nat
      BY IdIs
    <2> QED BY <2>1, <2>2
  <1> QED BY <1>1 DEF CallsAgree

(* c is b with a call more, of which f fragments came, and agrees with a.    *)
Grown(b, a, ids, s, id, f, n, c, ids1, w, t) == CallsAgree(c, Append(a, f), ids1, w, t)

(* A call that starts, with or without a fragment.                           *)
LEMMA CallsNew ==
    ASSUME NEW b \in Seq(CallSet), NEW a \in Seq(Nat), NEW ids, NEW w, NEW s, NEW ids1, NEW t,
           CallsAgree(b, a, ids, w, s), NEW id \in TheAnswer!Ids, NEW f \in {0, 1}, NEW n,
           n = Len(b),
           \A j \in 1..Len(b) : b[j].id # id,
           w = "openai" => /\ DOMAIN ids1 = 0..n /\ ids1[n] = id /\ id[2] = n
                           /\ \A j \in 0..(n - 1) : ids1[j] = ids[j],
           w = "anthropic" => /\ s.blocks \in Nat /\ id[2] = s.blocks /\ t.blocks = s.blocks + 1
                              /\ ids1[t.open] = id,
           w \in TheAnswer!Wires, NEW c,
           c = Append(b, [id |-> id, args |-> TheAnswer!Fragments(n + 1, f)])
    PROVE  Grown(b, a, ids, s, id, f, n, c, ids1, w, t)
  <1>1. n \in Nat /\ n = Len(a) /\ n + 1 \in Nat \ {0} /\ f \in Nat
    BY DEF CallsAgree
  <1>2. TheAnswer!Fragments(n + 1, f) \in Seq(Nat \X Nat)
    BY <1>1, FragmentsAre
  <1>3. PICK new : new = [id |-> id, args |-> TheAnswer!Fragments(n + 1, f)]
    OBVIOUS
  <1>4. new \in CallSet /\ new.id = id /\ new.args = TheAnswer!Fragments(n + 1, f)
    BY <1>2, <1>3 DEF CallSet
  <1>5. /\ c \in Seq(CallSet) /\ Len(c) = n + 1 /\ c[n + 1] = new
        /\ \A j \in 1..n : c[j] = b[j]
    BY <1>3, <1>4, OneMore
  <1>6. PICK d : d = Append(a, f)
    OBVIOUS
  <1>7. /\ d \in Seq(Nat) /\ Len(d) = n + 1 /\ d[n + 1] = f
        /\ \A j \in 1..n : d[j] = a[j]
    BY <1>1, <1>6, OneMore
  <1>8. \A j \in 1..(n + 1) : j \in 1..n \/ j = n + 1
    BY <1>1
  <1>9. \A j \in 1..n : b[j].args = TheAnswer!Fragments(j, a[j])
    BY DEF CallsAgree
  <1>10. \A j \in 1..(n + 1) : c[j].args = TheAnswer!Fragments(j, d[j])
    BY <1>4, <1>5, <1>7, <1>8, <1>9
  <1>11. \A j, k \in 1..n : b[j].id = b[k].id => j = k
    BY DEF CallsAgree
  <1>12. \A j, k \in 1..(n + 1) : c[j].id = c[k].id => j = k
    BY <1>4, <1>5, <1>8, <1>11
  <1>13. ASSUME w = "openai", NEW j \in 1..(n + 1) PROVE ids1[j - 1] = c[j].id /\ c[j].id[2] = j - 1
    <2>1. CASE j \in 1..n
      <3>1. j - 1 \in 0..(n - 1)
        BY <1>1, <2>1
      <3>2. ids[j - 1] = b[j].id /\ b[j].id[2] = j - 1
        BY <1>13, <2>1 DEF CallsAgree
      <3> QED BY <1>5, <1>13, <2>1, <3>1, <3>2
    <2>2. CASE j = n + 1
      <3>1. j - 1 = n
        BY <1>1, <2>2
      <3> QED BY <1>4, <1>5, <1>13, <2>2, <3>1
    <2> QED BY <1>8, <2>1, <2>2
  <1>14. ASSUME w = "anthropic", NEW j \in 1..(n + 1) PROVE c[j].id[2] < t.blocks
    <2>1. CASE j \in 1..n
      <3>1. b[j].id[2] \in Nat
        BY <2>1, IdIs
      <3>2. b[j].id[2] < s.blocks
        BY <1>14, <2>1 DEF CallsAgree
      <3> QED BY <1>5, <1>14, <2>1, <3>1, <3>2
    <2>2. CASE j = n + 1
      BY <1>4, <1>5, <1>14, <2>2
    <2> QED BY <1>8, <2>1, <2>2
  <1>15. c # <<>> /\ c[Len(c)].id = id /\ (w = "openai" => DOMAIN ids1 = 0..(Len(c) - 1))
    <2>1. Len(c) # 0 /\ Len(c) - 1 = n
      BY <1>1, <1>5
    <2>2. c # <<>>
      BY <2>1
    <2> QED BY <1>4, <1>5, <2>1, <2>2
  <1>16. Len(c) = Len(d)
    BY <1>5, <1>7
  <1>17. CallsAgree(c, d, ids1, w, t)
    BY <1>5, <1>10, <1>12, <1>13, <1>14, <1>15, <1>16, Zenon DEF CallsAgree
  <1> QED BY <1>6, <1>17 DEF Grown

(* A fragment of a call that is known.                                       *)
LEMMA CallsDelta ==
    ASSUME NEW b \in Seq(CallSet), NEW a \in Seq(Nat), NEW ids, NEW w, NEW s,
           CallsAgree(b, a, ids, w, s), NEW n \in 1..Len(b),
           NEW says, says = <<n - 1, a[n] + 1>>, NEW c, GoesTo(b, says, n, c)
    PROVE  CallsAgree(c, [a EXCEPT ![n] = @ + 1], ids, w, s)
  <1>1. /\ c \in Seq(CallSet) /\ Len(c) = Len(b)
        /\ c[n].id = b[n].id /\ c[n].args = Append(b[n].args, says)
        /\ \A j \in 1..Len(b) : j # n => c[j] = b[j]
    BY DEF GoesTo
  <1>2. PICK d : d = [a EXCEPT ![n] = @ + 1]
    OBVIOUS
  <1>3. Len(a) = Len(b) /\ n \in 1..Len(a) /\ a[n] \in Nat
    BY DEF CallsAgree
  <1>4. /\ d \in Seq(Nat) /\ Len(d) = Len(b) /\ d[n] = a[n] + 1
        /\ \A j \in 1..Len(b) : j # n => d[j] = a[j]
    BY <1>2, <1>3
  <1>5. \A j \in 1..Len(b) : b[j].args = TheAnswer!Fragments(j, a[j])
    BY DEF CallsAgree
  <1>6. TheAnswer!Fragments(n, a[n] + 1) = Append(b[n].args, says)
    <2>1. n \in Nat \ {0}
      BY <1>3
    <2> QED BY <1>3, <1>5, <2>1, FragmentsAre
  <1>7. \A j \in 1..Len(b) : c[j].args = TheAnswer!Fragments(j, d[j])
    BY <1>1, <1>4, <1>5, <1>6
  <1>8. \A j \in 1..Len(b) : c[j].id = b[j].id
    BY <1>1
  <1>9. b # <<>> /\ Len(b) \in 1..Len(b)
    BY <1>3
  <1>10. c # <<>> /\ c[Len(c)].id = b[Len(b)].id
    <2>1. Len(c) # 0
      BY <1>1, <1>3
    <2>2. c # <<>>
      BY <2>1
    <2> QED BY <1>1, <1>8, <1>9, <2>2
  <1> QED BY <1>1, <1>2, <1>4, <1>7, <1>8, <1>10, Zenon DEF CallsAgree

(* The thoughts an engine has and those a provider meant, ts.                *)
ThoughtsAgree(o, ts, sigs, s) ==
    /\ ts = <<>> => o.reasoning = <<>> /\ o.signature = TheAnswer!Nothing /\ ~o.redacted
    /\ Len(ts) = 1 =>
        /\ o.redacted = ts[1].redacted
        /\ ts[1].redacted =>
              o.signature = ts[1].signature /\ o.signature # TheAnswer!Nothing /\ s.kind # "thinking"
        /\ ~ts[1].redacted =>
              /\ o.reasoning = ts[1].text
              /\ IF s.kind = "thinking"
                 THEN o.signature = TheAnswer!Nothing /\ sigs[s.open] = ts[1].signature
                 ELSE o.signature = ts[1].signature /\ TheAnswer!HasReasoning(o)

(* Which is what is told of them.                                            *)
LEMMA ThoughtsToldIs ==
    ASSUME NEW o
    PROVE  TheAnswer!ThoughtsTold(o) <=> ThoughtsAgree(o, x3.thoughts, x4.sigs, x2)
  BY DEF TheAnswer!ThoughtsTold, ThoughtsAgree

(* After a step too.                                                         *)
LEMMA ThoughtsToldNext ==
    ASSUME NEW o
    PROVE  TheAnswer!ThoughtsTold(o)' <=> ThoughtsAgree(o, x3.thoughts', x4.sigs', x2')
  BY DEF TheAnswer!ThoughtsTold, ThoughtsAgree

(* No event of a thought.                                                    *)
LEMMA ThoughtsFrame ==
    ASSUME NEW o, NEW p, NEW ts, NEW sigs, NEW s, NEW sigs1, NEW t, ThoughtsAgree(o, ts, sigs, s),
           p.reasoning = o.reasoning, p.signature = o.signature, p.redacted = o.redacted,
           t.kind = "thinking" <=> s.kind = "thinking",
           s.kind = "thinking" => sigs1[t.open] = sigs[s.open]
    PROVE  ThoughtsAgree(p, ts, sigs1, t)
  BY DEF ThoughtsAgree, TheAnswer!HasReasoning

(* A thought.                                                                *)
Thought0 == [text : Seq(Nat), signature : Int, redacted : BOOLEAN]

(* What holds when all events were taken.                                    *)
Before ==
    /\ x7 \in OutSet /\ x7.text = x3.text /\ x7.done = x3.complete
    /\ CallsAgree(x7.calls, x3.calls, x4.ids, x1, x2)
    /\ ThoughtsAgree(x7, x3.thoughts, x4.sigs, x2)
    /\ x11.reported = x11.counted /\ x8 = "streaming"
    /\ TheAnswer!StreamsTypeOK /\ TheAnswer!BlocksInOrder
    /\ x7.calls \in Seq(CallSet) /\ x3.calls \in Seq(Nat) /\ x3.thoughts \in Seq(Thought0)
    /\ Len(x7.calls) = Len(x3.calls)

(* It does between events.                                                   *)
LEMMA BeforeHolds ==
    ASSUME TheAnswer!StreamsInv, x8 = "streaming", x5 = <<>>
    PROVE  Before
  <1>1. PICK o : o = TheAnswer!After(x7, x5)
    OBVIOUS
  <1>2. o = x7
    BY <1>1, AfterIs
  <1>3. TheAnswer!Told(o)
    BY <1>1, ToldBy DEF TheAnswer!StreamsInv
  <1>4. CallsAgree(o.calls, x3.calls, x4.ids, x1, x2)
    BY <1>3, CallsToldIs DEF TheAnswer!Told
  <1>5. ThoughtsAgree(o, x3.thoughts, x4.sigs, x2)
    BY <1>3, ThoughtsToldIs DEF TheAnswer!Told
  <1>6. o.text = x3.text /\ o.done = x3.complete
    BY <1>3 DEF TheAnswer!Told
  <1>7. x11.reported = x11.counted
    BY DEF TheAnswer!StreamsInv, TheAnswer!UsageFollows, TheAnswer!StreamsTypeOK
  <1>8. x7 \in OutSet /\ TheAnswer!StreamsTypeOK /\ TheAnswer!BlocksInOrder
    BY DEF TheAnswer!StreamsInv, TheAnswer!StreamsTypeOK, OutSet, CallSet
  <1>9. x7.calls \in Seq(CallSet)
    BY <1>8 DEF OutSet
  <1>10. x3.calls \in Seq(Nat) /\ x3.thoughts \in Seq(Thought0)
    BY <1>8 DEF TheAnswer!StreamsTypeOK, Thought0
  <1>11. Len(o.calls) = Len(x3.calls)
    BY <1>4 DEF CallsAgree
  <1> QED BY <1>2, <1>4, <1>5, <1>6, <1>7, <1>8, <1>9, <1>10, <1>11 DEF Before

(* Events that report no usage.                                              *)
Quiet(events) ==
    \/ events = <<>>
    \/ \E e : events = <<e>> /\ e.kind # "usage" /\ TheAnswer!EventOK(e)
    \/ \E e, f : /\ events = <<e, f>> /\ e.kind \in {"call_start", "reasoning"}
                 /\ f.kind \in {"call_delta", "redacted"} /\ TheAnswer!EventOK(e)
                 /\ TheAnswer!EventOK(f)

(* They leave the queue in order and the usage counted.                      *)
LEMMA QuietIs ==
    ASSUME Before, NEW events, x5' = events, Quiet(events), x11' = x11
    PROVE  TheAnswer!QueueInOrder' /\ TheAnswer!UsageFollows'
  <1>1. CASE events = <<>>
    BY <1>1 DEF TheAnswer!QueueInOrder, TheAnswer!UsageFollows, Before, TheAnswer!StreamsTypeOK
  <1>2. ASSUME NEW e, events = <<e>>, e.kind # "usage", TheAnswer!EventOK(e)
        PROVE  TheAnswer!QueueInOrder' /\ TheAnswer!UsageFollows'
    <2>1. Head(events) = e
      BY <1>2
    <2> QED BY <1>2, <2>1
               DEF TheAnswer!QueueInOrder, TheAnswer!UsageFollows, Before, TheAnswer!StreamsTypeOK
  <1>3. ASSUME NEW e, NEW f, events = <<e, f>>, e.kind \in {"call_start", "reasoning"},
               f.kind \in {"call_delta", "redacted"}, TheAnswer!EventOK(e), TheAnswer!EventOK(f)
        PROVE  TheAnswer!QueueInOrder' /\ TheAnswer!UsageFollows'
    <2>1. Head(events) = e
      BY <1>3
    <2> QED BY <1>3, <2>1
               DEF TheAnswer!QueueInOrder, TheAnswer!UsageFollows, Before, TheAnswer!StreamsTypeOK
  <1> QED BY <1>1, <1>2, <1>3 DEF Quiet

(* What a step must show in which a frame arrives, or the body ends.         *)
LEMMA ArrivalKeeps ==
    ASSUME Before, NEW events, NEW p, p = TheAnswer!After(x7, events), x7' = x7, x5' = events,
           x8' = x8, TheAnswer!StreamsTypeOK', TheAnswer!BlocksInOrder', TheAnswer!QueueInOrder',
           TheAnswer!UsageFollows',
           p.text = x3.text', p.done = x3.complete',
           CallsAgree(p.calls, x3.calls', x4.ids', x1', x2'),
           ThoughtsAgree(p, x3.thoughts', x4.sigs', x2')
    PROVE  TheAnswer!StreamsInv'
  <1>1. TheAnswer!CallsTold(p)'
    BY CallsToldNext
  <1>2. TheAnswer!ThoughtsTold(p)'
    BY ThoughtsToldNext
  <1>3. TheAnswer!Told(p)'
    BY <1>1, <1>2 DEF TheAnswer!Told
  <1>4. p = TheAnswer!After(x7, x5)'
    OBVIOUS
  <1>5. TheAnswer!Told(TheAnswer!After(x7, x5))'
    BY <1>3, <1>4, ToldOf
  <1> QED BY <1>5 DEF TheAnswer!StreamsInv, Before

(* Where nothing of a call or a thought moves but the stage.                 *)
LEMMA StageKeeps ==
    ASSUME Before, NEW stage, x2' = [x2 EXCEPT !.stage = stage] \/ x2' = x2,
           x1' = x1
    PROVE  /\ x2'.open = x2.open /\ x2'.kind = x2.kind
           /\ x2'.blocks = x2.blocks /\ x2'.over = x2.over
           /\ CallsAgree(x7.calls, x3.calls, x4.ids, x1', x2')
           /\ ThoughtsAgree(x7, x3.thoughts, x4.sigs, x2')
  <1>1. PICK s : s = x2'
    OBVIOUS
  <1>2. s.open = x2.open /\ s.kind = x2.kind /\ s.blocks = x2.blocks /\ s.over = x2.over
    BY <1>1 DEF Before, TheAnswer!StreamsTypeOK
  <1>3. x2.blocks \in Nat
    BY DEF Before, TheAnswer!StreamsTypeOK
  <1>4. CallsAgree(x7.calls, x3.calls, x4.ids, x1, s)
    BY <1>2 DEF Before, CallsAgree
  <1>5. ThoughtsAgree(x7, x3.thoughts, x4.sigs, s)
    BY <1>2 DEF Before, ThoughtsAgree
  <1> QED BY <1>1, <1>2, <1>4, <1>5

(* The types of the server, of its answer and of a mapper.                   *)
ServerSet == [stage : {"head", "deltas", "reason", "usage", "silent"}, open : Int,
              kind : {"none", "text", "tool_use", "thinking", "redacted"},
              blocks : Nat, over : BOOLEAN]
AnswerSet == [text : {0, 1}, calls : Seq(Nat), complete : BOOLEAN, thoughts : Seq(Thought0)]
MapperOK(m) ==
    /\ m = [ids |-> m.ids, sigs |-> m.sigs, finished |-> m.finished]
    /\ m.finished \in BOOLEAN /\ DOMAIN m.ids \subseteq Nat
    /\ \A i \in DOMAIN m.ids : m.ids[i] \in TheAnswer!Ids
    /\ \A i \in DOMAIN m.sigs : m.sigs[i] \in Int

(* The parts of the types a frame can change.                                *)
LEMMA TypesAre ==
    ASSUME TheAnswer!StreamsTypeOK
    PROVE  x2 \in ServerSet /\ x3 \in AnswerSet /\ MapperOK(x4)
  BY DEF TheAnswer!StreamsTypeOK, ServerSet, AnswerSet, MapperOK, Thought0

(* And the types after one.                                                  *)
LEMMA TypesNext ==
    ASSUME TheAnswer!StreamsTypeOK, x2' \in ServerSet, x3' \in AnswerSet, MapperOK(x4'),
           x11' \in [reported : Nat, counted : Nat], x1' = x1, x6' \in BOOLEAN,
           x9' \in Nat, x7' \in OutSet
    PROVE  TheAnswer!StreamsTypeOK'
  BY DEF TheAnswer!StreamsTypeOK, ServerSet, AnswerSet, MapperOK, Thought0, OutSet, CallSet

(* A frame that reports no usage.                                            *)
LEMMA FrameKeeps ==
    ASSUME TheAnswer!StreamsInv, NEW stage, NEW events, TheAnswer!Arrives(stage, events),
           Quiet(events),
           x11' = x11, NEW p, p = TheAnswer!After(x7, events), x2' \in ServerSet,
           x3' \in AnswerSet, MapperOK(x4'), TheAnswer!BlocksInOrder',
           p.text = x3.text', p.done = x3.complete',
           CallsAgree(p.calls, x3.calls', x4.ids', x1', x2'),
           ThoughtsAgree(p, x3.thoughts', x4.sigs', x2')
    PROVE  TheAnswer!StreamsInv'
  <1>1. /\ x8 = "streaming" /\ x5 = <<>> /\ x5' = events /\ x6' = TRUE
        /\ x1' = x1 /\ x7' = x7 /\ x8' = x8 /\ x9' = x9
    BY DEF TheAnswer!Arrives
  <1>2. Before
    BY <1>1, BeforeHolds
  <1>3. TheAnswer!QueueInOrder' /\ TheAnswer!UsageFollows'
    BY <1>1, <1>2, QuietIs
  <1>4. TheAnswer!StreamsTypeOK'
    <2>1. TheAnswer!StreamsTypeOK /\ x7 \in OutSet
      BY <1>2 DEF Before
    <2>2. x9 \in Nat /\ x11 \in [reported : Nat, counted : Nat]
      BY <2>1 DEF TheAnswer!StreamsTypeOK
    <2> QED BY <1>1, <2>1, <2>2, TypesNext
  <1> QED BY <1>1, <1>2, <1>3, <1>4, ArrivalKeeps

(* The engine's state and the frame's, before one arrives.                   *)
LEMMA FrameFinds ==
    ASSUME TheAnswer!StreamsInv, NEW stage, NEW events, TheAnswer!Arrives(stage, events)
    PROVE  /\ Before /\ x2 \in ServerSet /\ x3 \in AnswerSet /\ MapperOK(x4)
           /\ x2.stage \in stage /\ x1' = x1 /\ x1 \in TheAnswer!Wires
  <1>1. x8 = "streaming" /\ x5 = <<>> /\ x2.stage \in stage /\ x1' = x1
    BY DEF TheAnswer!Arrives
  <1>2. Before
    BY <1>1, BeforeHolds
  <1>3. TheAnswer!StreamsTypeOK
    BY <1>2 DEF Before
  <1>4. x1 \in TheAnswer!Wires
    BY <1>3 DEF TheAnswer!StreamsTypeOK
  <1> QED BY <1>1, <1>2, <1>3, <1>4, TypesAre

(* One event, or none, or two that go together.                              *)
LEMMA QuietOnes ==
    /\ Quiet(<<>>)
    /\ \A id, says : Quiet(<<TheAnswer!Ev("text", id, says)>>)
    /\ \A id, says : Quiet(<<TheAnswer!Ev("done", id, says)>>)
    /\ \A id, says : Quiet(<<TheAnswer!Ev("error", id, says)>>)
    /\ \A id, says : says \in Nat => Quiet(<<TheAnswer!Ev("reasoning", id, says)>>)
    /\ \A id, says : says \in Int => Quiet(<<TheAnswer!Ev("signature", id, says)>>)
    /\ \A id, says : id \in TheAnswer!Ids => Quiet(<<TheAnswer!Ev("call_start", id, says)>>)
    /\ \A id, says : says \in Nat \X Nat => Quiet(<<TheAnswer!Ev("call_delta", id, says)>>)
    /\ \A id, i, j : id \in TheAnswer!Ids /\ j \in Nat \X Nat
                       => Quiet(<<TheAnswer!Ev("call_start", id, i), TheAnswer!Ev("call_delta", id, j)>>)
    /\ \A id, i, j : i \in Nat /\ j \in Nat
                       => Quiet(<<TheAnswer!Ev("reasoning", id, i), TheAnswer!Ev("redacted", id, j)>>)
  <1>1. \A kind, id, says : LET e == TheAnswer!Ev(kind, id, says)
                            IN  e.kind = kind /\ e.id = id /\ e.says = says
    BY DEF TheAnswer!Ev
  <1>2. \A e : e.kind # "usage" /\ TheAnswer!EventOK(e) => Quiet(<<e>>)
    BY DEF Quiet
  <1>3. ASSUME NEW e, NEW f, e.kind \in {"call_start", "reasoning"}, TheAnswer!EventOK(e),
               f.kind \in {"call_delta", "redacted"}, TheAnswer!EventOK(f)
        PROVE  Quiet(<<e, f>>)
    BY <1>3, Zenon DEF Quiet
  <1>4. \A id, says, kind : kind \in {"text", "done", "error"}
                            => Quiet(<<TheAnswer!Ev(kind, id, says)>>)
    BY <1>1, <1>2 DEF TheAnswer!EventOK
  <1>5. \A id, says : says \in Nat => TheAnswer!EventOK(TheAnswer!Ev("reasoning", id, says))
    BY <1>1 DEF TheAnswer!EventOK
  <1>6. \A id, says : says \in Int => /\ TheAnswer!EventOK(TheAnswer!Ev("signature", id, says))
                                      /\ TheAnswer!EventOK(TheAnswer!Ev("redacted", id, says))
    BY <1>1 DEF TheAnswer!EventOK
  <1>7. \A id, says : id \in TheAnswer!Ids => TheAnswer!EventOK(TheAnswer!Ev("call_start", id, says))
    BY <1>1 DEF TheAnswer!EventOK
  <1>8. \A id, says : says \in Nat \X Nat => TheAnswer!EventOK(TheAnswer!Ev("call_delta", id, says))
    BY <1>1 DEF TheAnswer!EventOK
  <1>9. \A id, says : says \in Nat => Quiet(<<TheAnswer!Ev("reasoning", id, says)>>)
    BY <1>1, <1>2, <1>5
  <1>10. \A id, says : says \in Int => Quiet(<<TheAnswer!Ev("signature", id, says)>>)
    BY <1>1, <1>2, <1>6
  <1>11. \A id, says : id \in TheAnswer!Ids => Quiet(<<TheAnswer!Ev("call_start", id, says)>>)
    BY <1>1, <1>2, <1>7
  <1>12. \A id, says : says \in Nat \X Nat => Quiet(<<TheAnswer!Ev("call_delta", id, says)>>)
    BY <1>1, <1>2, <1>8
  <1>13. ASSUME NEW id \in TheAnswer!Ids, NEW i, NEW j \in Nat \X Nat
         PROVE  Quiet(<<TheAnswer!Ev("call_start", id, i), TheAnswer!Ev("call_delta", id, j)>>)
    BY <1>1, <1>3, <1>7, <1>8
  <1>14. ASSUME NEW id, NEW i \in Nat, NEW j \in Nat
         PROVE  Quiet(<<TheAnswer!Ev("reasoning", id, i), TheAnswer!Ev("redacted", id, j)>>)
    BY <1>1, <1>3, <1>5, <1>6
  <1>15. Quiet(<<>>)
    BY DEF Quiet
  <1> QED BY <1>4, <1>9, <1>10, <1>11, <1>12, <1>13, <1>14, <1>15

(* Text of a chat-completions stream.                                        *)
LEMMA OpenAiTextKeeps ==
    ASSUME TheAnswer!StreamsInv, TheAnswer!OpenAiText
    PROVE  TheAnswer!StreamsInv'
  <1> DEFINE events == <<TheAnswer!Ev("text", <<>>, 0)>>
  <1>1. /\ TheAnswer!OpenAi /\ x3.text = 0 /\ TheAnswer!Arrives(TheAnswer!Deltas, events)
        /\ x2' = [x2 EXCEPT !.stage = "deltas"] /\ x3' = [x3 EXCEPT !.text = 1]
        /\ x4' = x4 /\ x11' = x11
    BY DEF TheAnswer!OpenAiText, TheAnswer!Says
  <1>2. Quiet(events)
    BY QuietOnes
  <1>3. PICK p : p = TheAnswer!After(x7, events)
    OBVIOUS
  <1>4. p = [x7 EXCEPT !.text = @ + 1]
    <2>1. PICK e : e = TheAnswer!Ev("text", <<>>, 0)
      OBVIOUS
    <2>2. p = TheAnswer!Assembled(x7, e)
      BY <1>3, <2>1, AfterIs
    <2>3. e.kind = "text"
      BY <2>1 DEF TheAnswer!Ev
    <2> QED BY <2>2, <2>3 DEF TheAnswer!Assembled
  <1> HIDE DEF events
  <1>5. /\ Before /\ x2 \in ServerSet /\ x3 \in AnswerSet /\ MapperOK(x4)
        /\ x2.stage \in TheAnswer!Deltas /\ x1' = x1
    BY <1>1, FrameFinds
  <1>6. /\ p.text = x7.text + 1 /\ p.reasoning = x7.reasoning /\ p.signature = x7.signature
        /\ p.redacted = x7.redacted /\ p.calls = x7.calls /\ p.done = x7.done
    BY <1>4, <1>5 DEF Before, OutSet
  <1>7. x2' \in ServerSet /\ x3' \in AnswerSet
    BY <1>1, <1>5 DEF ServerSet, AnswerSet
  <1>8. /\ x3'.text = 1 /\ x3'.calls = x3.calls /\ x3'.thoughts = x3.thoughts
        /\ x3'.complete = x3.complete /\ x2'.stage = "deltas"
    BY <1>1, <1>5 DEF ServerSet, AnswerSet
  <1>9. /\ x2'.open = x2.open /\ x2'.kind = x2.kind
        /\ x2'.blocks = x2.blocks
        /\ CallsAgree(x7.calls, x3.calls, x4.ids, x1', x2')
        /\ ThoughtsAgree(x7, x3.thoughts, x4.sigs, x2')
    BY <1>1, <1>5, StageKeeps
  <1>10. TheAnswer!BlocksInOrder'
    BY <1>1, <1>5, <1>8, <1>9
       DEF TheAnswer!BlocksInOrder, Before, TheAnswer!Deltas, TheAnswer!OpenAi, TheAnswer!Anthropic
  <1>11. ThoughtsAgree(p, x3.thoughts, x4.sigs, x2')
    BY <1>6, <1>9, ThoughtsFrame
  <1>12. p.text = x3'.text /\ p.done = x3'.complete
    BY <1>1, <1>5, <1>6, <1>8 DEF Before
  <1> QED BY <1>1, <1>2, <1>3, <1>5, <1>6, <1>7, <1>8, <1>9, <1>10, <1>11, <1>12, FrameKeeps

(* The engine took a piece of reasoning.                                    *)
LEMMA ReasoningTold ==
    ASSUME NEW o \in OutSet, NEW e, e.kind = "reasoning", NEW p, p = TheAnswer!After(o, <<e>>)
    PROVE  /\ p.text = o.text /\ p.reasoning = Append(o.reasoning, e.says)
           /\ p.signature = o.signature
           /\ p.redacted = o.redacted /\ p.calls = o.calls /\ p.done = o.done
  <1>1. p = TheAnswer!Assembled(o, e)
    BY AfterIs
  <1> QED BY <1>1 DEF TheAnswer!Assembled, OutSet

(* The start of a call.                                                     *)
LEMMA CallTold ==
    ASSUME NEW o \in OutSet, NEW e, e.kind = "call_start", NEW p, p = TheAnswer!After(o, <<e>>)
    PROVE  /\ p.text = o.text /\ p.reasoning = o.reasoning /\ p.signature = o.signature
           /\ p.redacted = o.redacted /\ p.calls = Append(o.calls, [id |-> e.id, args |-> <<>>])
           /\ p.done = o.done
  <1>1. p = TheAnswer!Assembled(o, e)
    BY AfterIs
  <1> QED BY <1>1 DEF TheAnswer!Assembled, OutSet

(* A fragment.                                                              *)
LEMMA FragmentTold ==
    ASSUME NEW o \in OutSet, NEW e, e.kind = "call_delta", NEW p, p = TheAnswer!After(o, <<e>>)
    PROVE  /\ p.text = o.text /\ p.reasoning = o.reasoning /\ p.signature = o.signature
           /\ p.redacted = o.redacted /\ p.calls = TheAnswer!WithFragment(o.calls, e)
           /\ p.done = o.done
  <1>1. p = TheAnswer!Assembled(o, e)
    BY AfterIs
  <1> QED BY <1>1 DEF TheAnswer!Assembled, OutSet

(* The one trail of reasoning of a chat-completions stream.                  *)
LEMMA OpenAiReasoningKeeps ==
    ASSUME TheAnswer!StreamsInv, TheAnswer!OpenAiReasoning
    PROVE  TheAnswer!StreamsInv'
  <1>1. PICK e, events, new : /\ e = TheAnswer!Ev("reasoning", <<>>, 0) /\ events = <<e>>
                              /\ new = [text |-> <<0>>, signature |-> TheAnswer!Nothing,
                                        redacted |-> FALSE]
    OBVIOUS
  <1>2. /\ TheAnswer!OpenAi /\ x3.thoughts = <<>> /\ TheAnswer!Arrives(TheAnswer!Deltas, events)
        /\ x2' = [x2 EXCEPT !.stage = "deltas"]
        /\ x3' = [x3 EXCEPT !.thoughts = <<new>>]
        /\ x4' = x4 /\ x11' = x11
    BY <1>1 DEF TheAnswer!OpenAiReasoning, TheAnswer!Says
  <1>3. Quiet(events) /\ e.kind = "reasoning" /\ e.says = 0
    <2>1. e.kind = "reasoning" /\ e.says = 0
      BY <1>1 DEF TheAnswer!Ev
    <2>2. 0 \in Nat
      OBVIOUS
    <2> QED BY <1>1, <2>1, <2>2, QuietOnes
  <1>4. PICK p : p = TheAnswer!After(x7, events)
    OBVIOUS
  <1>5. /\ Before /\ x2 \in ServerSet /\ x3 \in AnswerSet /\ MapperOK(x4)
        /\ x2.stage \in TheAnswer!Deltas /\ x1' = x1
    BY <1>2, FrameFinds
  <1>6. /\ p.text = x7.text /\ p.reasoning = Append(x7.reasoning, e.says)
        /\ p.signature = x7.signature /\ p.redacted = x7.redacted /\ p.calls = x7.calls
        /\ p.done = x7.done
    <2>1. x7 \in OutSet
      BY <1>5 DEF Before
    <2> QED BY <1>1, <1>3, <1>4, <2>1, ReasoningTold
  <1>7. new \in Thought0 /\ new.text = <<0>> /\ new.signature = TheAnswer!Nothing /\ ~new.redacted
    BY <1>1 DEF Thought0, TheAnswer!Nothing
  <1>8. <<new>> \in Seq(Thought0)
    BY <1>7
  <1>9. x2' \in ServerSet /\ x3' \in AnswerSet
    BY <1>2, <1>5, <1>8 DEF ServerSet, AnswerSet
  <1>10. /\ x3'.text = x3.text /\ x3'.calls = x3.calls
         /\ x3'.thoughts = <<new>> /\ x3'.complete = x3.complete
         /\ x2'.stage = "deltas"
    BY <1>2, <1>5 DEF ServerSet, AnswerSet
  <1>11. /\ x2'.open = x2.open /\ x2'.kind = x2.kind
         /\ x2'.blocks = x2.blocks
         /\ CallsAgree(x7.calls, x3.calls, x4.ids, x1', x2')
    BY <1>2, <1>5, StageKeeps
  <1>12. x2.kind = "none"
    BY <1>2, <1>5 DEF Before, TheAnswer!BlocksInOrder, TheAnswer!OpenAi, TheAnswer!Anthropic
  <1>13. TheAnswer!BlocksInOrder'
    BY <1>2, <1>5, <1>10, <1>11, <1>12
       DEF TheAnswer!BlocksInOrder, Before, TheAnswer!Deltas, TheAnswer!OpenAi, TheAnswer!Anthropic
  <1>14. x7.reasoning = <<>> /\ x7.signature = TheAnswer!Nothing /\ ~x7.redacted
    BY <1>2, <1>5 DEF Before, ThoughtsAgree
  <1>19. x7.redacted = FALSE /\ new.redacted = FALSE
    BY <1>1, <1>5, <1>14 DEF Before, OutSet
  <1>15. p.reasoning = <<0>>
    BY <1>3, <1>6, <1>14
  <1>16. ThoughtsAgree(p, x3'.thoughts, x4'.sigs, x2')
    <2>1. TheAnswer!HasReasoning(p)
      BY <1>15 DEF TheAnswer!HasReasoning
    <2>2. PICK ts : ts = x3'.thoughts
      OBVIOUS
    <2>3. ts # <<>> /\ ts[1] = new
      BY <1>10, <2>2
    <2>4. x2'.kind # "thinking"
      BY <1>11, <1>12
    <2>5. ThoughtsAgree(p, ts, x4'.sigs, x2')
      BY <1>6, <1>7, <1>14, <1>15, <1>19, <2>1, <2>3, <2>4 DEF ThoughtsAgree
    <2> QED BY <2>2, <2>5
  <1>17. p.text = x3'.text /\ p.done = x3'.complete
    BY <1>5, <1>6, <1>10 DEF Before
  <1> QED BY <1>2, <1>3, <1>4, <1>5, <1>6, <1>9, <1>10, <1>11, <1>13, <1>16, <1>17, FrameKeeps

(* Short sequences, joined.                                                  *)
LEMMA Joined ==
    ASSUME NEW e, NEW f
    PROVE  /\ <<e>> \o <<>> = <<e>> /\ <<>> \o <<e>> = <<e>>
           /\ <<e>> \o <<f>> = <<e, f>>
  <1>1. <<e>> \o <<>> = <<e>>
    OBVIOUS
  <1>2. <<>> \o <<e>> = <<e>>
    OBVIOUS
  <1>3. <<e>> \o <<f>> = <<e, f>>
    <2>1. PICK a, b, c, d : a = <<e>> /\ b = <<f>> /\ c = a \o b /\ d = <<e, f>>
      OBVIOUS
    <2>2. a \in Seq({e, f}) /\ b \in Seq({e, f}) /\ Len(a) = 1 /\ Len(b) = 1 /\ a[1] = e /\ b[1] = f
      BY <2>1
    <2>3. c \in Seq({e, f}) /\ Len(c) = 2 /\ c[1] = e /\ c[2] = f
      BY <2>1, <2>2
    <2>4. d \in Seq({e, f}) /\ Len(d) = 2 /\ d[1] = e /\ d[2] = f
      BY <2>1
    <2>5. \A k \in 1..2 : c[k] = d[k]
      BY <2>3, <2>4
    <2> QED BY <2>1, <2>3, <2>4, <2>5, SeqEqual
  <1> QED BY <1>1, <1>2, <1>3

(* A mapper's table with one entry more, or another.                         *)
Entered(f, index, value, g) ==
    /\ DOMAIN g = DOMAIN f \union {index} /\ g[index] = value
    /\ \A i \in DOMAIN f : i # index => g[i] = f[i]

(* Which is what With makes.                                                 *)
LEMMA WithIs ==
    ASSUME NEW f, NEW index, NEW value
    PROVE  Entered(f, index, value, TheAnswer!With(f, index, value))
  BY DEF TheAnswer!With, Entered

(* A call new on the wire.                                                   *)
NewCall(index, given, fragment, id, start, delta, events) ==
    /\ TheAnswer!OpenAi /\ ~TheAnswer!Knows(x4.ids, index) /\ id = TheAnswer!CallId(index, given)
    /\ start = TheAnswer!Ev("call_start", id, 0)
    /\ delta = TheAnswer!Ev("call_delta", id, <<index, 1>>)
    /\ events = IF fragment = 1 THEN <<start, delta>> ELSE <<start>>
    /\ TheAnswer!Arrives(TheAnswer!Deltas, events)
    /\ x4' = [x4 EXCEPT !.ids = TheAnswer!With(@, index, id)]
    /\ x2' = [x2 EXCEPT !.stage = "deltas"]
    /\ x3' = [x3 EXCEPT !.calls = Append(@, fragment)]
    /\ x11' = x11

(* And one that is known.                                                    *)
KnownCall(index, id, delta) ==
    /\ TheAnswer!OpenAi /\ TheAnswer!Knows(x4.ids, index) /\ id = x4.ids[index]
    /\ delta = TheAnswer!Ev("call_delta", id, <<index, x3.calls[index + 1] + 1>>)
    /\ TheAnswer!Arrives(TheAnswer!Deltas, <<delta>>)
    /\ x4' = [x4 EXCEPT !.ids = TheAnswer!With(@, index, id)]
    /\ x2' = [x2 EXCEPT !.stage = "deltas"]
    /\ x3' = [x3 EXCEPT !.calls = [@ EXCEPT ![index + 1] = x3.calls[index + 1] + 1]]
    /\ x11' = x11

(* There are no others (openai.rs map).                                      *)
LEMMA OpenAiCallIs ==
    ASSUME NEW index \in Nat, NEW given \in BOOLEAN, NEW fragment \in 0..1,
           TheAnswer!OpenAiCall(index, given, fragment)
    PROVE  \/ \E id, start, delta, events :
                 NewCall(index, given, fragment, id, start, delta, events)
           \/ \E id, delta : KnownCall(index, id, delta)
  <1>1. CASE ~TheAnswer!Knows(x4.ids, index)
    <2>1. PICK id, start, delta, events :
            /\ id = TheAnswer!CallId(index, given)
            /\ start = TheAnswer!Ev("call_start", id, 0)
            /\ delta = TheAnswer!Ev("call_delta", id, <<index, 0 + 1>>)
            /\ events = <<start>> \o (IF fragment = 1 THEN <<delta>> ELSE <<>>)
      OBVIOUS
    <2>2. /\ TheAnswer!OpenAi /\ TheAnswer!Arrives(TheAnswer!Deltas, events)
          /\ x4' = [x4 EXCEPT !.ids = TheAnswer!With(@, index, id)]
          /\ x2' = [x2 EXCEPT !.stage = "deltas"]
          /\ x3' = [x3 EXCEPT !.calls = Append(@, fragment)]
          /\ x11' = x11
      BY <1>1, <2>1, Zenon DEF TheAnswer!OpenAiCall, TheAnswer!Says
    <2>3. events = IF fragment = 1 THEN <<start, delta>> ELSE <<start>>
      BY <2>1, Joined
    <2>4. delta = TheAnswer!Ev("call_delta", id, <<index, 1>>)
      BY <2>1
    <2> QED BY <1>1, <2>1, <2>2, <2>3, <2>4, Zenon DEF NewCall
  <1>2. CASE TheAnswer!Knows(x4.ids, index)
    <2>1. fragment = 1
      BY <1>2 DEF TheAnswer!OpenAiCall
    <2>2. PICK id, delta, events :
            /\ id = x4.ids[index]
            /\ delta = TheAnswer!Ev("call_delta", id, <<index, x3.calls[index + 1] + 1>>)
            /\ events = <<>> \o (IF fragment = 1 THEN <<delta>> ELSE <<>>)
      OBVIOUS
    <2>3. /\ TheAnswer!OpenAi /\ TheAnswer!Arrives(TheAnswer!Deltas, events)
          /\ x4' = [x4 EXCEPT !.ids = TheAnswer!With(@, index, id)]
          /\ x2' = [x2 EXCEPT !.stage = "deltas"]
          /\ x3' = [x3 EXCEPT !.calls = [@ EXCEPT ![index + 1] = x3.calls[index + 1] + fragment]]
          /\ x11' = x11
      <3>1. /\ TheAnswer!OpenAi /\ x4' = [x4 EXCEPT !.ids = TheAnswer!With(@, index, id)]
            /\ x2' = [x2 EXCEPT !.stage = "deltas"] /\ x11' = x11
        BY <1>2, <2>2, Zenon DEF TheAnswer!OpenAiCall, TheAnswer!Says
      <3>2. TheAnswer!Arrives(TheAnswer!Deltas, events)
        BY <1>2, <2>2, Zenon DEF TheAnswer!OpenAiCall
      <3>3. x3' = [x3 EXCEPT !.calls = [@ EXCEPT ![index + 1] = x3.calls[index + 1] + fragment]]
        BY <1>2, Zenon DEF TheAnswer!OpenAiCall
      <3> QED BY <3>1, <3>2, <3>3
    <2>4. events = <<delta>>
      BY <2>1, <2>2, Joined
    <2> QED BY <1>2, <2>1, <2>2, <2>3, <2>4, Zenon DEF KnownCall
  <1> QED BY <1>1, <1>2

(* What a chunk of a call does to mapper, server and answer.                 *)
LEMMA CallFields ==
    ASSUME Before, x2 \in ServerSet, x3 \in AnswerSet, MapperOK(x4),
           NEW index \in Nat, NEW id \in TheAnswer!Ids, NEW calls \in Seq(Nat),
           x4' = [x4 EXCEPT !.ids = TheAnswer!With(@, index, id)],
           x2' = [x2 EXCEPT !.stage = "deltas"],
           x3' = [x3 EXCEPT !.calls = calls], TheAnswer!OpenAi, x2.stage \in TheAnswer!Deltas,
           x1' = x1
    PROVE  /\ x2' \in ServerSet /\ x3' \in AnswerSet /\ MapperOK(x4') /\ TheAnswer!BlocksInOrder'
           /\ x3'.text = x3.text /\ x3'.complete = x3.complete
           /\ x3'.calls = calls /\ x3'.thoughts = x3.thoughts
           /\ x4'.ids = TheAnswer!With(x4.ids, index, id) /\ x4'.sigs = x4.sigs
           /\ ThoughtsAgree(x7, x3'.thoughts, x4'.sigs, x2')
  <1>1. x2' \in ServerSet /\ x3' \in AnswerSet
    BY DEF ServerSet, AnswerSet
  <1>2. /\ x3'.text = x3.text /\ x3'.complete = x3.complete
        /\ x3'.calls = calls /\ x3'.thoughts = x3.thoughts
        /\ x2'.stage = "deltas"
    BY DEF ServerSet, AnswerSet
  <1>3. /\ x2'.open = x2.open /\ x2'.kind = x2.kind
        /\ x2'.blocks = x2.blocks
        /\ ThoughtsAgree(x7, x3.thoughts, x4.sigs, x2')
    BY StageKeeps
  <1>4. /\ x4'.ids = TheAnswer!With(x4.ids, index, id) /\ x4'.sigs = x4.sigs
        /\ x4'.finished = x4.finished
        /\ x4' = [ids |-> x4'.ids, sigs |-> x4'.sigs, finished |-> x4'.finished]
    BY DEF MapperOK
  <1>5. MapperOK(x4')
    <2>1. PICK ids : ids = TheAnswer!With(x4.ids, index, id)
      OBVIOUS
    <2>2. DOMAIN ids \subseteq Nat /\ \A i \in DOMAIN ids : ids[i] \in TheAnswer!Ids
      <3>1. Entered(x4.ids, index, id, ids)
        BY <2>1, WithIs
      <3> QED BY <3>1 DEF Entered, MapperOK
    <2> QED BY <1>4, <2>1, <2>2 DEF MapperOK
  <1>6. TheAnswer!BlocksInOrder'
    BY <1>2, <1>3, <1>4
       DEF TheAnswer!BlocksInOrder, Before, TheAnswer!Deltas, TheAnswer!OpenAi, TheAnswer!Anthropic
  <1> QED BY <1>1, <1>2, <1>3, <1>4, <1>5, <1>6

(* The ids of a chat-completions stream's calls.                             *)
LEMMA CallsIds ==
    ASSUME NEW c \in Seq(CallSet), NEW a, NEW ids, NEW s, CallsAgree(c, a, ids, "openai", s),
           NEW ids1, DOMAIN ids1 = DOMAIN ids, \A i \in DOMAIN ids : ids1[i] = ids[i], NEW t
    PROVE  CallsAgree(c, a, ids1, "openai", t)
  <1>1. DOMAIN ids = 0..(Len(c) - 1) /\ \A j \in 1..Len(c) : ids[j - 1] = c[j].id /\ c[j].id[2] = j - 1
    BY DEF CallsAgree
  <1>2. \A j \in 1..Len(c) : j - 1 \in 0..(Len(c) - 1)
    OBVIOUS
  <1> QED BY <1>1, <1>2 DEF CallsAgree

(* A call's first chunk.                                                     *)
LEMMA NewCallKeeps ==
    ASSUME TheAnswer!StreamsInv, NEW index \in 0..Len(x3.calls), NEW given \in BOOLEAN,
           NEW fragment \in 0..1, NEW id, NEW start, NEW delta, NEW events,
           NewCall(index, given, fragment, id, start, delta, events)
    PROVE  TheAnswer!StreamsInv'
  <1>1. /\ TheAnswer!OpenAi /\ ~TheAnswer!Knows(x4.ids, index)
        /\ id = TheAnswer!CallId(index, given)
        /\ start = TheAnswer!Ev("call_start", id, 0)
        /\ delta = TheAnswer!Ev("call_delta", id, <<index, 1>>)
        /\ events = IF fragment = 1 THEN <<start, delta>> ELSE <<start>>
        /\ TheAnswer!Arrives(TheAnswer!Deltas, events)
        /\ x4' = [x4 EXCEPT !.ids = TheAnswer!With(@, index, id)]
        /\ x2' = [x2 EXCEPT !.stage = "deltas"]
        /\ x3' = [x3 EXCEPT !.calls = Append(@, fragment)]
        /\ x11' = x11
    BY DEF NewCall
  <1>2. /\ Before /\ x2 \in ServerSet /\ x3 \in AnswerSet /\ MapperOK(x4)
        /\ x2.stage \in TheAnswer!Deltas /\ x1' = x1
    BY <1>1, FrameFinds
  <1>3. /\ x7 \in OutSet /\ x7.calls \in Seq(CallSet) /\ x3.calls \in Seq(Nat)
        /\ Len(x7.calls) = Len(x3.calls) /\ Len(x7.calls) \in Nat
        /\ x7.text = x3.text /\ x7.done = x3.complete
        /\ CallsAgree(x7.calls, x3.calls, x4.ids, "openai", x2) /\ x1 = "openai"
    BY <1>1, <1>2 DEF Before, TheAnswer!OpenAi
  <1>4. PICK n : n = Len(x7.calls)
    OBVIOUS
  <1>5. index \in Nat /\ id \in TheAnswer!Ids /\ id[2] = index
    BY <1>1, <1>3 DEF TheAnswer!CallId, TheAnswer!Ids
  <1>6. DOMAIN x4.ids = 0..(n - 1) /\ \A j \in 1..n : x7.calls[j].id[2] = j - 1
    BY <1>3, <1>4 DEF CallsAgree
  <1>7. index = n /\ n \in Nat
    BY <1>1, <1>3, <1>4, <1>6 DEF TheAnswer!Knows
  <1>8. \A j \in 1..Len(x7.calls) : x7.calls[j].id # id
    BY <1>4, <1>5, <1>6, <1>7
  <1>9. PICK calls : calls = Append(x3.calls, fragment)
    OBVIOUS
  <1>10. calls \in Seq(Nat) /\ x3' = [x3 EXCEPT !.calls = calls]
    BY <1>1, <1>3, <1>9
  <1>11. /\ x2' \in ServerSet /\ x3' \in AnswerSet /\ MapperOK(x4') /\ TheAnswer!BlocksInOrder'
         /\ x3'.text = x3.text /\ x3'.complete = x3.complete
         /\ x3'.calls = calls /\ x3'.thoughts = x3.thoughts
         /\ x4'.ids = TheAnswer!With(x4.ids, index, id) /\ x4'.sigs = x4.sigs
         /\ ThoughtsAgree(x7, x3'.thoughts, x4'.sigs, x2')
    BY <1>1, <1>2, <1>5, <1>10, CallFields
  <1>12. PICK c : c = Append(x7.calls, [id |-> id, args |-> TheAnswer!Fragments(n + 1, fragment)])
    OBVIOUS
  <1>13. CallsAgree(c, calls, x4'.ids, x1', x2')
    <2>1. PICK ids1 : ids1 = TheAnswer!With(x4.ids, index, id)
      OBVIOUS
    <2>2. /\ DOMAIN ids1 = DOMAIN x4.ids \union {index} /\ ids1[index] = id
          /\ \A i \in DOMAIN x4.ids : i # index => ids1[i] = x4.ids[i]
      <3>1. Entered(x4.ids, index, id, ids1)
        BY <2>1, WithIs
      <3> QED BY <3>1 DEF Entered
    <2>3. /\ DOMAIN ids1 = 0..n /\ ids1[n] = id /\ id[2] = n
          /\ \A j \in 0..(n - 1) : ids1[j] = x4.ids[j]
      BY <1>5, <1>6, <1>7, <2>2
    <2>4. PICK w : w = x1'
      OBVIOUS
    <2>5. w = "openai" /\ w \in TheAnswer!Wires
      BY <1>2, <1>3, <2>4 DEF TheAnswer!Wires
    <2>6. CallsAgree(x7.calls, x3.calls, x4.ids, w, x2)
      BY <1>3, <2>5
    <2>7. fragment \in {0, 1}
      OBVIOUS
    <2>8. CallsAgree(c, Append(x3.calls, fragment), ids1, w, x2')
      <3>1. PICK b, a, ids, s, t : /\ b = x7.calls /\ a = x3.calls /\ ids = x4.ids
                                   /\ s = x2 /\ t = x2'
        OBVIOUS
      <3>2. b \in Seq(CallSet) /\ a \in Seq(Nat) /\ CallsAgree(b, a, ids, w, s) /\ n = Len(b)
        BY <1>3, <1>4, <2>6, <3>1
      <3>3. (\A j \in 1..Len(b) : b[j].id # id) /\ id \in TheAnswer!Ids
        BY <1>5, <1>8, <3>1
      <3>4. w = "openai" => /\ DOMAIN ids1 = 0..n /\ ids1[n] = id /\ id[2] = n
                            /\ \A j \in 0..(n - 1) : ids1[j] = ids[j]
        BY <2>3, <3>1
      <3>5. w = "anthropic" => /\ s.blocks \in Nat /\ id[2] = s.blocks /\ t.blocks = s.blocks + 1
                               /\ ids1[t.open] = id
        BY <2>5
      <3>6. Grown(b, a, ids, s, id, fragment, n, c, ids1, w, t)
        <4>1. c = Append(b, [id |-> id, args |-> TheAnswer!Fragments(n + 1, fragment)])
          BY <1>12, <3>1
        <4>2. w \in TheAnswer!Wires
          BY <2>5
        <4> QED BY <2>7, <3>2, <3>3, <3>4, <3>5, <4>1, <4>2, CallsNew, ZenonT(60)
      <3> QED BY <3>1, <3>6 DEF Grown
    <2> QED BY <1>9, <1>11, <2>1, <2>4, <2>8
  <1>14. PICK p : p = TheAnswer!After(x7, events)
    OBVIOUS
  <1>15. /\ p.text = x7.text /\ p.reasoning = x7.reasoning /\ p.signature = x7.signature
         /\ p.redacted = x7.redacted /\ p.calls = c /\ p.done = x7.done
    <2>1. n + 1 \in Nat \ {0}
      BY <1>7
    <2>2. PICK o : o = TheAnswer!After(x7, <<start>>)
      OBVIOUS
    <2>3. start.kind = "call_start" /\ start.id = id /\ delta.kind = "call_delta"
      BY <1>1 DEF TheAnswer!Ev
    <2>4. /\ o.text = x7.text /\ o.reasoning = x7.reasoning /\ o.signature = x7.signature
          /\ o.redacted = x7.redacted /\ o.done = x7.done
          /\ o.calls = Append(x7.calls, [id |-> start.id, args |-> <<>>])
      BY <1>3, <2>2, <2>3, CallTold
    <2>5. CASE fragment = 1
      <3>1. p = TheAnswer!Assembled(o, delta)
        BY <1>1, <1>14, <2>2, <2>5, AfterIs
      <3>2. o = TheAnswer!Assembled(x7, start)
        BY <2>2, AfterIs
      <3>3. p = [o EXCEPT !.calls = TheAnswer!WithFragment(o.calls, delta)]
        BY <2>3, <3>1 DEF TheAnswer!Assembled
      <3>4. o = [x7 EXCEPT !.calls = Append(@, [id |-> start.id, args |-> <<>>])]
        BY <2>3, <3>2 DEF TheAnswer!Assembled
      <3>5. <<index, 1>> \in Nat \X Nat
        BY <1>5
      <3>6. TheAnswer!WithFragment(o.calls, delta)
                = Append(x7.calls, [id |-> id, args |-> << <<index, 1>> >>])
        <4>1. PICK says, q : says = <<index, 1>> /\ q = x7.calls
          OBVIOUS
        <4>2. /\ says \in Nat \X Nat /\ q \in Seq(CallSet) /\ id \in TheAnswer!Ids
              /\ \A j \in 1..Len(q) : q[j].id # id
          BY <1>3, <1>5, <1>8, <3>5, <4>1
        <4>3. TheAnswer!WithFragment(Append(q, [id |-> id, args |-> <<>>]),
                                     TheAnswer!Ev("call_delta", id, says))
                  = Append(q, [id |-> id, args |-> <<says>>])
          BY <4>2, FragmentStarts
        <4>4. /\ o.calls = Append(q, [id |-> id, args |-> <<>>])
              /\ delta = TheAnswer!Ev("call_delta", id, says)
          BY <1>1, <2>3, <2>4, <4>1
        <4> QED BY <4>1, <4>3, <4>4
      <3>7. TheAnswer!Fragments(n + 1, fragment) = << <<index, 1>> >>
        <4>1. (n + 1) - 1 = index
          BY <1>7
        <4> QED BY <2>1, <2>5, <4>1, FragmentsAre
      <3>8. TheAnswer!WithFragment(o.calls, delta) = c
        BY <1>12, <3>6, <3>7
      <3> QED BY <1>3, <2>4, <3>3, <3>4, <3>8 DEF OutSet
    <2>6. CASE fragment # 1
      <3>1. fragment = 0 /\ p = o
        BY <1>1, <1>14, <2>2, <2>6
      <3>2. TheAnswer!Fragments(n + 1, fragment) = <<>>
        BY <2>1, <3>1, FragmentsAre
      <3> QED BY <1>12, <2>3, <2>4, <3>1, <3>2
    <2> QED BY <2>5, <2>6
  <1>16. Quiet(events)
    <2>1. <<index, 1>> \in Nat \X Nat
      BY <1>5
    <2> QED BY <1>1, <1>5, <2>1, QuietOnes
  <1>17. ThoughtsAgree(p, x3'.thoughts, x4'.sigs, x2')
    BY <1>11, <1>15, ThoughtsFrame
  <1>18. /\ p.text = x3'.text /\ p.done = x3'.complete
         /\ CallsAgree(p.calls, x3'.calls, x4'.ids, x1', x2')
    BY <1>3, <1>11, <1>13, <1>15
  <1> QED BY <1>1, <1>11, <1>14, <1>16, <1>17, <1>18, FrameKeeps

(* A call's later chunk.                                                     *)
LEMMA KnownCallKeeps ==
    ASSUME TheAnswer!StreamsInv, NEW index \in 0..Len(x3.calls), NEW id, NEW delta,
           KnownCall(index, id, delta)
    PROVE  TheAnswer!StreamsInv'
  <1>1. PICK events, says, n : /\ events = <<delta>> /\ n = index + 1
                               /\ says = <<index, x3.calls[index + 1] + 1>>
    OBVIOUS
  <1>2. /\ TheAnswer!OpenAi /\ TheAnswer!Knows(x4.ids, index) /\ id = x4.ids[index]
        /\ delta = TheAnswer!Ev("call_delta", id, says)
        /\ TheAnswer!Arrives(TheAnswer!Deltas, events)
        /\ x4' = [x4 EXCEPT !.ids = TheAnswer!With(@, index, id)]
        /\ x2' = [x2 EXCEPT !.stage = "deltas"]
        /\ x3' = [x3 EXCEPT !.calls = [x3.calls EXCEPT ![n] = x3.calls[n] + 1]]
        /\ x11' = x11
    BY <1>1 DEF KnownCall
  <1>3. /\ Before /\ x2 \in ServerSet /\ x3 \in AnswerSet /\ MapperOK(x4)
        /\ x2.stage \in TheAnswer!Deltas /\ x1' = x1
    BY <1>2, FrameFinds
  <1>4. /\ x7 \in OutSet /\ x7.calls \in Seq(CallSet) /\ x3.calls \in Seq(Nat)
        /\ Len(x7.calls) = Len(x3.calls) /\ Len(x7.calls) \in Nat
        /\ x7.text = x3.text /\ x7.done = x3.complete
        /\ CallsAgree(x7.calls, x3.calls, x4.ids, "openai", x2) /\ x1 = "openai"
    BY <1>2, <1>3 DEF Before, TheAnswer!OpenAi
  <1>5. /\ DOMAIN x4.ids = 0..(Len(x7.calls) - 1)
        /\ \A j \in 1..Len(x7.calls) : x4.ids[j - 1] = x7.calls[j].id
        /\ \A j, k \in 1..Len(x7.calls) : x7.calls[j].id = x7.calls[k].id => j = k
    BY <1>4 DEF CallsAgree
  <1>6. n \in 1..Len(x7.calls) /\ index \in Nat /\ n - 1 = index
    BY <1>1, <1>2, <1>4, <1>5 DEF TheAnswer!Knows
  <1>7. x7.calls[n].id = id /\ id \in TheAnswer!Ids /\ x3.calls[n] \in Nat
    <2>1. x7.calls[n].id = x4.ids[n - 1] /\ id = x4.ids[n - 1]
      BY <1>2, <1>5, <1>6
    <2>2. x7.calls[n].id \in TheAnswer!Ids
      BY <1>4, <1>6, IdIs
    <2>3. x3.calls[n] \in Nat
      BY <1>4, <1>6
    <2> QED BY <2>1, <2>2, <2>3
  <1>8. PICK calls : calls = [x3.calls EXCEPT ![n] = @ + 1]
    OBVIOUS
  <1>9. calls \in Seq(Nat) /\ x3' = [x3 EXCEPT !.calls = calls]
    <2>1. x3.calls[n] + 1 \in Nat
      BY <1>7
    <2>2. calls \in Seq(Nat)
      BY <1>4, <1>6, <1>8, <2>1
    <2>3. calls = [x3.calls EXCEPT ![n] = x3.calls[n] + 1]
      BY <1>8
    <2> QED BY <1>2, <2>2, <2>3
  <1>10. /\ x2' \in ServerSet /\ x3' \in AnswerSet /\ MapperOK(x4') /\ TheAnswer!BlocksInOrder'
         /\ x3'.text = x3.text /\ x3'.complete = x3.complete
         /\ x3'.calls = calls /\ x3'.thoughts = x3.thoughts
         /\ x4'.ids = TheAnswer!With(x4.ids, index, id) /\ x4'.sigs = x4.sigs
         /\ ThoughtsAgree(x7, x3'.thoughts, x4'.sigs, x2')
    BY <1>2, <1>3, <1>6, <1>7, <1>9, CallFields
  <1>11. delta.kind = "call_delta" /\ delta.id = id /\ delta.says = says
    BY <1>2 DEF TheAnswer!Ev
  <1>12. says \in Nat \X Nat /\ says = <<n - 1, x3.calls[n] + 1>>
    BY <1>1, <1>6, <1>7
  <1>13. PICK c : c = TheAnswer!WithFragment(x7.calls, delta)
    OBVIOUS
  <1>14. GoesTo(x7.calls, says, n, c)
    <2>1. \A j \in 1..Len(x7.calls) : x7.calls[j].id = delta.id => j = n
      BY <1>5, <1>6, <1>7, <1>11
    <2>2. GoesTo(x7.calls, delta.says, n, c)
      BY <1>4, <1>6, <1>7, <1>11, <1>12, <1>13, <2>1, FragmentGoes
    <2> QED BY <1>11, <2>2
  <1>15. c \in Seq(CallSet)
    BY <1>14 DEF GoesTo
  <1>16. CallsAgree(c, calls, x4.ids, "openai", x2)
    BY <1>4, <1>6, <1>8, <1>12, <1>14, CallsDelta
  <1>17. CallsAgree(c, calls, x4'.ids, "openai", x2')
    <2>1. PICK ids1 : ids1 = TheAnswer!With(x4.ids, index, id)
      OBVIOUS
    <2>2. DOMAIN ids1 = DOMAIN x4.ids /\ \A i \in DOMAIN x4.ids : ids1[i] = x4.ids[i]
      <3>1. Entered(x4.ids, index, id, ids1)
        BY <2>1, WithIs
      <3> QED BY <1>2, <3>1 DEF Entered, TheAnswer!Knows
    <2>3. CallsAgree(c, calls, ids1, "openai", x2')
      BY <1>15, <1>16, <2>2, CallsIds
    <2> QED BY <1>10, <2>1, <2>3
  <1>18. PICK p : p = TheAnswer!After(x7, events)
    OBVIOUS
  <1>19. /\ p.text = x7.text /\ p.reasoning = x7.reasoning /\ p.signature = x7.signature
         /\ p.redacted = x7.redacted /\ p.calls = c /\ p.done = x7.done
    BY <1>1, <1>4, <1>11, <1>13, <1>18, FragmentTold
  <1>20. Quiet(events)
    BY <1>1, <1>2, <1>12, QuietOnes
  <1>21. ThoughtsAgree(p, x3'.thoughts, x4'.sigs, x2')
    BY <1>10, <1>19, ThoughtsFrame
  <1>22. /\ p.text = x3'.text /\ p.done = x3'.complete
         /\ CallsAgree(p.calls, x3'.calls, x4'.ids, x1', x2')
    BY <1>3, <1>4, <1>10, <1>17, <1>19
  <1> QED BY <1>2, <1>10, <1>18, <1>20, <1>21, <1>22, FrameKeeps

(* A chunk of a call.                                                        *)
LEMMA OpenAiCallKeeps ==
    ASSUME TheAnswer!StreamsInv, NEW index \in 0..Len(x3.calls), NEW given \in BOOLEAN,
           NEW fragment \in 0..1, TheAnswer!OpenAiCall(index, given, fragment)
    PROVE  TheAnswer!StreamsInv'
  <1>1. index \in Nat
    <2>1. x3.calls \in Seq(Nat)
      BY DEF TheAnswer!StreamsInv, TheAnswer!StreamsTypeOK
    <2> QED BY <2>1
  <1> QED BY <1>1, OpenAiCallIs, NewCallKeeps, KnownCallKeeps

(* The two terminals of a chat-completions stream.                           *)
LEMMA FinishKeeps ==
    ASSUME TheAnswer!StreamsInv, NEW from, NEW stage \in {"reason", "silent"}, TheAnswer!OpenAi,
           TheAnswer!Arrives(from, TheAnswer!Finish(x4)), x4' = [x4 EXCEPT !.finished = TRUE],
           x2' = [x2 EXCEPT !.stage = stage],
           x3' = [x3 EXCEPT !.complete = TRUE], x11' = x11
    PROVE  TheAnswer!StreamsInv'
  <1>1. PICK e, events : e = TheAnswer!Ev("done", <<>>, 0) /\ events = TheAnswer!Finish(x4)
    OBVIOUS
  <1>2. TheAnswer!Arrives(from, events)
    BY <1>1
  <1>3. /\ Before /\ x2 \in ServerSet /\ x3 \in AnswerSet /\ MapperOK(x4)
        /\ x1' = x1
    BY <1>2, FrameFinds
  <1>4. events = IF x4.finished THEN <<>> ELSE <<e>>
    BY <1>1 DEF TheAnswer!Finish
  <1>5. x4.finished = x3.complete /\ x2.kind = "none"
    BY <1>3 DEF Before, TheAnswer!BlocksInOrder, TheAnswer!OpenAi, TheAnswer!Anthropic
  <1>6. PICK p : p = TheAnswer!After(x7, events)
    OBVIOUS
  <1>7. /\ x7 \in OutSet /\ x7.text = x3.text /\ x7.done = x3.complete
    BY <1>3 DEF Before
  <1>8. /\ p.text = x7.text /\ p.reasoning = x7.reasoning /\ p.signature = x7.signature
        /\ p.redacted = x7.redacted /\ p.calls = x7.calls /\ p.done = TRUE
    <2>1. CASE x4.finished
      <3>1. p = x7
        BY <1>4, <1>6, <2>1, AfterIs
      <3>2. x7.done = TRUE
        BY <1>5, <1>7, <2>1 DEF OutSet
      <3> QED BY <3>1, <3>2
    <2>2. CASE ~x4.finished
      <3>1. e.kind = "done" /\ p = TheAnswer!After(x7, <<e>>)
        BY <1>1, <1>4, <1>6, <2>2 DEF TheAnswer!Ev
      <3>2. p = TheAnswer!Assembled(x7, e)
        BY <3>1, AfterIs
      <3> QED BY <1>7, <3>1, <3>2 DEF TheAnswer!Assembled, OutSet
    <2> QED BY <2>1, <2>2
  <1>9. Quiet(events)
    BY <1>1, <1>4, QuietOnes
  <1>10. x2' \in ServerSet /\ x3' \in AnswerSet /\ MapperOK(x4')
    BY <1>3 DEF ServerSet, AnswerSet, MapperOK
  <1>11. /\ x3'.text = x3.text /\ x3'.calls = x3.calls
         /\ x3'.thoughts = x3.thoughts /\ x3'.complete = TRUE
         /\ x2'.stage = stage
         /\ x4'.ids = x4.ids /\ x4'.sigs = x4.sigs /\ x4'.finished = TRUE
    BY <1>3 DEF ServerSet, AnswerSet, MapperOK
  <1>12. /\ x2'.open = x2.open /\ x2'.kind = x2.kind
         /\ x2'.blocks = x2.blocks
         /\ CallsAgree(x7.calls, x3.calls, x4.ids, x1', x2')
         /\ ThoughtsAgree(x7, x3.thoughts, x4.sigs, x2')
    BY <1>3, StageKeeps
  <1>13. TheAnswer!BlocksInOrder'
    BY <1>3, <1>5, <1>11, <1>12
       DEF TheAnswer!BlocksInOrder, Before, TheAnswer!OpenAi, TheAnswer!Anthropic
  <1>14. ThoughtsAgree(p, x3'.thoughts, x4'.sigs, x2')
    BY <1>8, <1>11, <1>12, ThoughtsFrame
  <1>15. /\ p.text = x3'.text /\ p.done = x3'.complete
         /\ CallsAgree(p.calls, x3'.calls, x4'.ids, x1', x2')
    BY <1>7, <1>8, <1>11, <1>12
  <1> QED BY <1>2, <1>6, <1>9, <1>10, <1>13, <1>14, <1>15, FrameKeeps

(* The report of what was used.                                              *)
LEMMA UsageKeeps ==
    ASSUME TheAnswer!StreamsInv, NEW from,
           TheAnswer!Arrives(from, <<TheAnswer!Ev("usage", <<>>, 1)>>), TheAnswer!Reports(1),
           NEW stage \in {"reason", "usage"}, x2' = [x2 EXCEPT !.stage = stage],
           x4' = x4, x3' = x3, x2.kind = "none"
    PROVE  TheAnswer!StreamsInv'
  <1>1. PICK e, events : e = TheAnswer!Ev("usage", <<>>, 1) /\ events = <<e>>
    OBVIOUS
  <1>2. TheAnswer!Arrives(from, events)
    BY <1>1
  <1>3. /\ Before /\ x2 \in ServerSet /\ x3 \in AnswerSet /\ MapperOK(x4)
        /\ x1' = x1
    BY <1>2, FrameFinds
  <1>4. PICK p : p = TheAnswer!After(x7, events)
    OBVIOUS
  <1>5. e.kind = "usage"
    BY <1>1 DEF TheAnswer!Ev
  <1>6. p = x7
    <2>1. p = TheAnswer!Assembled(x7, e)
      BY <1>1, <1>4, AfterIs
    <2> QED BY <1>5, <2>1 DEF TheAnswer!Assembled
  <1>7. /\ x5' = events /\ x6' = TRUE /\ x7' = x7 /\ x8' = x8 /\ x9' = x9
    BY <1>2 DEF TheAnswer!Arrives
  <1>8. /\ x11 \in [reported : Nat, counted : Nat] /\ x11.reported = x11.counted
        /\ TheAnswer!StreamsTypeOK /\ x7 \in OutSet /\ x9 \in Nat
    BY <1>3 DEF Before, TheAnswer!StreamsTypeOK
  <1>9. x11' \in [reported : Nat, counted : Nat] /\ x11'.reported = x11'.counted + 1
    BY <1>8 DEF TheAnswer!Reports
  <1>10. TheAnswer!QueueInOrder' /\ TheAnswer!UsageFollows'
    <2>1. events # <<>> /\ Head(events) = e
      BY <1>1
    <2>2. TheAnswer!EventOK(e)
      BY <1>5 DEF TheAnswer!EventOK
    <2> QED BY <1>1, <1>5, <1>7, <1>9, <2>1, <2>2 DEF TheAnswer!QueueInOrder, TheAnswer!UsageFollows
  <1>11. x2' \in ServerSet
    BY <1>3 DEF ServerSet
  <1>12. TheAnswer!StreamsTypeOK'
    BY <1>3, <1>7, <1>8, <1>9, <1>11, TypesNext
  <1>13. /\ x2'.open = x2.open /\ x2'.kind = x2.kind
         /\ x2'.blocks = x2.blocks
         /\ CallsAgree(x7.calls, x3.calls, x4.ids, x1', x2')
         /\ ThoughtsAgree(x7, x3.thoughts, x4.sigs, x2')
    BY <1>3, StageKeeps
  <1>14. x2'.stage = stage
    BY <1>3 DEF ServerSet
  <1>15. TheAnswer!BlocksInOrder'
    BY <1>3, <1>13, <1>14 DEF TheAnswer!BlocksInOrder, Before, TheAnswer!OpenAi, TheAnswer!Anthropic
  <1>16. x7.text = x3.text /\ x7.done = x3.complete
    BY <1>3 DEF Before
  <1> QED BY <1>3, <1>4, <1>6, <1>7, <1>10, <1>12, <1>13, <1>15, <1>16, ArrivalKeeps

(* A frame that says nothing, and an error.                                  *)
LEMMA NothingKeeps ==
    ASSUME TheAnswer!StreamsInv, NEW from, NEW events, TheAnswer!Arrives(from, events),
           events = <<>> \/ events = <<TheAnswer!Ev("error", <<>>, "api")>>,
           NEW stage \in {"deltas", "silent"},
           stage = "silent" \/ x2.stage = "head",
           x2' = x2 \/ x2' = [x2 EXCEPT !.stage = stage],
           x4' = x4, x3' = x3, x11' = x11
    PROVE  TheAnswer!StreamsInv'
  <1>1. /\ Before /\ x2 \in ServerSet /\ x3 \in AnswerSet /\ MapperOK(x4)
        /\ x1' = x1
    BY FrameFinds
  <1>2. PICK e : e = TheAnswer!Ev("error", <<>>, "api")
    OBVIOUS
  <1>3. PICK p : p = TheAnswer!After(x7, events)
    OBVIOUS
  <1>4. p = x7
    <2>1. CASE events = <<>>
      BY <1>3, <2>1, AfterIs
    <2>2. CASE events = <<e>>
      <3>1. p = TheAnswer!Assembled(x7, e) /\ e.kind = "error"
        BY <1>2, <1>3, <2>2, AfterIs DEF TheAnswer!Ev
      <3> QED BY <3>1 DEF TheAnswer!Assembled
    <2> QED BY <1>2, <2>1, <2>2
  <1>5. Quiet(events)
    BY QuietOnes
  <1>6. x2' \in ServerSet
    BY <1>1 DEF ServerSet
  <1>7. /\ x2'.open = x2.open /\ x2'.kind = x2.kind
        /\ x2'.blocks = x2.blocks
        /\ CallsAgree(x7.calls, x3.calls, x4.ids, x1', x2')
        /\ ThoughtsAgree(x7, x3.thoughts, x4.sigs, x2')
    BY <1>1, StageKeeps
  <1>8. x2'.stage = x2.stage \/ x2'.stage = stage
    BY <1>1 DEF ServerSet
  <1>9. TheAnswer!BlocksInOrder'
    BY <1>1, <1>7, <1>8 DEF TheAnswer!BlocksInOrder, Before, TheAnswer!OpenAi, TheAnswer!Anthropic
  <1>10. x7.text = x3.text /\ x7.done = x3.complete
    BY <1>1 DEF Before
  <1> QED BY <1>1, <1>3, <1>4, <1>5, <1>6, <1>7, <1>9, <1>10, FrameKeeps

(* The end of a messages stream.                                             *)
LEMMA StopKeeps ==
    ASSUME TheAnswer!StreamsInv, TheAnswer!MessageStop
    PROVE  TheAnswer!StreamsInv'
  <1>1. PICK e, events : e = TheAnswer!Ev("done", <<>>, 0) /\ events = <<e>>
    OBVIOUS
  <1>2. /\ TheAnswer!Anthropic /\ TheAnswer!Arrives({"reason"}, events)
        /\ x2' = [x2 EXCEPT !.stage = "silent"]
        /\ x3' = [x3 EXCEPT !.complete = TRUE] /\ x4' = x4 /\ x11' = x11
    BY <1>1 DEF TheAnswer!MessageStop, TheAnswer!Says
  <1>3. /\ Before /\ x2 \in ServerSet /\ x3 \in AnswerSet /\ MapperOK(x4)
        /\ x1' = x1 /\ x2.stage = "reason"
    BY <1>2, FrameFinds
  <1>4. PICK p : p = TheAnswer!After(x7, events)
    OBVIOUS
  <1>5. x7 \in OutSet /\ x7.text = x3.text
    BY <1>3 DEF Before
  <1>6. e.kind = "done"
    BY <1>1 DEF TheAnswer!Ev
  <1>7. /\ p.text = x7.text /\ p.reasoning = x7.reasoning /\ p.signature = x7.signature
        /\ p.redacted = x7.redacted /\ p.calls = x7.calls /\ p.done = TRUE
    <2>1. p = TheAnswer!After(x7, <<e>>)
      BY <1>1, <1>4
    <2>2. p = TheAnswer!Assembled(x7, e)
      BY <2>1, AfterIs
    <2> QED BY <1>5, <1>6, <2>2 DEF TheAnswer!Assembled, OutSet
  <1>8. Quiet(events)
    BY <1>1, QuietOnes
  <1>9. x2' \in ServerSet /\ x3' \in AnswerSet
    BY <1>2, <1>3 DEF ServerSet, AnswerSet
  <1>10. /\ x3'.text = x3.text /\ x3'.calls = x3.calls
         /\ x3'.thoughts = x3.thoughts /\ x3'.complete = TRUE
         /\ x2'.stage = "silent"
    BY <1>2, <1>3 DEF ServerSet, AnswerSet
  <1>11. /\ x2'.open = x2.open /\ x2'.kind = x2.kind
         /\ x2'.blocks = x2.blocks
         /\ CallsAgree(x7.calls, x3.calls, x4.ids, x1', x2')
         /\ ThoughtsAgree(x7, x3.thoughts, x4.sigs, x2')
    BY <1>2, <1>3, StageKeeps
  <1>12. TheAnswer!BlocksInOrder'
    BY <1>2, <1>3, <1>10, <1>11
       DEF TheAnswer!BlocksInOrder, Before, TheAnswer!OpenAi, TheAnswer!Anthropic
  <1>13. ThoughtsAgree(p, x3'.thoughts, x4'.sigs, x2')
    BY <1>2, <1>7, <1>10, <1>11, ThoughtsFrame
  <1>14. /\ p.text = x3'.text /\ p.done = x3'.complete
         /\ CallsAgree(p.calls, x3'.calls, x4'.ids, x1', x2')
    BY <1>2, <1>5, <1>7, <1>10, <1>11
  <1> QED BY <1>2, <1>3, <1>4, <1>8, <1>9, <1>12, <1>13, <1>14, FrameKeeps

(* Text of a messages stream.                                                *)
LEMMA TextDeltaKeeps ==
    ASSUME TheAnswer!StreamsInv, TheAnswer!TextDelta
    PROVE  TheAnswer!StreamsInv'
  <1>1. PICK e, events : e = TheAnswer!Ev("text", <<>>, 0) /\ events = <<e>>
    OBVIOUS
  <1>2. /\ TheAnswer!Anthropic /\ x3.text = 0 /\ TheAnswer!Arrives({"deltas"}, events) /\ x2' = x2
        /\ x3' = [x3 EXCEPT !.text = 1] /\ x4' = x4 /\ x11' = x11
    BY <1>1 DEF TheAnswer!TextDelta, TheAnswer!InBlock
  <1>3. /\ Before /\ x2 \in ServerSet /\ x3 \in AnswerSet /\ MapperOK(x4)
        /\ x1' = x1
    BY <1>2, FrameFinds
  <1>4. PICK p : p = TheAnswer!After(x7, events)
    OBVIOUS
  <1>5. x7 \in OutSet /\ x7.text = x3.text /\ x7.done = x3.complete
    BY <1>3 DEF Before
  <1>6. /\ p.text = x7.text + 1 /\ p.reasoning = x7.reasoning /\ p.signature = x7.signature
        /\ p.redacted = x7.redacted /\ p.calls = x7.calls /\ p.done = x7.done
    <2>1. p = TheAnswer!Assembled(x7, e) /\ e.kind = "text"
      BY <1>1, <1>4, AfterIs DEF TheAnswer!Ev
    <2> QED BY <1>5, <2>1 DEF TheAnswer!Assembled, OutSet
  <1>7. Quiet(events)
    BY <1>1, QuietOnes
  <1>8. x3' \in AnswerSet
    BY <1>2, <1>3 DEF AnswerSet
  <1>9. /\ x3'.text = 1 /\ x3'.calls = x3.calls
        /\ x3'.thoughts = x3.thoughts /\ x3'.complete = x3.complete
    BY <1>2, <1>3 DEF AnswerSet
  <1>10. /\ CallsAgree(x7.calls, x3.calls, x4.ids, x1', x2')
         /\ ThoughtsAgree(x7, x3.thoughts, x4.sigs, x2')
    BY <1>2, <1>3, StageKeeps
  <1>11. TheAnswer!BlocksInOrder'
    BY <1>2, <1>3, <1>9 DEF TheAnswer!BlocksInOrder, Before, TheAnswer!OpenAi, TheAnswer!Anthropic
  <1>12. ThoughtsAgree(p, x3'.thoughts, x4'.sigs, x2')
    BY <1>2, <1>6, <1>9, <1>10, ThoughtsFrame
  <1>13. /\ p.text = x3'.text /\ p.done = x3'.complete
         /\ CallsAgree(p.calls, x3'.calls, x4'.ids, x1', x2')
    BY <1>2, <1>5, <1>6, <1>9, <1>10
  <1> QED BY <1>2, <1>3, <1>4, <1>7, <1>8, <1>11, <1>12, <1>13, FrameKeeps

(* The body is over, with an error or without.                               *)
LEMMA BodyEndsKeeps ==
    ASSUME TheAnswer!StreamsInv, NEW events, NEW why, TheAnswer!BodyEnds(events),
           events = <<>> \/ events = <<TheAnswer!Ev("error", <<>>, why)>>
    PROVE  TheAnswer!StreamsInv'
  <1>1. /\ x8 = "streaming" /\ x5 = <<>> /\ x2' = [x2 EXCEPT !.over = TRUE]
        /\ x5' = events /\ x1' = x1 /\ x3' = x3 /\ x4' = x4
        /\ x6' = x6 /\ x7' = x7 /\ x8' = x8 /\ x9' = x9 /\ x11' = x11
    BY DEF TheAnswer!BodyEnds
  <1>2. Before
    BY <1>1, BeforeHolds
  <1>3. /\ TheAnswer!StreamsTypeOK /\ x2 \in ServerSet /\ x3 \in AnswerSet /\ MapperOK(x4)
        /\ x7 \in OutSet /\ x7.text = x3.text /\ x7.done = x3.complete
    BY <1>2, TypesAre DEF Before
  <1>4. PICK e : e = TheAnswer!Ev("error", <<>>, why)
    OBVIOUS
  <1>5. PICK p : p = TheAnswer!After(x7, events)
    OBVIOUS
  <1>6. p = x7
    <2>1. CASE events = <<>>
      BY <1>5, <2>1, AfterIs
    <2>2. CASE events = <<e>>
      <3>1. p = TheAnswer!Assembled(x7, e) /\ e.kind = "error"
        BY <1>4, <1>5, <2>2, AfterIs DEF TheAnswer!Ev
      <3> QED BY <3>1 DEF TheAnswer!Assembled
    <2> QED BY <1>4, <2>1, <2>2
  <1>7. TheAnswer!QueueInOrder' /\ TheAnswer!UsageFollows'
    <2>1. Quiet(events)
      BY QuietOnes
    <2> QED BY <1>1, <1>2, <2>1, QuietIs
  <1>8. x2' \in ServerSet
    BY <1>1, <1>3 DEF ServerSet
  <1>9. /\ x2'.stage = x2.stage /\ x2'.open = x2.open
        /\ x2'.kind = x2.kind /\ x2'.blocks = x2.blocks
    BY <1>1, <1>3 DEF ServerSet
  <1>10. TheAnswer!StreamsTypeOK'
    <2>1. /\ x9 \in Nat /\ x11 \in [reported : Nat, counted : Nat] /\ x6 \in BOOLEAN
      BY <1>3 DEF TheAnswer!StreamsTypeOK
    <2> QED BY <1>1, <1>3, <1>8, <2>1, TypesNext
  <1>11. TheAnswer!BlocksInOrder'
    BY <1>1, <1>2, <1>9 DEF TheAnswer!BlocksInOrder, Before, TheAnswer!OpenAi, TheAnswer!Anthropic
  <1>12. CallsAgree(x7.calls, x3'.calls, x4'.ids, x1', x2')
    <2>1. PICK s : s = x2'
      OBVIOUS
    <2>2. CallsAgree(x7.calls, x3.calls, x4.ids, x1, s)
      BY <1>2, <1>9, <2>1 DEF Before, CallsAgree
    <2> QED BY <1>1, <2>1, <2>2
  <1>13. ThoughtsAgree(x7, x3'.thoughts, x4'.sigs, x2')
    <2>1. ThoughtsAgree(x7, x3.thoughts, x4.sigs, x2)
      BY <1>2 DEF Before
    <2>2. ThoughtsAgree(x7, x3.thoughts, x4.sigs, x2')
      BY <1>9, <2>1, ThoughtsFrame
    <2> QED BY <1>1, <2>2
  <1> QED BY <1>1, <1>2, <1>3, <1>5, <1>6, <1>7, <1>10, <1>11, <1>12, <1>13, ArrivalKeeps

(* The kinds of an open block (anthropic.rs map).                            *)
BlockKinds == {"text", "tool_use", "thinking", "redacted"}

(* A block opens.                                                            *)
LEMMA BlockOpens ==
    ASSUME Before, x2 \in ServerSet, x2.stage = "deltas", TheAnswer!Anthropic, x1' = x1,
           x2.open = TheAnswer!Nothing, NEW kind \in BlockKinds, NEW index, index = x2.blocks,
           x2' = [x2 EXCEPT !.open = index, !.kind = kind, !.blocks = @ + 1]
    PROVE  /\ x2' \in ServerSet /\ index \in Nat /\ index # TheAnswer!Nothing
           /\ x2'.open = index /\ x2'.kind = kind
           /\ x2'.blocks = x2.blocks + 1 /\ x2'.stage = "deltas"
           /\ x2.kind = "none" /\ x2.blocks \in Nat
           /\ ~x3.complete /\ \A i \in DOMAIN x4.sigs : FALSE
  <1>1. index \in Nat /\ index # TheAnswer!Nothing
    BY DEF ServerSet, TheAnswer!Nothing
  <1>2. /\ x2' \in ServerSet /\ x2'.open = index /\ x2'.kind = kind
        /\ x2'.blocks = x2.blocks + 1 /\ x2'.stage = "deltas"
    <2>1. x2' = [stage |-> x2.stage, open |-> index, kind |-> kind,
                 blocks |-> x2.blocks + 1, over |-> x2.over]
      BY DEF ServerSet
    <2>2. kind \in {"none", "text", "tool_use", "thinking", "redacted"}
      BY DEF BlockKinds
    <2>3. x2.blocks + 1 \in Nat /\ index \in Int
      BY <1>1
    <2> QED BY <2>1, <2>2, <2>3 DEF ServerSet
  <1>3. x2.kind = "none" /\ ~x3.complete /\ \A i \in DOMAIN x4.sigs : FALSE
    BY DEF Before, TheAnswer!BlocksInOrder
  <1> QED BY <1>1, <1>2, <1>3

(* A block of text.                                                          *)
LEMMA TextStarts ==
    ASSUME TheAnswer!StreamsInv, TheAnswer!BlockStart("text")
    PROVE  TheAnswer!StreamsInv'
  <1>1. PICK events, index : events = <<>> /\ index = x2.blocks
    OBVIOUS
  <1>2. /\ TheAnswer!Anthropic /\ x2.open = TheAnswer!Nothing
        /\ TheAnswer!Arrives({"deltas"}, events)
        /\ x2' = [x2 EXCEPT !.open = index, !.kind = "text", !.blocks = @ + 1]
        /\ x3' = x3 /\ x11' = x11
        /\ x4' = [x4 EXCEPT !.ids = @, !.sigs = @]
    BY <1>1 DEF TheAnswer!BlockStart
  <1>3. /\ Before /\ x2 \in ServerSet /\ x3 \in AnswerSet /\ MapperOK(x4)
        /\ x2.stage = "deltas" /\ x1' = x1
    BY <1>2, FrameFinds
  <1>4. x4' = x4
    BY <1>2, <1>3 DEF MapperOK
  <1>5. /\ x2' \in ServerSet /\ index \in Nat /\ index # TheAnswer!Nothing
        /\ x2'.open = index /\ x2'.kind = "text"
        /\ x2'.blocks = x2.blocks + 1 /\ x2'.stage = "deltas"
        /\ x2.kind = "none" /\ x2.blocks \in Nat
        /\ ~x3.complete /\ \A i \in DOMAIN x4.sigs : FALSE
    <2>1. "text" \in BlockKinds
      BY DEF BlockKinds
    <2> QED BY <1>1, <1>2, <1>3, <2>1, BlockOpens
  <1>6. TheAnswer!BlocksInOrder'
    BY <1>1, <1>2, <1>3, <1>4, <1>5
       DEF TheAnswer!BlocksInOrder, TheAnswer!OpenAi, TheAnswer!Anthropic
  <1>7. PICK p : p = TheAnswer!After(x7, events)
    OBVIOUS
  <1>8. p = x7
    BY <1>1, <1>7, AfterIs
  <1>9. /\ x7.text = x3.text /\ x7.done = x3.complete /\ x7.calls \in Seq(CallSet)
        /\ CallsAgree(x7.calls, x3.calls, x4.ids, x1, x2)
        /\ ThoughtsAgree(x7, x3.thoughts, x4.sigs, x2)
    BY <1>3 DEF Before
  <1>10. CallsAgree(x7.calls, x3.calls, x4.ids, x1, x2')
    <2>1. x2.blocks <= x2'.blocks /\ x2'.blocks \in Nat
      BY <1>5
    <2> QED BY <1>5, <1>9, <2>1, CallsFrame
  <1>11. ThoughtsAgree(x7, x3.thoughts, x4.sigs, x2')
    BY <1>5, <1>9, ThoughtsFrame
  <1>12. Quiet(events)
    BY <1>1, QuietOnes
  <1>13. /\ p.text = x3'.text /\ p.done = x3'.complete
         /\ CallsAgree(p.calls, x3'.calls, x4'.ids, x1', x2')
         /\ ThoughtsAgree(p, x3'.thoughts, x4'.sigs, x2')
    BY <1>2, <1>3, <1>4, <1>8, <1>9, <1>10, <1>11
  <1>14. x3' \in AnswerSet /\ MapperOK(x4')
    BY <1>2, <1>3, <1>4
  <1> QED BY <1>2, <1>5, <1>6, <1>7, <1>12, <1>13, <1>14, FrameKeeps

(* A block of a call.                                                        *)
LEMMA CallStarts ==
    ASSUME TheAnswer!StreamsInv, TheAnswer!BlockStart("tool_use")
    PROVE  TheAnswer!StreamsInv'
  <1>1. PICK e, events, index, id, calls :
          /\ index = x2.blocks /\ id = <<"server", index>> /\ e = TheAnswer!Ev("call_start", id, 0)
          /\ events = <<e>> /\ calls = Append(x3.calls, 0)
    OBVIOUS
  <1>2. /\ TheAnswer!Anthropic /\ x2.open = TheAnswer!Nothing
        /\ TheAnswer!Arrives({"deltas"}, events)
        /\ x2' = [x2 EXCEPT !.open = index, !.kind = "tool_use", !.blocks = @ + 1]
        /\ x3' = [x3 EXCEPT !.calls = calls] /\ x11' = x11
        /\ x4' = [x4 EXCEPT !.ids = TheAnswer!With(@, index, id), !.sigs = @]
    BY <1>1 DEF TheAnswer!BlockStart
  <1>3. /\ Before /\ x2 \in ServerSet /\ x3 \in AnswerSet /\ MapperOK(x4)
        /\ x2.stage = "deltas" /\ x1' = x1 /\ x1 \in TheAnswer!Wires
    BY <1>2, FrameFinds
  <1>4. /\ x2' \in ServerSet /\ index \in Nat /\ index # TheAnswer!Nothing
        /\ x2'.open = index /\ x2'.kind = "tool_use"
        /\ x2'.blocks = x2.blocks + 1 /\ x2'.stage = "deltas"
        /\ x2.kind = "none" /\ x2.blocks \in Nat
        /\ ~x3.complete /\ \A i \in DOMAIN x4.sigs : FALSE
    <2>1. "tool_use" \in BlockKinds
      BY DEF BlockKinds
    <2> QED BY <1>1, <1>2, <1>3, <2>1, BlockOpens
  <1>5. /\ x7.text = x3.text /\ x7.done = x3.complete /\ x7.calls \in Seq(CallSet)
        /\ x7 \in OutSet /\ x3.calls \in Seq(Nat) /\ x1 = "anthropic"
        /\ CallsAgree(x7.calls, x3.calls, x4.ids, x1, x2)
        /\ ThoughtsAgree(x7, x3.thoughts, x4.sigs, x2)
    BY <1>2, <1>3 DEF Before, TheAnswer!Anthropic
  <1>6. id \in TheAnswer!Ids /\ id[2] = index
    BY <1>1, <1>4 DEF TheAnswer!Ids
  <1>7. calls \in Seq(Nat)
    BY <1>1, <1>5
  <1>8. PICK ids1 : ids1 = TheAnswer!With(x4.ids, index, id)
    OBVIOUS
  <1>9. Entered(x4.ids, index, id, ids1)
    BY <1>8, WithIs
  <1>10. x4' = [ids |-> ids1, sigs |-> x4.sigs, finished |-> x4.finished]
    BY <1>2, <1>3, <1>8 DEF MapperOK
  <1>11. MapperOK(x4') /\ x4'.ids = ids1 /\ x4'.sigs = x4.sigs
    BY <1>3, <1>4, <1>6, <1>9, <1>10 DEF MapperOK, Entered
  <1>12. /\ x3' \in AnswerSet /\ x3'.text = x3.text /\ x3'.calls = calls
         /\ x3'.thoughts = x3.thoughts /\ x3'.complete = x3.complete
    BY <1>2, <1>3, <1>7 DEF AnswerSet
  <1>13. TheAnswer!BlocksInOrder'
    BY <1>1, <1>2, <1>3, <1>4, <1>11, <1>12
       DEF TheAnswer!BlocksInOrder, TheAnswer!OpenAi, TheAnswer!Anthropic
  <1>14. PICK n, c : /\ n = Len(x7.calls)
                     /\ c = Append(x7.calls, [id |-> id, args |-> TheAnswer!Fragments(n + 1, 0)])
    OBVIOUS
  <1>15. CallsAgree(c, calls, ids1, x1, x2')
    <2>1. PICK b, a, ids, s, t, w : /\ b = x7.calls /\ a = x3.calls /\ ids = x4.ids
                                    /\ s = x2 /\ t = x2' /\ w = x1
      OBVIOUS
    <2>2. b \in Seq(CallSet) /\ a \in Seq(Nat) /\ CallsAgree(b, a, ids, w, s) /\ n = Len(b)
      BY <1>5, <1>14, <2>1
    <2>3. \A j \in 1..Len(b) : b[j].id # id
      <3>1. \A j \in 1..Len(b) : b[j].id[2] < s.blocks
        BY <1>5, <2>1, <2>2 DEF CallsAgree
      <3>2. \A j \in 1..Len(b) : b[j].id[2] \in Nat
        BY <2>2, IdIs
      <3> QED BY <1>1, <1>4, <1>6, <2>1, <3>1, <3>2
    <2>4. w = "openai" => /\ DOMAIN ids1 = 0..n /\ ids1[n] = id /\ id[2] = n
                          /\ \A j \in 0..(n - 1) : ids1[j] = ids[j]
      BY <1>5, <2>1
    <2>5. w = "anthropic" => /\ s.blocks \in Nat /\ id[2] = s.blocks /\ t.blocks = s.blocks + 1
                             /\ ids1[t.open] = id
      BY <1>1, <1>4, <1>6, <1>9, <2>1 DEF Entered
    <2>6. /\ c = Append(b, [id |-> id, args |-> TheAnswer!Fragments(n + 1, 0)])
          /\ w \in TheAnswer!Wires /\ 0 \in {0, 1}
      BY <1>3, <1>14, <2>1
    <2>7. Grown(b, a, ids, s, id, 0, n, c, ids1, w, t)
      BY <1>6, <2>2, <2>3, <2>4, <2>5, <2>6, CallsNew, ZenonT(60)
    <2>8. CallsAgree(c, Append(a, 0), ids1, w, t)
      BY <2>7 DEF Grown
    <2> QED BY <1>1, <2>1, <2>8
  <1>16. PICK p : p = TheAnswer!After(x7, events)
    OBVIOUS
  <1>17. /\ p.text = x7.text /\ p.reasoning = x7.reasoning /\ p.signature = x7.signature
         /\ p.redacted = x7.redacted /\ p.calls = c /\ p.done = x7.done
    <2>1. p = TheAnswer!After(x7, <<e>>) /\ e.kind = "call_start" /\ e.id = id
      BY <1>1, <1>16 DEF TheAnswer!Ev
    <2>2. n + 1 \in Nat \ {0}
      BY <1>5, <1>14
    <2>3. TheAnswer!Fragments(n + 1, 0) = <<>>
      BY <2>2, FragmentsAre
    <2> QED BY <1>5, <1>14, <2>1, <2>3, CallTold
  <1>18. ThoughtsAgree(p, x3.thoughts, x4.sigs, x2')
    BY <1>4, <1>5, <1>17, ThoughtsFrame
  <1>19. Quiet(events)
    BY <1>1, <1>6, QuietOnes
  <1>20. /\ p.text = x3'.text /\ p.done = x3'.complete
         /\ CallsAgree(p.calls, x3'.calls, x4'.ids, x1', x2')
         /\ ThoughtsAgree(p, x3'.thoughts, x4'.sigs, x2')
    BY <1>3, <1>5, <1>11, <1>12, <1>15, <1>17, <1>18
  <1> QED BY <1>2, <1>4, <1>11, <1>12, <1>13, <1>16, <1>19, <1>20, FrameKeeps

(* A thought more.                                                           *)
LEMMA MoreThoughts ==
    ASSUME NEW ts \in Seq(Thought0), NEW new \in Thought0, NEW ts1, ts1 = Append(ts, new)
    PROVE  /\ ts1 \in Seq(Thought0) /\ ts1 # <<>>
           /\ Len(ts1) = 1 => ts = <<>> /\ ts1[1] = new
  <1>1. /\ ts1 \in Seq(Thought0) /\ Len(ts1) = Len(ts) + 1 /\ ts1[Len(ts) + 1] = new
        /\ Len(ts) \in Nat
    OBVIOUS
  <1>2. ts1 # <<>>
    BY <1>1
  <1>3. Len(ts1) = 1 => Len(ts) = 0
    BY <1>1
  <1>4. Len(ts) = 0 => ts = <<>>
    OBVIOUS
  <1> QED BY <1>1, <1>2, <1>3, <1>4

(* A block of thinking.                                                      *)
LEMMA ThinkingStarts ==
    ASSUME TheAnswer!StreamsInv, TheAnswer!BlockStart("thinking")
    PROVE  TheAnswer!StreamsInv'
  <1>1. PICK events, index, new, ts1 :
          /\ events = <<>> /\ index = x2.blocks
          /\ new = [text |-> <<>>, signature |-> TheAnswer!Nothing, redacted |-> FALSE]
          /\ ts1 = Append(x3.thoughts, new)
    OBVIOUS
  <1>2. /\ TheAnswer!Anthropic /\ x2.open = TheAnswer!Nothing
        /\ TheAnswer!Arrives({"deltas"}, events)
        /\ x2' = [x2 EXCEPT !.open = index, !.kind = "thinking", !.blocks = @ + 1]
        /\ x3' = [x3 EXCEPT !.thoughts = ts1] /\ x11' = x11
        /\ x4' = [x4 EXCEPT !.ids = @, !.sigs = TheAnswer!With(@, index, TheAnswer!Nothing)]
    BY <1>1 DEF TheAnswer!BlockStart
  <1>3. /\ Before /\ x2 \in ServerSet /\ x3 \in AnswerSet /\ MapperOK(x4)
        /\ x2.stage = "deltas" /\ x1' = x1
    BY <1>2, FrameFinds
  <1>4. /\ x2' \in ServerSet /\ index \in Nat /\ index # TheAnswer!Nothing
        /\ x2'.open = index /\ x2'.kind = "thinking"
        /\ x2'.blocks = x2.blocks + 1 /\ x2'.stage = "deltas"
        /\ x2.kind = "none" /\ x2.blocks \in Nat
        /\ ~x3.complete /\ \A i \in DOMAIN x4.sigs : FALSE
    <2>1. "thinking" \in BlockKinds
      BY DEF BlockKinds
    <2> QED BY <1>1, <1>2, <1>3, <2>1, BlockOpens
  <1>5. /\ x7.text = x3.text /\ x7.done = x3.complete /\ x7.calls \in Seq(CallSet)
        /\ x7 \in OutSet /\ x3.thoughts \in Seq(Thought0)
        /\ CallsAgree(x7.calls, x3.calls, x4.ids, x1, x2)
        /\ ThoughtsAgree(x7, x3.thoughts, x4.sigs, x2)
    BY <1>3 DEF Before
  <1>6. /\ new \in Thought0 /\ new.text = <<>> /\ new.signature = TheAnswer!Nothing
        /\ new.redacted = FALSE
        /\ TheAnswer!Nothing \in Int
    BY <1>1 DEF Thought0, TheAnswer!Nothing
  <1>7. ts1 \in Seq(Thought0) /\ ts1 # <<>> /\ (Len(ts1) = 1 => x3.thoughts = <<>> /\ ts1[1] = new)
    BY <1>1, <1>5, <1>6, MoreThoughts
  <1>8. PICK sigs1 : sigs1 = TheAnswer!With(x4.sigs, index, TheAnswer!Nothing)
    OBVIOUS
  <1>9. Entered(x4.sigs, index, TheAnswer!Nothing, sigs1)
    BY <1>8, WithIs
  <1>10. x4' = [ids |-> x4.ids, sigs |-> sigs1, finished |-> x4.finished]
    BY <1>2, <1>3, <1>8 DEF MapperOK
  <1>11. MapperOK(x4') /\ x4'.ids = x4.ids /\ x4'.sigs = sigs1
    BY <1>3, <1>4, <1>6, <1>9, <1>10 DEF MapperOK, Entered
  <1>12. /\ x3' \in AnswerSet /\ x3'.text = x3.text /\ x3'.calls = x3.calls
         /\ x3'.thoughts = ts1 /\ x3'.complete = x3.complete
    BY <1>2, <1>3, <1>7 DEF AnswerSet
  <1>13. TheAnswer!BlocksInOrder'
    BY <1>1, <1>2, <1>3, <1>4, <1>7, <1>9, <1>11, <1>12
       DEF TheAnswer!BlocksInOrder, TheAnswer!OpenAi, TheAnswer!Anthropic, Entered
  <1>14. PICK p : p = TheAnswer!After(x7, events)
    OBVIOUS
  <1>15. p = x7
    BY <1>1, <1>14, AfterIs
  <1>16. CallsAgree(x7.calls, x3.calls, x4.ids, x1, x2')
    <2>1. x2.blocks <= x2'.blocks /\ x2'.blocks \in Nat
      BY <1>4
    <2> QED BY <1>4, <1>5, <2>1, CallsFrame
  <1>17. ThoughtsAgree(x7, ts1, sigs1, x2')
    <2>1. CASE x3.thoughts = <<>>
      <3>1. x7.reasoning = <<>> /\ x7.signature = TheAnswer!Nothing /\ x7.redacted = FALSE
        BY <1>5, <2>1 DEF ThoughtsAgree, OutSet
      <3>2. sigs1[index] = TheAnswer!Nothing
        BY <1>9 DEF Entered
      <3> QED BY <1>4, <1>6, <1>7, <3>1, <3>2 DEF ThoughtsAgree
    <2>2. CASE x3.thoughts # <<>>
      BY <1>7, <2>2 DEF ThoughtsAgree
    <2> QED BY <2>1, <2>2
  <1>18. Quiet(events)
    BY <1>1, QuietOnes
  <1>19. /\ p.text = x3'.text /\ p.done = x3'.complete
         /\ CallsAgree(p.calls, x3'.calls, x4'.ids, x1', x2')
         /\ ThoughtsAgree(p, x3'.thoughts, x4'.sigs, x2')
    BY <1>3, <1>5, <1>11, <1>12, <1>15, <1>16, <1>17
  <1> QED BY <1>2, <1>4, <1>11, <1>12, <1>13, <1>14, <1>18, <1>19, FrameKeeps

(* A redacted block.                                                         *)
LEMMA RedactedStarts ==
    ASSUME TheAnswer!StreamsInv, TheAnswer!BlockStart("redacted")
    PROVE  TheAnswer!StreamsInv'
  <1>1. PICK e, f, events, index, new, ts1 :
          /\ index = x2.blocks /\ e = TheAnswer!Ev("reasoning", <<>>, index)
          /\ f = TheAnswer!Ev("redacted", <<>>, index) /\ events = <<e, f>>
          /\ new = [text |-> <<>>, signature |-> index, redacted |-> TRUE]
          /\ ts1 = Append(x3.thoughts, new)
    OBVIOUS
  <1>2. /\ TheAnswer!Anthropic /\ x2.open = TheAnswer!Nothing
        /\ TheAnswer!Arrives({"deltas"}, events)
        /\ x2' = [x2 EXCEPT !.open = index, !.kind = "redacted", !.blocks = @ + 1]
        /\ x3' = [x3 EXCEPT !.thoughts = ts1] /\ x11' = x11
        /\ x4' = [x4 EXCEPT !.ids = @, !.sigs = @]
    BY <1>1 DEF TheAnswer!BlockStart
  <1>3. /\ Before /\ x2 \in ServerSet /\ x3 \in AnswerSet /\ MapperOK(x4)
        /\ x2.stage = "deltas" /\ x1' = x1
    BY <1>2, FrameFinds
  <1>4. x4' = x4
    BY <1>2, <1>3 DEF MapperOK
  <1>5. /\ x2' \in ServerSet /\ index \in Nat /\ index # TheAnswer!Nothing
        /\ x2'.open = index /\ x2'.kind = "redacted"
        /\ x2'.blocks = x2.blocks + 1 /\ x2'.stage = "deltas"
        /\ x2.kind = "none" /\ x2.blocks \in Nat
        /\ ~x3.complete /\ \A i \in DOMAIN x4.sigs : FALSE
    <2>1. "redacted" \in BlockKinds
      BY DEF BlockKinds
    <2> QED BY <1>1, <1>2, <1>3, <2>1, BlockOpens
  <1>6. /\ x7.text = x3.text /\ x7.done = x3.complete /\ x7.calls \in Seq(CallSet)
        /\ x7 \in OutSet /\ x3.thoughts \in Seq(Thought0)
        /\ CallsAgree(x7.calls, x3.calls, x4.ids, x1, x2)
    BY <1>3 DEF Before
  <1>7. new \in Thought0 /\ new.signature = index /\ new.redacted = TRUE
    BY <1>1, <1>5 DEF Thought0
  <1>8. ts1 \in Seq(Thought0) /\ ts1 # <<>> /\ (Len(ts1) = 1 => ts1[1] = new)
    BY <1>1, <1>6, <1>7, MoreThoughts
  <1>9. /\ x3' \in AnswerSet /\ x3'.text = x3.text /\ x3'.calls = x3.calls
        /\ x3'.thoughts = ts1 /\ x3'.complete = x3.complete
    BY <1>2, <1>3, <1>8 DEF AnswerSet
  <1>10. TheAnswer!BlocksInOrder'
    BY <1>1, <1>2, <1>3, <1>4, <1>5, <1>9
       DEF TheAnswer!BlocksInOrder, TheAnswer!OpenAi, TheAnswer!Anthropic
  <1>11. PICK p : p = TheAnswer!After(x7, events)
    OBVIOUS
  <1>12. /\ p.text = x7.text /\ p.calls = x7.calls /\ p.done = x7.done
         /\ p.signature = index /\ p.redacted = TRUE
    <2>1. PICK o : o = TheAnswer!Assembled(x7, e)
      OBVIOUS
    <2>2. /\ e.kind = "reasoning" /\ f.kind = "redacted" /\ f.says = index
      BY <1>1 DEF TheAnswer!Ev
    <2>3. p = TheAnswer!Assembled(o, f)
      BY <1>1, <1>11, <2>1, AfterIs
    <2>4. o = [x7 EXCEPT !.reasoning = Append(@, e.says)]
      BY <2>1, <2>2 DEF TheAnswer!Assembled
    <2>5. p = [o EXCEPT !.signature = f.says, !.redacted = TRUE]
      BY <2>2, <2>3 DEF TheAnswer!Assembled
    <2> QED BY <1>6, <2>2, <2>4, <2>5 DEF OutSet
  <1>13. CallsAgree(x7.calls, x3.calls, x4.ids, x1, x2')
    <2>1. x2.blocks <= x2'.blocks /\ x2'.blocks \in Nat
      BY <1>5
    <2> QED BY <1>5, <1>6, <2>1, CallsFrame
  <1>14. ThoughtsAgree(p, ts1, x4.sigs, x2')
    BY <1>5, <1>7, <1>8, <1>12 DEF ThoughtsAgree
  <1>15. Quiet(events)
    BY <1>1, <1>5, QuietOnes
  <1>16. /\ p.text = x3'.text /\ p.done = x3'.complete
         /\ CallsAgree(p.calls, x3'.calls, x4'.ids, x1', x2')
         /\ ThoughtsAgree(p, x3'.thoughts, x4'.sigs, x2')
    BY <1>3, <1>4, <1>6, <1>9, <1>12, <1>13, <1>14
  <1> QED BY <1>2, <1>3, <1>4, <1>5, <1>9, <1>10, <1>11, <1>15, <1>16, FrameKeeps

(* A fragment of a call's arguments in a messages stream.                    *)
LEMMA ArgumentsKeeps ==
    ASSUME TheAnswer!StreamsInv, TheAnswer!ArgumentsDelta
    PROVE  TheAnswer!StreamsInv'
  <1>1. PICK e, events, n, says, id, calls :
          /\ n = Len(x3.calls) /\ says = <<n - 1, x3.calls[n] + 1>>
          /\ id = x4.ids[x2.open] /\ e = TheAnswer!Ev("call_delta", id, says) /\ events = <<e>>
          /\ calls = [x3.calls EXCEPT ![n] = @ + 1]
    OBVIOUS
  <1>2. /\ TheAnswer!Anthropic /\ x2.open # TheAnswer!Nothing /\ x2.kind = "tool_use"
        /\ TheAnswer!Arrives({"deltas"}, events) /\ x2' = x2 /\ x4' = x4 /\ x11' = x11
    BY <1>1 DEF TheAnswer!ArgumentsDelta, TheAnswer!InBlock
  <1>3. x3' = [x3 EXCEPT !.calls[n] = @ + 1]
    BY <1>1 DEF TheAnswer!ArgumentsDelta
  <1>4. /\ Before /\ x2 \in ServerSet /\ x3 \in AnswerSet /\ MapperOK(x4)
        /\ x2.stage = "deltas" /\ x1' = x1
    BY <1>2, FrameFinds
  <1>5. x3' = [x3 EXCEPT !.calls = calls]
    BY <1>1, <1>3, <1>4 DEF AnswerSet
  <1>6. /\ x7.text = x3.text /\ x7.done = x3.complete /\ x7.calls \in Seq(CallSet)
        /\ x7 \in OutSet /\ x3.calls \in Seq(Nat) /\ x1 = "anthropic"
        /\ Len(x7.calls) = Len(x3.calls)
        /\ CallsAgree(x7.calls, x3.calls, x4.ids, x1, x2)
        /\ ThoughtsAgree(x7, x3.thoughts, x4.sigs, x2)
    BY <1>2, <1>4 DEF Before, TheAnswer!Anthropic
  <1>7. /\ x7.calls # <<>> /\ x7.calls[Len(x7.calls)].id = id
        /\ \A j, k \in 1..Len(x7.calls) : x7.calls[j].id = x7.calls[k].id => j = k
    BY <1>1, <1>2, <1>6 DEF CallsAgree
  <1>8. n \in 1..Len(x7.calls) /\ n = Len(x7.calls) /\ n \in 1..Len(x3.calls)
    <2>1. Len(x7.calls) \in Nat /\ Len(x7.calls) # 0
      BY <1>6, <1>7
    <2> QED BY <1>1, <1>6, <2>1
  <1>9. x7.calls[n].id = id /\ x3.calls[n] \in Nat
    BY <1>6, <1>7, <1>8
  <1>10. calls \in Seq(Nat)
    <2>1. x3.calls[n] + 1 \in Nat
      BY <1>9
    <2> QED BY <1>1, <1>6, <1>8, <2>1
  <1>11. /\ x3' \in AnswerSet /\ x3'.text = x3.text /\ x3'.calls = calls
         /\ x3'.thoughts = x3.thoughts /\ x3'.complete = x3.complete
    BY <1>4, <1>5, <1>10 DEF AnswerSet
  <1>12. e.kind = "call_delta" /\ e.id = id /\ e.says = says /\ says \in Nat \X Nat
    <2>1. n - 1 \in Nat /\ x3.calls[n] + 1 \in Nat
      BY <1>8, <1>9
    <2> QED BY <1>1, <2>1 DEF TheAnswer!Ev
  <1>13. PICK c : c = TheAnswer!WithFragment(x7.calls, e)
    OBVIOUS
  <1>14. GoesTo(x7.calls, says, n, c)
    <2>1. \A j \in 1..Len(x7.calls) : x7.calls[j].id = e.id => j = n
      BY <1>7, <1>8, <1>9, <1>12
    <2>2. GoesTo(x7.calls, e.says, n, c)
      BY <1>6, <1>8, <1>9, <1>12, <1>13, <2>1, FragmentGoes
    <2> QED BY <1>12, <2>2
  <1>15. CallsAgree(c, calls, x4.ids, x1, x2)
    BY <1>1, <1>6, <1>8, <1>14, CallsDelta
  <1>16. PICK p : p = TheAnswer!After(x7, events)
    OBVIOUS
  <1>17. /\ p.text = x7.text /\ p.reasoning = x7.reasoning /\ p.signature = x7.signature
         /\ p.redacted = x7.redacted /\ p.calls = c /\ p.done = x7.done
    <2>1. p = TheAnswer!After(x7, <<e>>)
      BY <1>1, <1>16
    <2> QED BY <1>6, <1>12, <1>13, <2>1, FragmentTold
  <1>18. ThoughtsAgree(p, x3.thoughts, x4.sigs, x2)
    BY <1>6, <1>17, ThoughtsFrame
  <1>19. TheAnswer!BlocksInOrder'
    BY <1>2, <1>4, <1>11 DEF Before, TheAnswer!BlocksInOrder, TheAnswer!OpenAi, TheAnswer!Anthropic
  <1>20. Quiet(events)
    BY <1>1, <1>12, QuietOnes
  <1>21. /\ p.text = x3'.text /\ p.done = x3'.complete
         /\ CallsAgree(p.calls, x3'.calls, x4'.ids, x1', x2')
         /\ ThoughtsAgree(p, x3'.thoughts, x4'.sigs, x2')
         /\ x2' \in ServerSet /\ MapperOK(x4')
    BY <1>2, <1>4, <1>6, <1>11, <1>15, <1>17, <1>18
  <1> QED BY <1>2, <1>11, <1>16, <1>19, <1>20, <1>21, FrameKeeps

(* The last thought becomes another.                                         *)
LEMMA ThoughtChanges ==
    ASSUME x3 \in AnswerSet, x3.thoughts # <<>>, NEW new \in Thought0, TheAnswer!Thinks(new)
    PROVE  /\ x3' \in AnswerSet /\ x3'.text = x3.text /\ x3'.calls = x3.calls
           /\ x3'.complete = x3.complete /\ TheAnswer!LastThought \in Thought0
           /\ Len(x3'.thoughts) = Len(x3.thoughts) /\ x3'.thoughts # <<>>
           /\ Len(x3.thoughts) = 1 =>
                 TheAnswer!LastThought = x3.thoughts[1] /\ x3'.thoughts[1] = new
  <1>1. PICK n, ts : n = Len(x3.thoughts) /\ ts = [x3.thoughts EXCEPT ![n] = new]
    OBVIOUS
  <1>2. x3.thoughts \in Seq(Thought0)
    BY DEF AnswerSet
  <1>3. n \in 1..Len(x3.thoughts) /\ TheAnswer!LastThought \in Thought0
    <2>1. n \in Nat /\ n # 0
      BY <1>1, <1>2
    <2> QED BY <1>1, <1>2, <2>1 DEF TheAnswer!LastThought
  <1>4. ts \in Seq(Thought0) /\ Len(ts) = n /\ ts[n] = new
    BY <1>1, <1>2, <1>3
  <1>5. x3' = [x3 EXCEPT !.thoughts[n] = new]
    BY <1>1 DEF TheAnswer!Thinks
  <1>6. x3' = [x3 EXCEPT !.thoughts = ts]
    BY <1>1, <1>5 DEF AnswerSet
  <1>7. /\ x3' \in AnswerSet /\ x3'.text = x3.text /\ x3'.calls = x3.calls
        /\ x3'.complete = x3.complete /\ x3'.thoughts = ts
    BY <1>4, <1>6 DEF AnswerSet
  <1>8. ts # <<>>
    BY <1>3, <1>4
  <1> QED BY <1>1, <1>3, <1>4, <1>7, <1>8 DEF TheAnswer!LastThought

(* What is known in a thinking block.                                        *)
LEMMA Thinking ==
    ASSUME Before, x3 \in AnswerSet, x2.kind = "thinking", x2.stage = "deltas"
    PROVE  /\ x3.thoughts # <<>> /\ x2.open \in DOMAIN x4.sigs /\ x2.open \in Nat
           /\ \A i \in DOMAIN x4.sigs : i = x2.open
           /\ x2.open # TheAnswer!Nothing /\ TheAnswer!Anthropic /\ ~x3.complete
           /\ Len(x3.thoughts) = 1 =>
                /\ x3.thoughts[1].redacted = FALSE /\ x7.redacted = FALSE
                /\ x7.reasoning = x3.thoughts[1].text /\ x7.signature = TheAnswer!Nothing
                /\ x4.sigs[x2.open] = x3.thoughts[1].signature
  <1>1. /\ x3.thoughts # <<>> /\ x2.open \in DOMAIN x4.sigs
        /\ \A i \in DOMAIN x4.sigs : i = x2.open
        /\ x2.open # TheAnswer!Nothing /\ TheAnswer!Anthropic /\ ~x3.complete
    BY DEF Before, TheAnswer!BlocksInOrder
  <1>2. x2.open \in Nat
    BY <1>1 DEF Before, TheAnswer!BlocksInOrder, TheAnswer!StreamsTypeOK
  <1>3. ASSUME Len(x3.thoughts) = 1
        PROVE  /\ x3.thoughts[1].redacted = FALSE /\ x7.redacted = FALSE
               /\ x7.reasoning = x3.thoughts[1].text /\ x7.signature = TheAnswer!Nothing
               /\ x4.sigs[x2.open] = x3.thoughts[1].signature
    <2>1. PICK thought : thought = x3.thoughts[1]
      OBVIOUS
    <2>2. thought \in Thought0
      BY <1>3, <2>1 DEF AnswerSet
    <2>3. ~thought.redacted /\ x7.redacted = thought.redacted
      BY <1>3, <2>1 DEF Before, ThoughtsAgree
    <2>4. thought.redacted = FALSE
      BY <2>2, <2>3 DEF Thought0
    <2>5. /\ x7.reasoning = thought.text /\ x7.signature = TheAnswer!Nothing
          /\ x4.sigs[x2.open] = thought.signature
      BY <1>3, <2>1, <2>3 DEF Before, ThoughtsAgree
    <2> QED BY <2>1, <2>3, <2>4, <2>5
  <1> QED BY <1>1, <1>2, <1>3

(* A piece of thinking.                                                      *)
LEMMA ThinkingKeeps ==
    ASSUME TheAnswer!StreamsInv, TheAnswer!ThinkingDelta
    PROVE  TheAnswer!StreamsInv'
  <1>1. PICK e, events, new :
          /\ e = TheAnswer!Ev("reasoning", <<>>, x2.open) /\ events = <<e>>
          /\ new = [TheAnswer!LastThought EXCEPT !.text = <<x2.open>>]
    OBVIOUS
  <1>2. /\ x2.kind = "thinking" /\ TheAnswer!LastThought.text = <<>>
        /\ TheAnswer!Arrives({"deltas"}, events) /\ x2' = x2 /\ x4' = x4 /\ x11' = x11
        /\ TheAnswer!Thinks(new)
    BY <1>1 DEF TheAnswer!ThinkingDelta, TheAnswer!InBlock
  <1>3. /\ Before /\ x2 \in ServerSet /\ x3 \in AnswerSet /\ MapperOK(x4)
        /\ x2.stage = "deltas" /\ x1' = x1
    BY <1>2, FrameFinds
  <1>4. /\ x3.thoughts # <<>> /\ x2.open \in DOMAIN x4.sigs /\ x2.open \in Nat
        /\ \A i \in DOMAIN x4.sigs : i = x2.open
        /\ x2.open # TheAnswer!Nothing /\ TheAnswer!Anthropic /\ ~x3.complete
        /\ Len(x3.thoughts) = 1 =>
             /\ x3.thoughts[1].redacted = FALSE /\ x7.redacted = FALSE
             /\ x7.reasoning = x3.thoughts[1].text /\ x7.signature = TheAnswer!Nothing
             /\ x4.sigs[x2.open] = x3.thoughts[1].signature
    BY <1>2, <1>3, Thinking
  <1>5. TheAnswer!LastThought \in Thought0
    <2>1. x3.thoughts \in Seq(Thought0) /\ Len(x3.thoughts) \in 1..Len(x3.thoughts)
      BY <1>3, <1>4 DEF AnswerSet
    <2> QED BY <2>1 DEF TheAnswer!LastThought
  <1>6. /\ new \in Thought0 /\ new.text = <<x2.open>>
        /\ new.signature = TheAnswer!LastThought.signature
        /\ new.redacted = TheAnswer!LastThought.redacted
    <2>1. <<x2.open>> \in Seq(Nat)
      BY <1>4
    <2>2. PICK last, text : last = TheAnswer!LastThought /\ text = <<x2.open>>
      OBVIOUS
    <2>3. new = [text |-> text, signature |-> last.signature, redacted |-> last.redacted]
      BY <1>1, <1>5, <2>2 DEF Thought0
    <2> QED BY <1>5, <2>1, <2>2, <2>3 DEF Thought0
  <1>7. /\ x3' \in AnswerSet /\ x3'.text = x3.text /\ x3'.calls = x3.calls
        /\ x3'.complete = x3.complete
        /\ Len(x3'.thoughts) = Len(x3.thoughts) /\ x3'.thoughts # <<>>
        /\ Len(x3.thoughts) = 1 => TheAnswer!LastThought = x3.thoughts[1] /\ x3'.thoughts[1] = new
    BY <1>2, <1>3, <1>4, <1>6, ThoughtChanges
  <1>8. /\ x7.text = x3.text /\ x7.done = x3.complete /\ x7 \in OutSet
        /\ CallsAgree(x7.calls, x3.calls, x4.ids, x1, x2)
    BY <1>3 DEF Before
  <1>9. PICK p : p = TheAnswer!After(x7, events)
    OBVIOUS
  <1>10. /\ p.text = x7.text /\ p.reasoning = Append(x7.reasoning, x2.open)
         /\ p.signature = x7.signature
         /\ p.redacted = x7.redacted /\ p.calls = x7.calls /\ p.done = x7.done
    <2>1. p = TheAnswer!After(x7, <<e>>) /\ e.kind = "reasoning" /\ e.says = x2.open
      BY <1>1, <1>9 DEF TheAnswer!Ev
    <2> QED BY <1>8, <2>1, ReasoningTold
  <1>11. ThoughtsAgree(p, x3'.thoughts, x4.sigs, x2)
    <2>1. PICK ts : ts = x3'.thoughts
      OBVIOUS
    <2>2. ts # <<>>
      BY <1>7, <2>1
    <2>3. ASSUME Len(ts) = 1
          PROVE  /\ ts[1] = new /\ new.redacted = FALSE /\ p.redacted = FALSE
                 /\ p.reasoning = new.text /\ p.signature = TheAnswer!Nothing
                 /\ x4.sigs[x2.open] = new.signature
      <3>1. Len(x3.thoughts) = 1
        BY <1>7, <2>1, <2>3
      <3>2. Append(<<>>, x2.open) = <<x2.open>>
        OBVIOUS
      <3>3. ts[1] = new /\ TheAnswer!LastThought = x3.thoughts[1]
        BY <1>7, <2>1, <3>1
      <3>4. /\ x3.thoughts[1].redacted = FALSE /\ x7.redacted = FALSE
            /\ x7.reasoning = <<>> /\ x7.signature = TheAnswer!Nothing
            /\ x4.sigs[x2.open] = x3.thoughts[1].signature
        BY <1>2, <1>4, <3>1, <3>3
      <3>5. /\ new.redacted = FALSE /\ new.text = <<x2.open>>
            /\ x4.sigs[x2.open] = new.signature
        BY <1>6, <3>3, <3>4
      <3>6. /\ p.redacted = FALSE /\ p.reasoning = <<x2.open>>
            /\ p.signature = TheAnswer!Nothing
        BY <1>10, <3>2, <3>4
      <3> QED BY <3>3, <3>5, <3>6
    <2>4. ThoughtsAgree(p, ts, x4.sigs, x2)
      BY <1>2, <2>2, <2>3 DEF ThoughtsAgree
    <2> QED BY <2>1, <2>4
  <1>12. TheAnswer!BlocksInOrder'
    BY <1>2, <1>3, <1>7 DEF Before, TheAnswer!BlocksInOrder, TheAnswer!OpenAi, TheAnswer!Anthropic
  <1>13. Quiet(events)
    BY <1>1, <1>4, QuietOnes
  <1>14. /\ p.text = x3'.text /\ p.done = x3'.complete
         /\ CallsAgree(p.calls, x3'.calls, x4'.ids, x1', x2')
         /\ ThoughtsAgree(p, x3'.thoughts, x4'.sigs, x2')
         /\ x2' \in ServerSet /\ MapperOK(x4')
    BY <1>2, <1>3, <1>7, <1>8, <1>10, <1>11
  <1> QED BY <1>2, <1>7, <1>9, <1>12, <1>13, <1>14, FrameKeeps

(* A thought's signature.                                                    *)
LEMMA SignatureKeeps ==
    ASSUME TheAnswer!StreamsInv, TheAnswer!SignatureDelta
    PROVE  TheAnswer!StreamsInv'
  <1>1. PICK events, new, sigs1 :
          /\ events = <<>> /\ new = [TheAnswer!LastThought EXCEPT !.signature = x2.open]
          /\ sigs1 = TheAnswer!With(x4.sigs, x2.open, x2.open)
    OBVIOUS
  <1>2. /\ x2.kind = "thinking" /\ TheAnswer!Arrives({"deltas"}, events) /\ x2' = x2
        /\ x4' = [x4 EXCEPT !.sigs = sigs1] /\ x11' = x11 /\ TheAnswer!Thinks(new)
    BY <1>1 DEF TheAnswer!SignatureDelta, TheAnswer!InBlock
  <1>3. /\ Before /\ x2 \in ServerSet /\ x3 \in AnswerSet /\ MapperOK(x4)
        /\ x2.stage = "deltas" /\ x1' = x1
    BY <1>2, FrameFinds
  <1>4. /\ x3.thoughts # <<>> /\ x2.open \in DOMAIN x4.sigs /\ x2.open \in Nat
        /\ \A i \in DOMAIN x4.sigs : i = x2.open
        /\ x2.open # TheAnswer!Nothing /\ TheAnswer!Anthropic /\ ~x3.complete
        /\ Len(x3.thoughts) = 1 =>
             /\ x3.thoughts[1].redacted = FALSE /\ x7.redacted = FALSE
             /\ x7.reasoning = x3.thoughts[1].text /\ x7.signature = TheAnswer!Nothing
             /\ x4.sigs[x2.open] = x3.thoughts[1].signature
    BY <1>2, <1>3, Thinking
  <1>5. TheAnswer!LastThought \in Thought0
    <2>1. x3.thoughts \in Seq(Thought0) /\ Len(x3.thoughts) \in 1..Len(x3.thoughts)
      BY <1>3, <1>4 DEF AnswerSet
    <2> QED BY <2>1 DEF TheAnswer!LastThought
  <1>6. /\ new \in Thought0 /\ new.text = TheAnswer!LastThought.text
        /\ new.signature = x2.open /\ new.redacted = TheAnswer!LastThought.redacted
    <2>1. PICK last, sig : last = TheAnswer!LastThought /\ sig = x2.open
      OBVIOUS
    <2>2. new = [text |-> last.text, signature |-> sig, redacted |-> last.redacted]
      BY <1>1, <1>5, <2>1 DEF Thought0
    <2>3. sig \in Int
      BY <1>4, <2>1
    <2> QED BY <1>5, <2>1, <2>2, <2>3 DEF Thought0
  <1>7. /\ x3' \in AnswerSet /\ x3'.text = x3.text /\ x3'.calls = x3.calls
        /\ x3'.complete = x3.complete
        /\ Len(x3'.thoughts) = Len(x3.thoughts) /\ x3'.thoughts # <<>>
        /\ Len(x3.thoughts) = 1 => TheAnswer!LastThought = x3.thoughts[1] /\ x3'.thoughts[1] = new
    BY <1>2, <1>3, <1>4, <1>6, ThoughtChanges
  <1>8. /\ x7.text = x3.text /\ x7.done = x3.complete /\ x7 \in OutSet
        /\ CallsAgree(x7.calls, x3.calls, x4.ids, x1, x2)
    BY <1>3 DEF Before
  <1>9. PICK p : p = TheAnswer!After(x7, events)
    OBVIOUS
  <1>10. p = x7
    BY <1>1, <1>9, AfterIs
  <1>11. /\ DOMAIN sigs1 = DOMAIN x4.sigs /\ sigs1[x2.open] = x2.open
    <2>1. Entered(x4.sigs, x2.open, x2.open, sigs1)
      BY <1>1, WithIs
    <2> QED BY <1>4, <2>1 DEF Entered
  <1>12. x4' = [ids |-> x4.ids, sigs |-> sigs1, finished |-> x4.finished]
    BY <1>2, <1>3 DEF MapperOK
  <1>13. MapperOK(x4') /\ x4'.ids = x4.ids /\ x4'.sigs = sigs1
    <2>1. \A i \in DOMAIN sigs1 : sigs1[i] \in Int
      BY <1>4, <1>11
    <2> QED BY <1>3, <1>12, <2>1 DEF MapperOK
  <1>14. ThoughtsAgree(p, x3'.thoughts, sigs1, x2)
    <2>1. PICK ts : ts = x3'.thoughts
      OBVIOUS
    <2>2. ts # <<>>
      BY <1>7, <2>1
    <2>3. ASSUME Len(ts) = 1
          PROVE  /\ ts[1] = new /\ new.redacted = FALSE /\ p.redacted = FALSE
                 /\ p.reasoning = new.text /\ p.signature = TheAnswer!Nothing
                 /\ sigs1[x2.open] = new.signature
      <3>1. Len(x3.thoughts) = 1
        BY <1>7, <2>1, <2>3
      <3> QED BY <1>4, <1>6, <1>7, <1>10, <1>11, <2>1, <3>1
    <2>4. ThoughtsAgree(p, ts, sigs1, x2)
      BY <1>2, <2>2, <2>3 DEF ThoughtsAgree
    <2> QED BY <2>1, <2>4
  <1>15. TheAnswer!BlocksInOrder'
    BY <1>2, <1>3, <1>4, <1>7, <1>11, <1>13
       DEF Before, TheAnswer!BlocksInOrder, TheAnswer!OpenAi, TheAnswer!Anthropic
  <1>16. Quiet(events)
    BY <1>1, QuietOnes
  <1>17. /\ p.text = x3'.text /\ p.done = x3'.complete
         /\ CallsAgree(p.calls, x3'.calls, x4'.ids, x1', x2')
         /\ ThoughtsAgree(p, x3'.thoughts, x4'.sigs, x2')
         /\ x2' \in ServerSet
    BY <1>2, <1>3, <1>7, <1>8, <1>10, <1>13, <1>14
  <1> QED BY <1>2, <1>7, <1>9, <1>13, <1>15, <1>16, <1>17, FrameKeeps

(* A block closes.                                                           *)
LEMMA BlockStopKeeps ==
    ASSUME TheAnswer!StreamsInv, TheAnswer!BlockStop
    PROVE  TheAnswer!StreamsInv'
  <1>1. PICK e, events, open, sigs1 :
          /\ open = x2.open /\ e = TheAnswer!Ev("signature", <<>>, x4.sigs[open])
          /\ events = TheAnswer!Flushed(x4, open) /\ sigs1 = TheAnswer!Without(x4.sigs, open)
    OBVIOUS
  <1>2. /\ TheAnswer!Anthropic /\ open # TheAnswer!Nothing /\ TheAnswer!Arrives({"deltas"}, events)
        /\ x2.kind = "thinking" => TheAnswer!LastThought.signature # TheAnswer!Nothing
        /\ x2' = [x2 EXCEPT !.open = TheAnswer!Nothing, !.kind = "none"]
        /\ x4' = [x4 EXCEPT !.sigs = sigs1] /\ x3' = x3 /\ x11' = x11
    BY <1>1 DEF TheAnswer!BlockStop
  <1>3. /\ Before /\ x2 \in ServerSet /\ x3 \in AnswerSet /\ MapperOK(x4)
        /\ x2.stage = "deltas" /\ x1' = x1
    BY <1>2, FrameFinds
  <1>4. events = IF open \in DOMAIN x4.sigs THEN <<e>> ELSE <<>>
    BY <1>1 DEF TheAnswer!Flushed, TheAnswer!Knows
  <1>5. /\ x2' \in ServerSet /\ x2'.open = TheAnswer!Nothing /\ x2'.kind = "none"
        /\ x2'.blocks = x2.blocks /\ x2'.stage = x2.stage
        /\ x2.blocks \in Nat
    <2>1. x2' = [stage |-> x2.stage, open |-> TheAnswer!Nothing, kind |-> "none",
                 blocks |-> x2.blocks, over |-> x2.over]
      BY <1>2, <1>3 DEF ServerSet
    <2>2. TheAnswer!Nothing \in Int
      BY DEF TheAnswer!Nothing
    <2> QED BY <1>3, <2>1, <2>2 DEF ServerSet
  <1>6. /\ x7.text = x3.text /\ x7.done = x3.complete /\ x7 \in OutSet
        /\ x7.calls \in Seq(CallSet)
        /\ CallsAgree(x7.calls, x3.calls, x4.ids, x1, x2)
        /\ ThoughtsAgree(x7, x3.thoughts, x4.sigs, x2)
    BY <1>3 DEF Before
  <1>7. /\ \A i \in DOMAIN x4.sigs : x2.kind = "thinking" /\ i = open
        /\ ~x3.complete /\ (x2.kind = "thinking" => open \in DOMAIN x4.sigs)
    BY <1>1, <1>3 DEF Before, TheAnswer!BlocksInOrder
  <1>8. \A i \in DOMAIN sigs1 : FALSE
    BY <1>1, <1>7 DEF TheAnswer!Without
  <1>9. x4' = [ids |-> x4.ids, sigs |-> sigs1, finished |-> x4.finished]
    BY <1>2, <1>3 DEF MapperOK
  <1>10. MapperOK(x4') /\ x4'.ids = x4.ids /\ x4'.sigs = sigs1
    BY <1>3, <1>8, <1>9 DEF MapperOK
  <1>11. TheAnswer!BlocksInOrder'
    BY <1>2, <1>3, <1>5, <1>7, <1>8, <1>10
       DEF TheAnswer!BlocksInOrder, TheAnswer!OpenAi, TheAnswer!Anthropic
  <1>12. CallsAgree(x7.calls, x3.calls, x4.ids, x1, x2')
    <2>1. x2.blocks <= x2'.blocks /\ x2'.blocks \in Nat
      BY <1>5
    <2> QED BY <1>5, <1>6, <2>1, CallsFrame
  <1>13. PICK p : p = TheAnswer!After(x7, events)
    OBVIOUS
  <1>14. /\ p.text = x7.text /\ p.calls = x7.calls /\ p.done = x7.done
         /\ ThoughtsAgree(p, x3.thoughts, sigs1, x2')
    <2>1. CASE open \in DOMAIN x4.sigs
      <3>1. p = TheAnswer!After(x7, <<e>>) /\ e.kind = "signature" /\ e.says = x4.sigs[open]
        BY <1>1, <1>4, <1>13, <2>1 DEF TheAnswer!Ev
      <3>2. /\ p.text = x7.text /\ p.reasoning = x7.reasoning /\ p.signature = x4.sigs[open]
            /\ p.redacted = FALSE /\ p.calls = x7.calls /\ p.done = x7.done
        <4>1. p = TheAnswer!Assembled(x7, e)
          BY <3>1, AfterIs
        <4> QED BY <1>6, <3>1, <4>1 DEF TheAnswer!Assembled, OutSet
      <3>3. x2.kind = "thinking"
        BY <1>7, <2>1
      <3>4. /\ x3.thoughts # <<>>
            /\ Len(x3.thoughts) = 1 =>
                 /\ x3.thoughts[1].redacted = FALSE
                 /\ x7.reasoning = x3.thoughts[1].text
                 /\ x4.sigs[open] = x3.thoughts[1].signature
        BY <1>1, <1>3, <3>3, Thinking
      <3>5. PICK ts : ts = x3.thoughts
        OBVIOUS
      <3>6. ASSUME Len(ts) = 1
            PROVE  /\ ts[1].redacted = FALSE /\ p.reasoning = ts[1].text
                   /\ p.signature = ts[1].signature /\ p.signature # TheAnswer!Nothing
        <4>1. TheAnswer!LastThought = ts[1]
          BY <3>5, <3>6 DEF TheAnswer!LastThought
        <4> QED BY <1>2, <3>2, <3>3, <3>4, <3>5, <3>6, <4>1
      <3>7. ThoughtsAgree(p, ts, sigs1, x2')
        BY <1>5, <3>2, <3>4, <3>5, <3>6 DEF ThoughtsAgree, TheAnswer!HasReasoning
      <3> QED BY <3>2, <3>5, <3>7
    <2>2. CASE open \notin DOMAIN x4.sigs
      <3>1. p = x7
        BY <1>4, <1>13, <2>2, AfterIs
      <3>2. x2.kind # "thinking"
        BY <1>7, <2>2
      <3>3. ThoughtsAgree(x7, x3.thoughts, sigs1, x2')
        BY <1>5, <1>6, <3>2, ThoughtsFrame
      <3> QED BY <3>1, <3>3
    <2> QED BY <2>1, <2>2
  <1>15. Quiet(events)
    <2>1. open \in DOMAIN x4.sigs => x4.sigs[open] \in Int
      BY <1>3 DEF MapperOK
    <2> QED BY <1>1, <1>4, <2>1, QuietOnes
  <1>16. /\ p.text = x3'.text /\ p.done = x3'.complete
         /\ CallsAgree(p.calls, x3'.calls, x4'.ids, x1', x2')
         /\ ThoughtsAgree(p, x3'.thoughts, x4'.sigs, x2')
         /\ x3' \in AnswerSet
    BY <1>2, <1>3, <1>6, <1>10, <1>12, <1>14
  <1> QED BY <1>2, <1>5, <1>10, <1>11, <1>13, <1>15, <1>16, FrameKeeps

(* The parts of the invariant.                                               *)
LEMMA InvIs ==
    ASSUME TheAnswer!StreamsInv
    PROVE  /\ TheAnswer!StreamsTypeOK /\ TheAnswer!QueueInOrder /\ TheAnswer!BlocksInOrder
           /\ TheAnswer!Told(TheAnswer!After(x7, x5))
           /\ x8 # "interrupted" => TheAnswer!UsageFollows
           /\ x2 \in ServerSet /\ x3 \in AnswerSet /\ MapperOK(x4) /\ x7 \in OutSet
           /\ x1 \in TheAnswer!Wires /\ x9 \in Nat /\ x6 \in BOOLEAN
           /\ x11 \in [reported : Nat, counted : Nat]
  <1>1. TheAnswer!StreamsTypeOK
    BY DEF TheAnswer!StreamsInv
  <1>2. x7 \in OutSet
    BY <1>1 DEF TheAnswer!StreamsTypeOK, OutSet, CallSet
  <1> QED BY <1>1, <1>2, TypesAre DEF TheAnswer!StreamsInv, TheAnswer!StreamsTypeOK

(* A fragment keeps the calls of their type.                                 *)
LEMMA FragmentType ==
    ASSUME NEW calls \in Seq(CallSet), NEW e, e.says \in Nat \X Nat
    PROVE  TheAnswer!WithFragment(calls, e) \in Seq(CallSet)
  <1>1. PICK c : c = TheAnswer!WithFragment(calls, e)
    OBVIOUS
  <1>2. DOMAIN calls = 1..Len(calls) /\ Len(calls) \in Nat
    OBVIOUS
  <1>3. ASSUME NEW one \in CallSet PROVE TheAnswer!AppendTo(one, e) \in CallSet
    <2>1. PICK args : args = Append(one.args, e.says)
      OBVIOUS
    <2>2. args \in Seq(Nat \X Nat) /\ one.id \in TheAnswer!Ids
      BY <2>1 DEF CallSet
    <2>3. [one EXCEPT !.args = args] = [id |-> one.id, args |-> args]
      <3>1. PICK x, y : one = [id |-> x, args |-> y]
        BY DEF CallSet
      <3> QED BY <3>1
    <2>4. [id |-> one.id, args |-> args] \in CallSet
      BY <2>2 DEF CallSet
    <2> QED BY <2>1, <2>3, <2>4 DEF TheAnswer!AppendTo
  <1>4. \A i \in 1..Len(calls) : c[i] \in CallSet
    <2> TAKE i \in 1..Len(calls)
    <2>1. calls[i] \in CallSet /\ TheAnswer!AppendTo(calls[i], e) \in CallSet
      BY <1>3
    <2>2. c[i] = TheAnswer!AppendTo(calls[i], e) \/ c[i] = calls[i]
      BY <1>1, <1>2 DEF TheAnswer!WithFragment
    <2> QED BY <2>1, <2>2
  <1>5. c = [i \in 1..Len(calls) |-> c[i]]
    BY <1>1, <1>2 DEF TheAnswer!WithFragment
  <1>6. c \in [1..Len(calls) -> CallSet]
    BY <1>4, <1>5
  <1> QED BY <1>1, <1>2, <1>6

(* An event keeps the engine's state of its type.                            *)
LEMMA TakenType ==
    ASSUME NEW o \in OutSet, NEW e, TheAnswer!EventOK(e)
    PROVE  TheAnswer!Assembled(o, e) \in OutSet
  <1>1. PICK r : r = TheAnswer!Assembled(o, e)
    OBVIOUS
  <1>2. o.calls \in Seq(CallSet) /\ o.reasoning \in Seq(Nat) /\ o.text \in Nat /\ o.signature \in Int
    BY DEF OutSet
  <1>3. CASE e.kind = "text"
    <2>1. r = [o EXCEPT !.text = @ + 1] /\ o.text + 1 \in Nat
      BY <1>1, <1>2, <1>3 DEF TheAnswer!Assembled
    <2> QED BY <1>1, <2>1 DEF OutSet
  <1>4. CASE e.kind = "reasoning"
    <2>1. PICK x : x = Append(o.reasoning, e.says)
      OBVIOUS
    <2>2. x \in Seq(Nat)
      BY <1>2, <1>4, <2>1 DEF TheAnswer!EventOK
    <2>3. r = [o EXCEPT !.reasoning = x]
      BY <1>1, <1>4, <2>1 DEF TheAnswer!Assembled
    <2> QED BY <1>1, <2>2, <2>3 DEF OutSet
  <1>5. CASE e.kind \in {"signature", "redacted"}
    <2>1. \E b \in BOOLEAN : r = [o EXCEPT !.signature = e.says, !.redacted = b]
      BY <1>1, <1>5 DEF TheAnswer!Assembled
    <2>2. e.says \in Int
      BY <1>5 DEF TheAnswer!EventOK
    <2> QED BY <1>1, <2>1, <2>2 DEF OutSet
  <1>6. CASE e.kind = "call_start"
    <2>1. PICK new, c : new = [id |-> e.id, args |-> <<>>] /\ c = Append(o.calls, new)
      OBVIOUS
    <2>2. new \in CallSet
      BY <1>6, <2>1 DEF TheAnswer!EventOK, CallSet
    <2>3. c \in Seq(CallSet)
      BY <1>2, <2>1, <2>2
    <2>4. r = [o EXCEPT !.calls = c]
      BY <1>1, <1>6, <2>1 DEF TheAnswer!Assembled
    <2> QED BY <1>1, <2>3, <2>4 DEF OutSet
  <1>7. CASE e.kind = "call_delta"
    <2>1. PICK c : c = TheAnswer!WithFragment(o.calls, e)
      OBVIOUS
    <2>2. c \in Seq(CallSet)
      BY <1>2, <1>7, <2>1, FragmentType DEF TheAnswer!EventOK
    <2>3. r = [o EXCEPT !.calls = c]
      BY <1>1, <1>7, <2>1 DEF TheAnswer!Assembled
    <2> QED BY <1>1, <2>2, <2>3 DEF OutSet
  <1>8. CASE e.kind = "done"
    <2>1. r = [o EXCEPT !.done = TRUE]
      BY <1>1, <1>8 DEF TheAnswer!Assembled
    <2> QED BY <1>1, <2>1 DEF OutSet
  <1>9. CASE e.kind \notin {"text", "reasoning", "signature", "redacted", "call_start",
                            "call_delta", "done"}
    BY <1>9 DEF TheAnswer!Assembled
  <1> QED BY <1>3, <1>4, <1>5, <1>6, <1>7, <1>8, <1>9

(* What is told of a state is told of it after a step of the engine.         *)
LEMMA ToldStays ==
    ASSUME NEW o, o = TheAnswer!After(x7, x5), o = TheAnswer!After(x7, x5)',
           TheAnswer!Told(TheAnswer!After(x7, x5)),
           UNCHANGED <<x1, x2, x3, x4>>
    PROVE  TheAnswer!Told(TheAnswer!After(x7, x5))'
  <1>1. TheAnswer!Told(o)
    BY ToldBy
  <1>2. TheAnswer!CallsTold(o)'
    BY <1>1, CallsToldIs, CallsToldNext DEF TheAnswer!Told
  <1>3. TheAnswer!ThoughtsTold(o)'
    BY <1>1, ThoughtsToldIs, ThoughtsToldNext DEF TheAnswer!Told
  <1>4. TheAnswer!Told(o)'
    BY <1>1, <1>2, <1>3 DEF TheAnswer!Told
  <1> QED BY <1>4, ToldOf

(* The first of the events that wait, and the other.                         *)
LEMMA Waiting ==
    ASSUME TheAnswer!QueueInOrder, x5 # <<>>
    PROVE  \/ \E e : x5 = <<e>> /\ TheAnswer!EventOK(e) /\ Head(x5) = e /\ Tail(x5) = <<>>
           \/ \E e, f : /\ x5 = <<e, f>> /\ TheAnswer!EventOK(e) /\ TheAnswer!EventOK(f)
                        /\ e.kind \in {"call_start", "reasoning"}
                        /\ f.kind \in {"call_delta", "redacted"}
                        /\ Head(x5) = e /\ Tail(x5) = <<f>>
  <1>1. ASSUME NEW e, x5 = <<e>>, TheAnswer!EventOK(e)
        PROVE  Head(x5) = e /\ Tail(x5) = <<>>
    BY <1>1
  <1>2. ASSUME NEW e, NEW f, x5 = <<e, f>> PROVE Head(x5) = e /\ Tail(x5) = <<f>>
    <2>1. Head(x5) = e
      BY <1>2
    <2>2. PICK s : s = Tail(x5)
      OBVIOUS
    <2>3. /\ x5 \in Seq({e, f}) /\ Len(x5) = 2 /\ x5[2] = f
      BY <1>2
    <2>4. s \in Seq({e, f}) /\ Len(s) = 1 /\ s[1] = f
      <3>1. s = Tail(x5) /\ x5 # <<>>
        BY <1>2, <2>2
      <3>2. s \in Seq({e, f}) /\ Len(s) = 1
        BY <2>3, <3>1
      <3>3. s[1] = x5[1 + 1] /\ 1 \in 1..Len(s)
        BY <2>3, <3>1, <3>2, HeadTailProperties
      <3> QED BY <2>3, <3>2, <3>3
    <2>5. <<f>> \in Seq({e, f}) /\ Len(<<f>>) = 1 /\ <<f>>[1] = f
      OBVIOUS
    <2>6. \A k \in 1..1 : s[k] = <<f>>[k]
      BY <2>4, <2>5
    <2>7. s = <<f>>
      BY <2>4, <2>5, <2>6, SeqEqual
    <2> QED BY <2>1, <2>2, <2>7
  <1> QED BY <1>1, <1>2 DEF TheAnswer!QueueInOrder

(* The engine takes an event.                                                *)
LEMMA TakeKeeps ==
    ASSUME TheAnswer!StreamsInv,
           TheAnswer!TakeEvent
    PROVE  TheAnswer!StreamsInv'
  <1>1. /\ x8 = "streaming" /\ x5 # <<>> /\ x5' = Tail(x5)
        /\ Head(x5).kind # "error" /\ x7' = TheAnswer!Assembled(x7, Head(x5))
        /\ x11' = IF Head(x5).kind = "usage" THEN [x11 EXCEPT !.counted = @ + 1] ELSE x11
        /\ x1' = x1 /\ x2' = x2 /\ x3' = x3 /\ x4' = x4
        /\ x6' = x6 /\ x8' = x8 /\ x9' = x9
    BY DEF TheAnswer!TakeEvent, TheAnswer!Taking
  <1>2. /\ TheAnswer!StreamsTypeOK /\ TheAnswer!QueueInOrder /\ TheAnswer!BlocksInOrder
        /\ TheAnswer!Told(TheAnswer!After(x7, x5))
        /\ x8 # "interrupted" => TheAnswer!UsageFollows
        /\ x2 \in ServerSet /\ x3 \in AnswerSet /\ MapperOK(x4) /\ x7 \in OutSet
        /\ x1 \in TheAnswer!Wires /\ x9 \in Nat /\ x6 \in BOOLEAN
        /\ x11 \in [reported : Nat, counted : Nat]
    BY InvIs
  <1>3. PICK e, o, r : e = Head(x5) /\ o = TheAnswer!After(x7, x5) /\ r = TheAnswer!Assembled(x7, e)
    OBVIOUS
  <1>4. /\ TheAnswer!EventOK(e) /\ o = TheAnswer!After(r, Tail(x5))
        /\ \/ Tail(x5) = <<>>
           \/ \E f : Tail(x5) = <<f>> /\ TheAnswer!EventOK(f) /\ f.kind # "usage"
    <2>1. CASE \E x : x5 = <<x>> /\ TheAnswer!EventOK(x) /\ Head(x5) = x /\ Tail(x5) = <<>>
      BY <1>3, <2>1, AfterIs
    <2>2. CASE \E x, f : /\ x5 = <<x, f>> /\ TheAnswer!EventOK(x) /\ TheAnswer!EventOK(f)
                         /\ x.kind \in {"call_start", "reasoning"}
                         /\ f.kind \in {"call_delta", "redacted"}
                         /\ Head(x5) = x /\ Tail(x5) = <<f>>
      <3>1. PICK f : /\ x5 = <<e, f>> /\ TheAnswer!EventOK(e) /\ TheAnswer!EventOK(f)
                     /\ Tail(x5) = <<f>>
                     /\ f.kind \in {"call_delta", "redacted"}
        BY <1>3, <2>2
      <3>2. o = TheAnswer!Assembled(r, f)
        BY <1>3, <3>1, AfterIs
      <3>3. TheAnswer!After(r, <<f>>) = TheAnswer!Assembled(r, f)
        BY AfterIs
      <3> QED BY <3>1, <3>2, <3>3
    <2> QED BY <1>1, <1>2, <2>1, <2>2, Waiting
  <1>5. x7' = r /\ r \in OutSet
    BY <1>1, <1>2, <1>3, <1>4, TakenType
  <1>6. o = TheAnswer!After(x7, x5)'
    BY <1>1, <1>4, <1>5
  <1>7. TheAnswer!Told(TheAnswer!After(x7, x5))'
    BY <1>1, <1>2, <1>3, <1>6, ToldStays
  <1>8. TheAnswer!QueueInOrder'
    BY <1>1, <1>4 DEF TheAnswer!QueueInOrder
  <1>9. x11' \in [reported : Nat, counted : Nat]
    BY <1>1, <1>2
  <1>10. TheAnswer!UsageFollows'
    <2>1. x5' # <<>> => Head(x5').kind # "usage"
      <3>1. CASE Tail(x5) = <<>>
        BY <1>1, <3>1
      <3>2. ASSUME NEW f, Tail(x5) = <<f>>, f.kind # "usage" PROVE Head(x5').kind # "usage"
        <4>1. Head(<<f>>) = f
          OBVIOUS
        <4> QED BY <1>1, <3>2, <4>1
      <3> QED BY <1>4, <3>1, <3>2
    <2>2. x11.reported = x11.counted + IF e.kind = "usage" THEN 1 ELSE 0
      BY <1>1, <1>2, <1>3 DEF TheAnswer!UsageFollows
    <2>3. x11'.reported = x11'.counted
      BY <1>1, <1>2, <1>3, <2>2
    <2> QED BY <1>9, <2>1, <2>3 DEF TheAnswer!UsageFollows
  <1>11. TheAnswer!StreamsTypeOK'
    BY <1>1, <1>2, <1>5, <1>9, TypesNext
  <1>12. TheAnswer!BlocksInOrder'
    BY <1>1, <1>2 DEF TheAnswer!BlocksInOrder, TheAnswer!OpenAi, TheAnswer!Anthropic
  <1> QED BY <1>1, <1>7, <1>8, <1>10, <1>11, <1>12 DEF TheAnswer!StreamsInv

(* The turn ends in an error that came.                                      *)
LEMMA ErrorKeeps ==
    ASSUME TheAnswer!StreamsInv, TheAnswer!TakeError
    PROVE  TheAnswer!StreamsInv'
  <1>1. /\ x8 = "streaming" /\ x5 # <<>> /\ x5' = Tail(x5)
        /\ Head(x5).kind = "error" /\ x7' = x7 /\ x11' = x11 /\ x8' = "errored"
        /\ x1' = x1 /\ x2' = x2 /\ x3' = x3 /\ x4' = x4
        /\ x6' = x6 /\ x9' = x9
    BY DEF TheAnswer!TakeError, TheAnswer!Taking
  <1>2. /\ TheAnswer!StreamsTypeOK /\ TheAnswer!QueueInOrder /\ TheAnswer!BlocksInOrder
        /\ TheAnswer!Told(TheAnswer!After(x7, x5))
        /\ x8 # "interrupted" => TheAnswer!UsageFollows
        /\ x2 \in ServerSet /\ x3 \in AnswerSet /\ MapperOK(x4) /\ x7 \in OutSet
        /\ x1 \in TheAnswer!Wires /\ x9 \in Nat /\ x6 \in BOOLEAN
        /\ x11 \in [reported : Nat, counted : Nat]
    BY InvIs
  <1>3. PICK e : x5 = <<e>> /\ e.kind = "error" /\ Tail(x5) = <<>>
    BY <1>1, <1>2, Waiting
  <1>4. PICK o : o = TheAnswer!After(x7, x5)
    OBVIOUS
  <1>5. o = x7
    <2>1. o = TheAnswer!Assembled(x7, e)
      BY <1>3, <1>4, AfterIs
    <2> QED BY <1>3, <2>1 DEF TheAnswer!Assembled
  <1>6. o = TheAnswer!After(x7, x5)'
    BY <1>1, <1>3, <1>5, AfterIs
  <1>7. TheAnswer!Told(TheAnswer!After(x7, x5))'
    BY <1>1, <1>2, <1>4, <1>6, ToldStays
  <1>8. TheAnswer!QueueInOrder'
    BY <1>1, <1>3 DEF TheAnswer!QueueInOrder
  <1>9. TheAnswer!UsageFollows'
    BY <1>1, <1>2, <1>3 DEF TheAnswer!UsageFollows
  <1>10. TheAnswer!StreamsTypeOK'
    BY <1>1, <1>2, TypesNext
  <1>11. TheAnswer!BlocksInOrder'
    BY <1>1, <1>2 DEF TheAnswer!BlocksInOrder, TheAnswer!OpenAi, TheAnswer!Anthropic
  <1> QED BY <1>1, <1>7, <1>8, <1>9, <1>10, <1>11 DEF TheAnswer!StreamsInv

(* The turn ends, and nothing is taken.                                      *)
LEMMA EndKeeps ==
    ASSUME TheAnswer!StreamsInv,
           UNCHANGED <<x1, x2, x3, x4, x5, x6, x7, x11>>,
           x9' \in Nat, x8 = "streaming",
           x8' = "committed" =>
               x7.done /\ x5 = <<>> /\ x2.over /\ x10' = TheAnswer!Pushed(x7, x7.calls)
    PROVE  TheAnswer!StreamsInv'
  <1>1. /\ TheAnswer!StreamsTypeOK /\ TheAnswer!QueueInOrder /\ TheAnswer!BlocksInOrder
        /\ TheAnswer!Told(TheAnswer!After(x7, x5))
        /\ x8 # "interrupted" => TheAnswer!UsageFollows
        /\ x2 \in ServerSet /\ x3 \in AnswerSet /\ MapperOK(x4) /\ x7 \in OutSet
        /\ x1 \in TheAnswer!Wires /\ x9 \in Nat /\ x6 \in BOOLEAN
        /\ x11 \in [reported : Nat, counted : Nat]
    BY InvIs
  <1>2. PICK o : o = TheAnswer!After(x7, x5)
    OBVIOUS
  <1>3. o = TheAnswer!After(x7, x5)'
    BY <1>2
  <1>4. TheAnswer!Told(TheAnswer!After(x7, x5))'
    BY <1>1, <1>2, <1>3, ToldStays
  <1>5. TheAnswer!QueueInOrder' /\ TheAnswer!UsageFollows'
    BY <1>1 DEF TheAnswer!QueueInOrder, TheAnswer!UsageFollows
  <1>6. TheAnswer!StreamsTypeOK'
    BY <1>1, TypesNext
  <1>7. TheAnswer!BlocksInOrder'
    BY <1>1 DEF TheAnswer!BlocksInOrder, TheAnswer!OpenAi, TheAnswer!Anthropic
  <1> QED BY <1>4, <1>5, <1>6, <1>7 DEF TheAnswer!StreamsInv

(* What is told of a value the engine's state has, before a step.            *)
LEMMA ToldHere ==
    ASSUME NEW p, p = TheAnswer!After(x7, x5), TheAnswer!CallsTold(p), TheAnswer!ThoughtsTold(p),
           p.text = x3.text, p.done = x3.complete
    PROVE  TheAnswer!Told(TheAnswer!After(x7, x5))
  <1>1. TheAnswer!CallsTold(TheAnswer!After(x7, x5))
    BY DEF TheAnswer!CallsTold
  <1>2. TheAnswer!ThoughtsTold(TheAnswer!After(x7, x5))
    BY DEF TheAnswer!ThoughtsTold
  <1> QED BY <1>1, <1>2 DEF TheAnswer!Told

(* A request begins, at first or again.                                      *)
Fresh ==
    /\ x1 \in TheAnswer!Wires /\ x2 = TheAnswer!NewServer /\ x3 = TheAnswer!NoAnswer
    /\ x4 = TheAnswer!NewMapper
    /\ x5 = <<>> /\ x6 = FALSE /\ x7 = TheAnswer!NewOut /\ x9 \in Nat
    /\ x11 \in [reported : Nat, counted : Nat] /\ x11.reported = x11.counted
    /\ x8 # "committed"

(* It finds nothing told and nothing meant.                                  *)
LEMMA FreshIs == Fresh => TheAnswer!StreamsInv
  <1> SUFFICES ASSUME Fresh PROVE TheAnswer!StreamsInv
    OBVIOUS
  <1>0. /\ x11 \in [reported : Nat, counted : Nat] /\ x11.reported = x11.counted
        /\ x8 # "committed" /\ x9 \in Nat
    BY DEF Fresh
  <1>1. /\ x1 \in TheAnswer!Wires /\ x5 = <<>> /\ x6 = FALSE
        /\ x2 = [stage |-> "head", open |-> TheAnswer!Nothing, kind |-> "none", blocks |-> 0,
                 over |-> FALSE]
        /\ x3 = [text |-> 0, thoughts |-> <<>>, calls |-> <<>>, complete |-> FALSE]
        /\ x4 = [ids |-> <<>>, sigs |-> <<>>, finished |-> FALSE]
        /\ x7 = [text |-> 0, reasoning |-> <<>>, signature |-> TheAnswer!Nothing, redacted |-> FALSE,
                 calls |-> <<>>, done |-> FALSE]
    BY DEF Fresh, TheAnswer!NewServer, TheAnswer!NoAnswer, TheAnswer!NewMapper, TheAnswer!NewOut
  <1>2. TheAnswer!Nothing \in Int /\ TheAnswer!Nothing \notin Nat
    BY DEF TheAnswer!Nothing
  <1>3. /\ <<>> \in Seq(Nat) /\ <<>> \in Seq(Thought0) /\ <<>> \in Seq(CallSet)
        /\ DOMAIN <<>> = {} /\ Len(<<>>) = 0
    OBVIOUS
  <1>4. x2 \in ServerSet
    BY <1>1, <1>2 DEF ServerSet
  <1>5. x3 \in AnswerSet
    BY <1>1, <1>3 DEF AnswerSet
  <1>6. MapperOK(x4)
    BY <1>1, <1>3 DEF MapperOK
  <1>7. x7 \in OutSet
    BY <1>1, <1>2, <1>3 DEF OutSet
  <1>8. TheAnswer!StreamsTypeOK
    BY <1>0, <1>1, <1>4, <1>5, <1>6, <1>7
       DEF TheAnswer!StreamsTypeOK, ServerSet, AnswerSet, MapperOK, OutSet, CallSet, Thought0
  <1>9. TheAnswer!BlocksInOrder
    BY <1>1, <1>3 DEF TheAnswer!BlocksInOrder, TheAnswer!OpenAi, TheAnswer!Anthropic
  <1>10. PICK o : o = TheAnswer!After(x7, x5)
    OBVIOUS
  <1>11. o = x7
    BY <1>1, <1>10, AfterIs
  <1>12. TheAnswer!CallsTold(o)
    <2>1. CallsAgree(x7.calls, x3.calls, x4.ids, x1, x2)
      <3>1. /\ x7.calls = <<>> /\ x3.calls = <<>> /\ x4.ids = <<>>
            /\ x2.kind = "none"
        BY <1>1
      <3>2. PICK s : s = x2
        OBVIOUS
      <3>3. 0..(0 - 1) = {} /\ 1..0 = {}
        OBVIOUS
      <3>4. CallsAgree(<<>>, <<>>, <<>>, x1, s)
        BY <1>3, <3>1, <3>2, <3>3 DEF CallsAgree
      <3> QED BY <3>1, <3>2, <3>4
    <2> QED BY <1>11, <2>1, CallsToldIs
  <1>13. TheAnswer!ThoughtsTold(o)
    <2>1. ThoughtsAgree(x7, x3.thoughts, x4.sigs, x2)
      <3>1. x3.thoughts = <<>> /\ Len(x3.thoughts) # 1
        BY <1>1, <1>3
      <3> QED BY <1>1, <3>1 DEF ThoughtsAgree
    <2> QED BY <1>11, <2>1, ThoughtsToldIs
  <1>14. TheAnswer!Told(TheAnswer!After(x7, x5))
    <2>1. o.text = x3.text /\ o.done = x3.complete
      BY <1>1, <1>11
    <2> QED BY <1>10, <1>12, <1>13, <2>1, ToldHere
  <1>15. TheAnswer!QueueInOrder /\ TheAnswer!UsageFollows
    BY <1>0, <1>1 DEF TheAnswer!QueueInOrder, TheAnswer!UsageFollows
  <1> QED BY <1>0, <1>8, <1>9, <1>14, <1>15 DEF TheAnswer!StreamsInv

(* And again.                                                                *)
LEMMA FreshNext == Fresh' => TheAnswer!StreamsInv'
  BY FreshIs, PTL

(* The engine's own steps.                                                   *)
LEMMA EngineKeeps ==
    ASSUME TheAnswer!StreamsInv,
           \/ TheAnswer!TakeEvent \/ TheAnswer!TakeError \/ TheAnswer!Commit
           \/ TheAnswer!Retry \/ TheAnswer!GiveUp \/ TheAnswer!Cancel
    PROVE  TheAnswer!StreamsInv'
  <1>1. CASE TheAnswer!TakeEvent
    BY <1>1, TakeKeeps
  <1>2. CASE TheAnswer!TakeError
    BY <1>2, ErrorKeeps
  <1>3. x9 \in Nat /\ x1 \in TheAnswer!Wires
    BY InvIs
  <1>4. CASE TheAnswer!Commit
    BY <1>3, <1>4, EndKeeps DEF TheAnswer!Commit, TheAnswer!BodyRead
  <1>5. CASE TheAnswer!Retry
    <2>1. /\ x8 = "streaming" /\ x5 = <<>> /\ x9' = x9 + 1 /\ TheAnswer!OpenStream
          /\ x1' = x1 /\ x8' = x8 /\ x11' = x11
      BY <1>5 DEF TheAnswer!Retry, TheAnswer!BodyRead
    <2>2. Before
      BY <2>1, BeforeHolds
    <2>3. x11 \in [reported : Nat, counted : Nat] /\ x11.reported = x11.counted
      BY <2>2 DEF Before, TheAnswer!StreamsTypeOK
    <2>4. Fresh'
      BY <1>3, <2>1, <2>3 DEF Fresh, TheAnswer!OpenStream
    <2> QED BY <2>4, FreshNext
  <1>6. CASE TheAnswer!GiveUp
    <2>1. x9' \in Nat
      BY <1>3, <1>6 DEF TheAnswer!GiveUp
    <2> QED BY <1>6, <2>1, EndKeeps DEF TheAnswer!GiveUp, TheAnswer!BodyRead
  <1>7. CASE TheAnswer!Cancel
    BY <1>3, <1>7, EndKeeps DEF TheAnswer!Cancel
  <1> QED BY <1>1, <1>2, <1>4, <1>5, <1>6, <1>7

(* A frame, or the end of the body.                                          *)
LEMMA BodyKeeps ==
    ASSUME TheAnswer!StreamsInv, TheAnswer!Body \/ TheAnswer!TimesOut
    PROVE  TheAnswer!StreamsInv'
  <1>1. CASE TheAnswer!OpenAiText
    BY <1>1, OpenAiTextKeeps
  <1>2. CASE TheAnswer!OpenAiReasoning
    BY <1>2, OpenAiReasoningKeeps
  <1>3. ASSUME NEW index \in 0..Len(x3.calls), NEW given \in BOOLEAN, NEW fragment \in 0..1,
               TheAnswer!OpenAiCall(index, given, fragment)
        PROVE  TheAnswer!StreamsInv'
    BY <1>3, OpenAiCallKeeps
  <1>4. CASE TheAnswer!OpenAiFinish \/ TheAnswer!OpenAiDoneMarker
    <2>1. PICK from, stage : /\ stage \in {"reason", "silent"}
                             /\ TheAnswer!Arrives(from, TheAnswer!Finish(x4))
                             /\ x2' = [x2 EXCEPT !.stage = stage]
      BY <1>4 DEF TheAnswer!OpenAiFinish, TheAnswer!OpenAiDoneMarker, TheAnswer!Says
    <2>2. /\ TheAnswer!OpenAi /\ x4' = [x4 EXCEPT !.finished = TRUE]
          /\ x3' = [x3 EXCEPT !.complete = TRUE] /\ x11' = x11
      BY <1>4 DEF TheAnswer!OpenAiFinish, TheAnswer!OpenAiDoneMarker
    <2> QED BY <2>1, <2>2, FinishKeeps
  <1>5. CASE TheAnswer!OpenAiUsage \/ TheAnswer!MessageDelta
    <2>1. PICK from, stage :
            /\ stage \in {"reason", "usage"}
            /\ TheAnswer!Arrives(from, <<TheAnswer!Ev("usage", <<>>, 1)>>)
            /\ x2' = [x2 EXCEPT !.stage = stage]
      BY <1>5 DEF TheAnswer!OpenAiUsage, TheAnswer!MessageDelta, TheAnswer!Says
    <2>2. TheAnswer!Reports(1) /\ x4' = x4 /\ x3' = x3
      BY <1>5 DEF TheAnswer!OpenAiUsage, TheAnswer!MessageDelta
    <2>3. x2.kind = "none"
      <3>1. TheAnswer!BlocksInOrder
        BY InvIs
      <3> QED BY <1>5, <3>1
                 DEF TheAnswer!BlocksInOrder, TheAnswer!OpenAiUsage, TheAnswer!MessageDelta,
                     TheAnswer!OpenAi, TheAnswer!Anthropic
    <2> QED BY <2>1, <2>2, <2>3, UsageKeeps
  <1>6. CASE TheAnswer!MessageStart
    <2>1. /\ TheAnswer!Arrives({"head"}, <<>>) /\ x2' = [x2 EXCEPT !.stage = "deltas"]
          /\ x4' = x4 /\ x3' = x3 /\ x11' = x11
      BY <1>6 DEF TheAnswer!MessageStart, TheAnswer!Says
    <2>2. x2.stage = "head"
      BY <2>1 DEF TheAnswer!Arrives
    <2> QED BY <2>1, <2>2, NothingKeeps
  <1>7. ASSUME NEW kind \in {"text", "tool_use", "thinking", "redacted"}, TheAnswer!BlockStart(kind)
        PROVE  TheAnswer!StreamsInv'
    BY <1>7, TextStarts, CallStarts, ThinkingStarts, RedactedStarts
  <1>8. CASE TheAnswer!TextDelta
    BY <1>8, TextDeltaKeeps
  <1>9. CASE TheAnswer!ArgumentsDelta
    BY <1>9, ArgumentsKeeps
  <1>10. CASE TheAnswer!ThinkingDelta
    BY <1>10, ThinkingKeeps
  <1>11. CASE TheAnswer!SignatureDelta
    BY <1>11, SignatureKeeps
  <1>12. CASE TheAnswer!BlockStop
    BY <1>12, BlockStopKeeps
  <1>13. CASE TheAnswer!MessageStop
    BY <1>13, StopKeeps
  <1>14. CASE TheAnswer!Ping
    <2>1. /\ TheAnswer!Arrives({"head", "deltas"}, <<>>) /\ x2' = x2
          /\ x4' = x4 /\ x3' = x3 /\ x11' = x11
      BY <1>14 DEF TheAnswer!Ping
    <2>2. PICK stage \in {"deltas", "silent"} : stage = "silent"
      OBVIOUS
    <2> QED BY <2>1, <2>2, NothingKeeps
  <1>15. CASE TheAnswer!ServerError
    <2>1. PICK from, stage, events :
            /\ TheAnswer!Arrives(from, events) /\ events = <<TheAnswer!Ev("error", <<>>, "api")>>
            /\ stage = "silent" /\ x2' = [x2 EXCEPT !.stage = stage]
      BY <1>15 DEF TheAnswer!ServerError, TheAnswer!Says
    <2>2. x4' = x4 /\ x3' = x3 /\ x11' = x11
      BY <1>15 DEF TheAnswer!ServerError
    <2> QED BY <2>1, <2>2, NothingKeeps
  <1>16. CASE TheAnswer!EndOfBody \/ TheAnswer!TransportError \/ TheAnswer!TimesOut
    <2>1. PICK events, why : /\ TheAnswer!BodyEnds(events)
                             /\ events = <<>> \/ events = <<TheAnswer!Ev("error", <<>>, why)>>
      BY <1>16 DEF TheAnswer!EndOfBody, TheAnswer!TransportError, TheAnswer!TimesOut
    <2> QED BY <2>1, BodyEndsKeeps
  <1> QED BY <1>1, <1>2, <1>3, <1>4, <1>5, <1>6, <1>7, <1>8, <1>9, <1>10, <1>11, <1>12, <1>13,
             <1>14, <1>15, <1>16 DEF TheAnswer!Body

(* It holds at first.                                                        *)
LEMMA StreamsStarts ==
    ASSUME TheAnswer!Init
    PROVE  TheAnswer!StreamsInv
  <1>1. x11 \in [reported : Nat, counted : Nat] /\ x11.reported = x11.counted
    BY DEF TheAnswer!Init
  <1>2. Fresh
    BY <1>1 DEF TheAnswer!Init, Fresh
  <1> QED BY <1>2, FreshIs

(* And each step keeps it.                                                   *)
LEMMA StreamsStep ==
    ASSUME TheAnswer!StreamsInv, TheAnswer!Next
    PROVE  TheAnswer!StreamsInv'
  BY BodyKeeps, EngineKeeps DEF TheAnswer!Next

(* A step of another.                                                        *)
LEMMA StreamsSame ==
    ASSUME TheAnswer!StreamsInv, UNCHANGED TheAnswer!vars
    PROVE  TheAnswer!StreamsInv'
  <1>1. /\ TheAnswer!StreamsTypeOK /\ TheAnswer!QueueInOrder /\ TheAnswer!BlocksInOrder
        /\ TheAnswer!Told(TheAnswer!After(x7, x5))
        /\ x8 # "interrupted" => TheAnswer!UsageFollows
        /\ x2 \in ServerSet /\ x3 \in AnswerSet /\ MapperOK(x4) /\ x7 \in OutSet
        /\ x1 \in TheAnswer!Wires /\ x9 \in Nat /\ x6 \in BOOLEAN
        /\ x11 \in [reported : Nat, counted : Nat]
    BY InvIs
  <1>2. /\ UNCHANGED <<x1, x2, x3, x4, x5, x6, x7, x11>>
        /\ x9' = x9 /\ x8' = x8 /\ x10' = x10
    BY DEF TheAnswer!vars
  <1>3. PICK o : o = TheAnswer!After(x7, x5)
    OBVIOUS
  <1>4. o = TheAnswer!After(x7, x5)'
    BY <1>2, <1>3
  <1>5. TheAnswer!Told(TheAnswer!After(x7, x5))'
    BY <1>1, <1>2, <1>3, <1>4, ToldStays
  <1>6. TheAnswer!QueueInOrder' /\ (x8' # "interrupted" => TheAnswer!UsageFollows')
    BY <1>1, <1>2 DEF TheAnswer!QueueInOrder, TheAnswer!UsageFollows
  <1>7. TheAnswer!StreamsTypeOK'
    BY <1>1, <1>2, TypesNext
  <1>8. TheAnswer!BlocksInOrder'
    BY <1>1, <1>2 DEF TheAnswer!BlocksInOrder, TheAnswer!OpenAi, TheAnswer!Anthropic
  <1> QED BY <1>2, <1>5, <1>6, <1>7, <1>8 DEF TheAnswer!StreamsInv

(* What it says of what is committed.                                        *)
LEMMA StreamsTells ==
    ASSUME TheAnswer!StreamsInv
    PROVE  TheAnswer!CommittedIsWhole /\ TheAnswer!OneThoughtReplays /\ TheAnswer!UsageIsCounted
  <1>1. /\ x7 \in OutSet /\ x3 \in AnswerSet /\ (x8 # "interrupted" => TheAnswer!UsageFollows)
        /\ x11 \in [reported : Nat, counted : Nat]
    BY InvIs
  <1>2. ASSUME x8 = "committed"
        PROVE  /\ x7.done /\ x5 = <<>> /\ x2.over /\ x10 = TheAnswer!Pushed(x7, x7.calls)
               /\ x7.text = x3.text /\ x7.done = x3.complete
               /\ CallsAgree(x7.calls, x3.calls, x4.ids, x1, x2)
               /\ ThoughtsAgree(x7, x3.thoughts, x4.sigs, x2)
               /\ x2.kind = "none" /\ x3.complete
    <2>1. x7.done /\ x5 = <<>> /\ x2.over /\ x10 = TheAnswer!Pushed(x7, x7.calls)
      BY <1>2 DEF TheAnswer!StreamsInv
    <2>2. PICK o : o = TheAnswer!After(x7, x5)
      OBVIOUS
    <2>3. o = x7
      BY <2>1, <2>2, AfterIs
    <2>4. TheAnswer!Told(o)
      BY <2>2, ToldBy DEF TheAnswer!StreamsInv
    <2>5. o.text = x3.text /\ o.done = x3.complete /\ TheAnswer!CallsTold(o) /\ TheAnswer!ThoughtsTold(o)
      BY <2>4 DEF TheAnswer!Told
    <2>6. /\ CallsAgree(x7.calls, x3.calls, x4.ids, x1, x2)
          /\ ThoughtsAgree(x7, x3.thoughts, x4.sigs, x2)
      BY <2>3, <2>5, CallsToldIs, ThoughtsToldIs
    <2>7. x3.complete
      BY <2>1, <2>3, <2>5
    <2>8. x2.kind = "none"
      BY <2>7 DEF TheAnswer!StreamsInv, TheAnswer!BlocksInOrder
    <2> QED BY <2>1, <2>3, <2>5, <2>6, <2>7, <2>8
  <1>3. ASSUME x8 = "committed"
        PROVE  x10.text = x3.text /\ x10.calls = x7.calls
    <2>1. x10 = IF x7.text = 0 /\ x7.calls = <<>> THEN TheAnswer!NoMessage
                ELSE [text |-> x7.text, calls |-> x7.calls,
                      thoughts |-> IF TheAnswer!HasReasoning(x7) THEN <<TheAnswer!Thought(x7)>>
                                   ELSE <<>>]
      BY <1>2, <1>3 DEF TheAnswer!Pushed
    <2>2. x7.text = x3.text
      BY <1>2, <1>3
    <2> QED BY <2>1, <2>2 DEF TheAnswer!NoMessage
  <1>4. TheAnswer!CommittedIsWhole
    <2> SUFFICES ASSUME x8 = "committed"
                 PROVE  /\ x3.complete /\ x10.text = x3.text
                        /\ Len(x10.calls) = Len(x3.calls)
                        /\ \A j \in DOMAIN x10.calls :
                              x10.calls[j].args = TheAnswer!Fragments(j, x3.calls[j])
      BY DEF TheAnswer!CommittedIsWhole
    <2>1. PICK c : c = x10.calls
      OBVIOUS
    <2>2. c \in Seq(CallSet) /\ c = x7.calls
      BY <1>1, <1>3, <2>1 DEF OutSet
    <2>3. DOMAIN c = 1..Len(c)
      BY <2>2
    <2>4. CallsAgree(c, x3.calls, x4.ids, x1, x2)
      BY <1>2, <2>2
    <2>5. /\ Len(c) = Len(x3.calls)
          /\ \A j \in 1..Len(c) : c[j].args = TheAnswer!Fragments(j, x3.calls[j])
      BY <2>4 DEF CallsAgree
    <2> QED BY <1>2, <1>3, <2>1, <2>3, <2>5
  <1>5. TheAnswer!OneThoughtReplays
    <2> SUFFICES ASSUME x8 = "committed", x10 # TheAnswer!NoMessage, Len(x3.thoughts) = 1
                 PROVE  x10.thoughts = <<IF x3.thoughts[1].redacted
                                         THEN [x3.thoughts[1] EXCEPT !.text = <<>>]
                                         ELSE x3.thoughts[1]>>
      BY DEF TheAnswer!OneThoughtReplays
    <2>1. PICK thought : thought = x3.thoughts[1]
      OBVIOUS
    <2>2. thought \in Thought0
      BY <1>1, <2>1 DEF AnswerSet
    <2>3. /\ x7.redacted = thought.redacted
          /\ thought.redacted =>
                x7.signature = thought.signature /\ x7.signature # TheAnswer!Nothing
          /\ ~thought.redacted => /\ x7.reasoning = thought.text /\ TheAnswer!HasReasoning(x7)
                                  /\ x7.signature = thought.signature
      BY <1>2, <2>1 DEF ThoughtsAgree
    <2>4. TheAnswer!HasReasoning(x7)
      BY <2>3 DEF TheAnswer!HasReasoning
    <2>5. x10.thoughts = <<TheAnswer!Thought(x7)>>
      BY <1>2, <2>4 DEF TheAnswer!Pushed
    <2>6. TheAnswer!Thought(x7) = IF thought.redacted THEN [thought EXCEPT !.text = <<>>] ELSE thought
      <3>1. CASE thought.redacted
        BY <2>2, <2>3, <3>1 DEF TheAnswer!Thought, Thought0
      <3>2. CASE ~thought.redacted
        BY <2>2, <2>3, <3>2 DEF TheAnswer!Thought, Thought0
      <3> QED BY <3>1, <3>2
    <2> QED BY <2>1, <2>5, <2>6
  <1>6. TheAnswer!UsageIsCounted
    <2>1. ASSUME x5 = <<>>, x8 # "interrupted" PROVE x11.counted = x11.reported
      BY <1>1, <2>1 DEF TheAnswer!UsageFollows
    <2> QED BY <1>2, <2>1 DEF TheAnswer!UsageIsCounted
  <1> QED BY <1>4, <1>5, <1>6

(* The invariant in the composition.                                         *)
LEMMA AnswerInvariant == WireSpec => [](part = "streams" => TheAnswer!StreamsInv)
  <1> DEFINE Inv == part = "streams" => TheAnswer!StreamsInv
  <1>1. WireInit => Inv
    BY StreamsStarts DEF WireInit
  <1>2. Inv /\ [WireNext]_wires => Inv'
    <2>1. SUFFICES ASSUME Inv, [WireNext]_wires, part' = "streams" PROVE TheAnswer!StreamsInv'
      OBVIOUS
    <2>2. CASE OfStreams(TheAnswer!Next)
      BY <2>1, <2>2, StreamsStep DEF OfStreams
    <2>3. CASE UNCHANGED wires
      <3>1. UNCHANGED TheAnswer!vars /\ part = "streams"
        BY <2>1, <2>3 DEF wires, others, TheAnswer!vars
      <3> QED BY <2>1, <3>1, StreamsSame
    <2> QED BY <2>1, <2>2, <2>3 DEF WireNext, OfMcp, OfSse, OfRequests
  <1> QED BY <1>1, <1>2, PTL DEF WireSpec

\* What is committed as an answer is the whole of it, from one attempt, with
\* its one thought ready to be replayed and its usage counted, for any number
\* of attempts, calls, fragments, thoughts and blocks (turn.rs
\* consume_stream, openai.rs and anthropic.rs mappers).
THEOREM WholeAnswersCorrect == WireSpec => []AnswerIsWhole
  <1> DEFINE Inv == part = "streams" => TheAnswer!StreamsInv
  <1>1. Inv => AnswerIsWhole
    BY StreamsTells DEF AnswerIsWhole
  <1> QED BY <1>1, AnswerInvariant, PTL
==============================================================================
