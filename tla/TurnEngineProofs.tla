--------------------------- MODULE TurnEngineProofs ---------------------------
(***************************************************************************)
(* Theorems of TurnEngine, for any turns, sessions, numbers of calls and   *)
(* limits, and for turns that run side by side.                            *)
(***************************************************************************)
EXTENDS TurnEngine, FiniteSetTheorems, TLAPS

\* The actions of a turn in one list: the proofs below have a step for each of
\* these cases.
StepOf(t) ==
    \/ StartTurn(t) \/ BuildPrompt(t) \/ PersistUser(t)
    \/ Iterate(t) \/ LimitReached(t)
    \/ ModelErrs(t) \/ Recover(t) \/ GiveUp(t)
    \/ Nudge(t) \/ Finish(t) \/ PostTurn(t) \/ Return(t)
    \/ TurnFails(t)
    \/ \E kind \in {"final", "empty"} : ModelStops(t, kind)
    \/ \E c \in Place : RejectCall(t, c) \/ RunCall(t, c) \/ StreamCall(t, c)
    \/ \E n \in 1..CallsOf[t], kind \in {"calls", "bare"} :
            CallTools(t, 1..n, kind)

\* Every step is a step of one turn.
LEMMA StepCases == Next => (\E t \in Turn : StepOf(t)) \/ UNCHANGED vars
  BY DEF Next, Step, StepOf, Chat, HandleCall, AllOver

-----------------------------------------------------------------------------
(***************************************************************************)
(* Sequences                                                               *)
(***************************************************************************)
\* A sequence holds elements of its set.
LEMMA RangeTyped ==
    ASSUME NEW S, NEW s \in Seq(S)
    PROVE  Range(s) \subseteq S
  BY DEF Range

\* An append adds the element.
LEMMA RangeOfAppend ==
    ASSUME NEW S, NEW s \in Seq(S), NEW e
    PROVE  Range(Append(s, e)) = Range(s) \cup {e}
<1>1. /\ DOMAIN Append(s, e) = 1..(Len(s) + 1)
      /\ Append(s, e)[Len(s) + 1] = e
      /\ \A i \in 1..Len(s) : Append(s, e)[i] = s[i]
  OBVIOUS
<1>2. DOMAIN s = 1..Len(s) /\ Len(s) \in Nat
  OBVIOUS
<1>3. \A x \in Range(Append(s, e)) : x \in Range(s) \cup {e}
  BY <1>1, <1>2 DEF Range
<1>4. \A x \in Range(s) \cup {e} : x \in Range(Append(s, e))
  BY <1>1, <1>2 DEF Range
<1>5. QED
  BY <1>3, <1>4

\* A concatenation holds what its parts hold.
LEMMA RangeOfConcat ==
    ASSUME NEW S, NEW s \in Seq(S), NEW r \in Seq(S)
    PROVE  Range(s \o r) = Range(s) \cup Range(r)
<1>1. /\ DOMAIN (s \o r) = 1..(Len(s) + Len(r))
      /\ \A i \in 1..Len(s) : (s \o r)[i] = s[i]
      /\ \A i \in 1..Len(r) : (s \o r)[Len(s) + i] = r[i]
  OBVIOUS
<1>2. /\ DOMAIN s = 1..Len(s) /\ Len(s) \in Nat
      /\ DOMAIN r = 1..Len(r) /\ Len(r) \in Nat
  OBVIOUS
<1>3. \A x \in Range(s \o r) : x \in Range(s) \cup Range(r)
  <2>1. TAKE x \in Range(s \o r)
  <2>2. PICK k \in 1..(Len(s) + Len(r)) : x = (s \o r)[k]
    BY <1>1 DEF Range
  <2>3. CASE k <= Len(s)
    BY <1>1, <1>2, <2>2, <2>3 DEF Range
  <2>4. CASE k > Len(s)
    <3>1. k - Len(s) \in 1..Len(r) /\ k = Len(s) + (k - Len(s))
      BY <1>2, <2>2, <2>4
    <3>2. x = r[k - Len(s)]
      BY <1>1, <2>2, <3>1
    <3>3. QED
      BY <1>2, <3>1, <3>2 DEF Range
  <2>5. QED
    BY <1>2, <2>2, <2>3, <2>4
<1>4. \A x \in Range(s) : x \in Range(s \o r)
  BY <1>1, <1>2 DEF Range
<1>5. \A x \in Range(r) : x \in Range(s \o r)
  <2>1. TAKE x \in Range(r)
  <2>2. PICK k \in 1..Len(r) : x = r[k]
    BY <1>2 DEF Range
  <2>3. Len(s) + k \in DOMAIN (s \o r) /\ x = (s \o r)[Len(s) + k]
    BY <1>1, <1>2, <2>2
  <2>4. QED
    BY <2>3 DEF Range
<1>6. QED
  BY <1>3, <1>4, <1>5

-----------------------------------------------------------------------------
(***************************************************************************)
(* Histories                                                               *)
(***************************************************************************)

\* In a history in which every id is called once and answered once, after the call.
Shared(history, i, j) == history[i].calls \cap history[j].calls # {}

CalledOnce(history) ==
    \A i, j \in DOMAIN history :
        IsCalls(history[i]) /\ IsCalls(history[j]) /\ Shared(history, i, j) => i = j

AnsweredOnce(history) ==
    \A i, j \in DOMAIN history :
        IsResult(history[i]) /\ IsResult(history[j]) /\ Shared(history, i, j) => i = j

AnswersFollow(history) ==
    \A i, j \in DOMAIN history :
        IsCalls(history[i]) /\ IsResult(history[j]) /\ Shared(history, i, j) => i < j

OneAnswerEach(history) ==
    \A j \in DOMAIN history :
        IsResult(history[j]) => \E id \in history[j].calls : history[j].calls = {id}

Sound(history) == /\ CalledOnce(history)
                  /\ AnsweredOnce(history)
                  /\ AnswersFollow(history)
                  /\ OneAnswerEach(history)

\* An id is called, or answered, by a message at some place.
LEMMA WhoDeclared ==
    ASSUME NEW history
    PROVE  /\ \A id : id \in Declared(history) <=>
                \E i \in DOMAIN history : IsCalls(history[i]) /\ id \in history[i].calls
           /\ \A id : id \in Responded(history) <=>
                \E i \in DOMAIN history : IsResult(history[i]) /\ id \in history[i].calls
  BY DEF Declared, Responded, Range

\* A sound history in which no call is open is one a provider accepts.
LEMMA SoundIsWellFormed ==
    ASSUME NEW history, Sound(history), Declared(history) = Responded(history)
    PROVE  WellFormed(history)
<1>1. SUFFICES ASSUME NEW id \in Declared(history)
               PROVE  \E i, j \in DOMAIN history :
                /\ i < j
                /\ {k \in DOMAIN history : IsCalls(history[k]) /\ id \in history[k].calls} = {i}
                /\ {k \in DOMAIN history : IsResult(history[k]) /\ id \in history[k].calls} = {j}
  BY DEF WellFormed
<1>2. PICK i \in DOMAIN history : IsCalls(history[i]) /\ id \in history[i].calls
  BY WhoDeclared
<1>3. PICK j \in DOMAIN history : IsResult(history[j]) /\ id \in history[j].calls
  BY WhoDeclared
<1>4. i < j
  BY <1>2, <1>3 DEF Sound, AnswersFollow, Shared
<1>5. {k \in DOMAIN history : IsCalls(history[k]) /\ id \in history[k].calls} = {i}
  BY <1>2 DEF Sound, CalledOnce, Shared
<1>6. {k \in DOMAIN history : IsResult(history[k]) /\ id \in history[k].calls} = {j}
  BY <1>3 DEF Sound, AnsweredOnce, Shared
<1>7. QED
  BY <1>4, <1>5, <1>6

\* RepairAndProject leaves a sound history in which no call is open.
LEMMA KeptIsSound ==
    ASSUME NEW msgs, Sound(msgs),
           \A i \in DOMAIN msgs : {"kind", "calls"} \subseteq DOMAIN msgs[i]
    PROVE  /\ Sound(Kept(msgs))
           /\ Declared(Kept(msgs)) = Responded(Kept(msgs))
           /\ \A i \in DOMAIN Kept(msgs) : Kept(msgs)[i].calls \subseteq msgs[i].calls
<1> DEFINE valid == Declared(msgs) \cap Responded(msgs)
           kept == Kept(msgs)
<1>1. DOMAIN kept = {i \in DOMAIN msgs : IsResult(msgs[i]) => msgs[i].calls \subseteq valid}
  BY DEF Kept
<1>2. ASSUME NEW i \in DOMAIN kept
      PROVE  /\ i \in DOMAIN msgs
             /\ kept[i].calls = msgs[i].calls \cap valid
             /\ kept[i].kind = IF IsCalls(msgs[i]) /\ msgs[i].calls \cap valid = {}
                               THEN "text" ELSE msgs[i].kind
  <2>1. i \in DOMAIN msgs /\ {"kind", "calls"} \subseteq DOMAIN msgs[i]
    BY <1>1
  <2>2. kept[i] = [msgs[i] EXCEPT !.calls = @ \cap valid,
                                  !.kind = IF IsCalls(msgs[i]) /\ msgs[i].calls \cap valid = {}
                                           THEN "text" ELSE @]
    BY <1>1 DEF Kept
  <2>3. QED
    BY <2>1, <2>2
<1>3. ASSUME NEW i \in DOMAIN kept
      PROVE  /\ IsCalls(kept[i]) <=> IsCalls(msgs[i]) /\ msgs[i].calls \cap valid # {}
             /\ IsResult(kept[i]) <=> IsResult(msgs[i])
             /\ kept[i].calls \subseteq msgs[i].calls
  BY <1>2 DEF IsCalls, IsResult
<1>4. Sound(kept)
  <2>1. CalledOnce(kept) /\ AnsweredOnce(kept) /\ AnswersFollow(kept)
    BY <1>2, <1>3 DEF Sound, CalledOnce, AnsweredOnce, AnswersFollow, Shared
  <2>2. OneAnswerEach(kept)
    <3>1. SUFFICES ASSUME NEW j \in DOMAIN kept, IsResult(kept[j])
                   PROVE  kept[j].calls = msgs[j].calls
      BY <1>2, <1>3 DEF Sound, OneAnswerEach
    <3>2. QED
      BY <1>1, <1>2, <1>3, <3>1
  <2>3. QED
    BY <2>1, <2>2 DEF Sound
<1>5. Declared(kept) = valid
  <2>1. ASSUME NEW id \in Declared(kept) PROVE id \in valid
    BY <1>2, <2>1, WhoDeclared
  <2>2. ASSUME NEW id \in valid PROVE id \in Declared(kept)
    <3>1. PICK i \in DOMAIN msgs : IsCalls(msgs[i]) /\ id \in msgs[i].calls
      BY WhoDeclared
    <3>2. i \in DOMAIN kept
      BY <1>1, <3>1 DEF IsCalls, IsResult
    <3>3. QED
      BY <1>2, <1>3, <3>1, <3>2, WhoDeclared
  <2>3. QED
    BY <2>1, <2>2
<1>6. Responded(kept) = valid
  <2>1. ASSUME NEW id \in Responded(kept) PROVE id \in valid
    BY <1>2, <2>1, WhoDeclared
  <2>2. ASSUME NEW id \in valid PROVE id \in Responded(kept)
    <3>1. PICK i \in DOMAIN msgs : IsResult(msgs[i]) /\ id \in msgs[i].calls
      BY WhoDeclared
    <3>2. msgs[i].calls = {id}
      BY <3>1 DEF Sound, OneAnswerEach
    <3>3. i \in DOMAIN kept
      BY <1>1, <3>2
    <3>4. QED
      BY <1>2, <1>3, <3>1, <3>3, WhoDeclared
  <2>3. QED
    BY <2>1, <2>2
<1>7. QED
  BY <1>3, <1>4, <1>5, <1>6

\* Ranks number the places of a history from 1, in their order.
LEMMA RanksFill ==
    ASSUME NEW history, DOMAIN history \subseteq Nat, IsFiniteSet(DOMAIN history)
    PROVE  /\ Cardinality(DOMAIN history) \in Nat
           /\ \A i \in DOMAIN history : Rank(history, i) \in 1..Cardinality(DOMAIN history)
           /\ \A i, j \in DOMAIN history : i < j => Rank(history, i) < Rank(history, j)
           /\ \A n \in 1..Cardinality(DOMAIN history) :
                \E i \in DOMAIN history : Rank(history, i) = n
<1> DEFINE D == DOMAIN history
           UpTo(i) == {k \in D : k <= i}
           N == Cardinality(D)
<1>1. N \in Nat
  BY FS_CardinalityType
<1>2. ASSUME NEW i \in D
      PROVE  IsFiniteSet(UpTo(i)) /\ Rank(history, i) \in 1..N
  <2>1. IsFiniteSet(UpTo(i)) /\ Cardinality(UpTo(i)) <= N /\ Cardinality(UpTo(i)) \in Nat
    <3>1. UpTo(i) \in SUBSET D
      OBVIOUS
    <3>2. QED
      BY <3>1, FS_Subset, FS_CardinalityType
  <2>2. UpTo(i) # {}
    OBVIOUS
  <2>3. Cardinality(UpTo(i)) # 0
    BY <2>1, <2>2, FS_EmptySet
  <2>4. QED
    BY <1>1, <2>1, <2>3 DEF Rank
<1>3. ASSUME NEW i \in D, NEW j \in D, i < j
      PROVE  Rank(history, i) < Rank(history, j)
  <2>1. UpTo(i) \in SUBSET UpTo(j) /\ j \in UpTo(j) /\ j \notin UpTo(i)
    BY <1>3
  <2>2. Cardinality(UpTo(i)) <= Cardinality(UpTo(j)) /\ Cardinality(UpTo(i)) # Cardinality(UpTo(j))
    BY <1>2, <2>1, FS_Subset
  <2>3. QED
    BY <1>1, <1>2, <2>2 DEF Rank
<1>4. ASSUME NEW n \in 1..N, \A i \in D : Rank(history, i) # n
      PROVE  FALSE
  <2> DEFINE T == (1..N) \ {n}
             rank == [i \in D |-> Rank(history, i)]
  <2>1. IsFiniteSet(T) /\ Cardinality(T) = N - 1
    <3>1. IsFiniteSet(1..N) /\ Cardinality(1..N) = N
      BY <1>1, FS_Interval
    <3>2. QED
      BY <3>1, FS_RemoveElement
  <2>2. rank \in [D -> T]
    BY <1>2, <1>4
  <2>3. Cardinality(T) < Cardinality(D)
    BY <1>1, <2>1
  <2>4. PICK i, j \in D : i # j /\ rank[i] = rank[j]
    <3> HIDE DEF T, rank, D
    <3>1. QED
      BY <2>1, <2>2, <2>3, FS_PigeonHole DEF D
  <2>5. i \in Nat /\ j \in Nat /\ Rank(history, i) \in Nat /\ Rank(history, j) \in Nat
    <3>1. \A k \in D : Rank(history, k) \in 1..N
      BY <1>2
    <3>2. QED
      BY <1>1, <3>1
  <2>6. Rank(history, i) < Rank(history, j) \/ Rank(history, j) < Rank(history, i)
    BY <1>3, <2>4, <2>5
  <2>7. QED
    BY <2>4, <2>5, <2>6
<1>5. QED
  BY <1>1, <1>2, <1>3, <1>4

\* Closing the gaps moves every message to another place and keeps their order.
LEMMA PlacesKeepOrder ==
    ASSUME NEW history, DOMAIN history \subseteq Nat, IsFiniteSet(DOMAIN history)
    PROVE  \E N \in Nat : \E place \in [1..N -> DOMAIN history] :
            /\ DOMAIN WithoutGaps(history) = 1..N
            /\ \A n \in 1..N : WithoutGaps(history)[n] = history[place[n]]
            /\ \A m, n \in 1..N : place[m] = place[n] => m = n
            /\ \A m, n \in 1..N : place[m] < place[n] => m < n
            /\ \A i \in DOMAIN history : \E n \in 1..N : place[n] = i
<1> DEFINE N == Cardinality(DOMAIN history)
           At(n) == CHOOSE i \in DOMAIN history : Rank(history, i) = n
           place == [n \in 1..N |-> At(n)]
<1>1. /\ N \in Nat
      /\ \A i \in DOMAIN history : Rank(history, i) \in 1..N
      /\ \A i, j \in DOMAIN history : i < j => Rank(history, i) < Rank(history, j)
      /\ \A n \in 1..N : \E i \in DOMAIN history : Rank(history, i) = n
  BY RanksFill
<1>2. \A n \in 1..N : At(n) \in DOMAIN history /\ Rank(history, At(n)) = n
  BY <1>1
<1>3. /\ DOMAIN WithoutGaps(history) = 1..N
      /\ \A n \in 1..N : WithoutGaps(history)[n] = history[At(n)]
  BY DEF WithoutGaps
<1>4. \A i, j \in DOMAIN history : Rank(history, i) = Rank(history, j) => i = j
  <2>1. TAKE i, j \in DOMAIN history
  <2>2. i \in Nat /\ j \in Nat /\ Rank(history, i) \in Nat /\ Rank(history, j) \in Nat
    BY <1>1
  <2>3. QED
    BY <1>1, <2>2
<1>5. \A i \in DOMAIN history : At(Rank(history, i)) = i
  BY <1>1, <1>2, <1>4
<1> HIDE DEF At, N
<1>6. \A n \in 1..N : place[n] = At(n)
  OBVIOUS
<1>p. place \in [1..N -> DOMAIN history]
  BY <1>2
<1> HIDE DEF place
<1>7. \A m, n \in 1..N : place[m] = place[n] => m = n
  BY <1>2, <1>6
<1>8. \A m, n \in 1..N : place[m] < place[n] => m < n
  BY <1>1, <1>2, <1>6
<1>9. \A i \in DOMAIN history : \E n \in 1..N : place[n] = i
  BY <1>1, <1>5, <1>6
<1>10. \A n \in 1..N : WithoutGaps(history)[n] = history[place[n]]
  BY <1>3, <1>6
<1>11. N \in Nat
  BY <1>1
<1>12. QED
  <2>1. WITNESS N \in Nat
  <2>2. WITNESS place \in [1..N -> DOMAIN history]
  <2>3. QED
    BY <1>3, <1>7, <1>8, <1>9, <1>10

\* What is called and answered does not depend on the places.
LEMMA RangeTells ==
    ASSUME NEW f, NEW g, Range(f) = Range(g)
    PROVE  Declared(f) = Declared(g) /\ Responded(f) = Responded(g)
  BY DEF Declared, Responded

\* The sequence without the gaps has the same messages and is as sound.
LEMMA GapsClosed ==
    ASSUME NEW history, DOMAIN history \subseteq Nat, IsFiniteSet(DOMAIN history),
           NEW S, \A i \in DOMAIN history : history[i] \in S
    PROVE  /\ WithoutGaps(history) \in Seq(S)
           /\ Range(WithoutGaps(history)) = Range(history)
           /\ Sound(history) => Sound(WithoutGaps(history))
<1> DEFINE seq == WithoutGaps(history)
<1>1. PICK N \in Nat : \E place \in [1..N -> DOMAIN history] :
            /\ DOMAIN seq = 1..N
            /\ \A n \in 1..N : seq[n] = history[place[n]]
            /\ \A m, n \in 1..N : place[m] = place[n] => m = n
            /\ \A m, n \in 1..N : place[m] < place[n] => m < n
            /\ \A i \in DOMAIN history : \E n \in 1..N : place[n] = i
  BY PlacesKeepOrder
<1>2. PICK place \in [1..N -> DOMAIN history] :
            /\ DOMAIN seq = 1..N
            /\ \A n \in 1..N : seq[n] = history[place[n]]
            /\ \A m, n \in 1..N : place[m] = place[n] => m = n
            /\ \A m, n \in 1..N : place[m] < place[n] => m < n
            /\ \A i \in DOMAIN history : \E n \in 1..N : place[n] = i
  BY <1>1
<1>3. seq \in Seq(S)
  <2>1. \A n \in 1..N : seq[n] \in S
    BY <1>2
  <2>2. seq = [n \in 1..N |-> seq[n]]
    BY <1>2 DEF WithoutGaps
  <2>3. QED
    BY <2>1, <2>2
<1> HIDE DEF seq
<1>4. Range(seq) = Range(history)
  BY <1>2 DEF Range
<1>5. ASSUME Sound(history) PROVE Sound(seq)
  <2>1. CalledOnce(seq)
    BY <1>2, <1>5 DEF Sound, CalledOnce, Shared
  <2>2. AnsweredOnce(seq)
    BY <1>2, <1>5 DEF Sound, AnsweredOnce, Shared
  <2>3. AnswersFollow(seq)
    BY <1>2, <1>5 DEF Sound, AnswersFollow, Shared
  <2>4. OneAnswerEach(seq)
    BY <1>2, <1>5 DEF Sound, OneAnswerEach
  <2>5. QED
    BY <2>1, <2>2, <2>3, <2>4 DEF Sound
<1>6. QED
  BY <1>3, <1>4, <1>5 DEF seq

\* Part of a sound history is sound.
LEMMA PartIsSound ==
    ASSUME NEW history, Sound(history), NEW P \in SUBSET DOMAIN history
    PROVE  Sound(Restrict(history, P))
  BY DEF Restrict, Sound, CalledOnce, AnsweredOnce, AnswersFollow, OneAnswerEach, Shared

\* So is the end of one.
LEMMA SuffixIsSound ==
    ASSUME NEW S, NEW msgs \in Seq(S), Sound(msgs), NEW from \in Nat, from >= 1
    PROVE  /\ Sound(SubSeq(msgs, from, Len(msgs)))
           /\ Range(SubSeq(msgs, from, Len(msgs))) \subseteq Range(msgs)
           /\ SubSeq(msgs, from, Len(msgs)) \in Seq(S)
<1> DEFINE suffix == SubSeq(msgs, from, Len(msgs))
<1>1. /\ DOMAIN msgs = 1..Len(msgs) /\ Len(msgs) \in Nat
      /\ \A k \in DOMAIN suffix : /\ k \in Nat /\ k + from - 1 \in DOMAIN msgs
                                  /\ suffix[k] = msgs[k + from - 1]
  OBVIOUS
<1>2. suffix \in Seq(S)
  OBVIOUS
<1> HIDE DEF suffix
<1>3. \A j, k \in DOMAIN suffix : /\ j + from - 1 = k + from - 1 => j = k
                                  /\ j + from - 1 < k + from - 1 => j < k
  BY <1>1
<1>4. CalledOnce(suffix) /\ AnsweredOnce(suffix)
  BY <1>1, <1>3 DEF Sound, CalledOnce, AnsweredOnce, Shared
<1>5. AnswersFollow(suffix) /\ OneAnswerEach(suffix)
  <2>1. SUFFICES ASSUME NEW j \in DOMAIN suffix, NEW k \in DOMAIN suffix,
                        IsCalls(suffix[j]), IsResult(suffix[k]), Shared(suffix, j, k)
                 PROVE  j < k
    BY <1>1 DEF Sound, AnswersFollow, OneAnswerEach
  <2>2. j + from - 1 < k + from - 1
    BY <1>1, <2>1 DEF Sound, AnswersFollow, Shared
  <2>3. QED
    BY <1>3, <2>2
<1>6. Range(suffix) \subseteq Range(msgs)
  BY <1>1 DEF Range
<1>7. QED
  BY <1>2, <1>4, <1>5, <1>6 DEF Sound, suffix

\* A message that makes new calls, or answers a call that was made and not
\* answered, leaves a history sound.
LEMMA AppendIsSound ==
    ASSUME NEW S, NEW msgs \in Seq(S), NEW m \in S, Sound(msgs),
           ~(IsCalls(m) /\ IsResult(m)),
           IsCalls(m) => \A x \in Range(msgs) : x.calls \cap m.calls = {},
           IsResult(m) => /\ \E id \in m.calls : m.calls = {id}
                          /\ \A x \in Range(msgs) : IsResult(x) => x.calls \cap m.calls = {}
    PROVE  Sound(Append(msgs, m))
<1> DEFINE longer == Append(msgs, m)
<1>1. PICK n \in Nat : n = Len(msgs)
  OBVIOUS
<1>2. /\ DOMAIN msgs = 1..n /\ DOMAIN longer = 1..(n + 1)
      /\ longer[n + 1] = m
      /\ \A i \in 1..n : longer[i] = msgs[i] /\ msgs[i] \in Range(msgs)
  BY <1>1 DEF Range
<1>3. \A i \in 1..(n + 1) : i \in 1..n \/ i = n + 1
  OBVIOUS
<1>4. \A i \in 1..n : i # n + 1 /\ i < n + 1
  OBVIOUS
<1> HIDE DEF longer
<1>5. CalledOnce(longer)
  <2>1. SUFFICES ASSUME NEW i \in 1..(n + 1), NEW j \in 1..(n + 1),
                        IsCalls(longer[i]), IsCalls(longer[j]), Shared(longer, i, j)
                 PROVE  i = j
    BY <1>2 DEF CalledOnce
  <2>2. QED
    BY <1>2, <1>3, <2>1 DEF Sound, CalledOnce, Shared
<1>6. AnsweredOnce(longer)
  <2>1. SUFFICES ASSUME NEW i \in 1..(n + 1), NEW j \in 1..(n + 1),
                        IsResult(longer[i]), IsResult(longer[j]), Shared(longer, i, j)
                 PROVE  i = j
    BY <1>2 DEF AnsweredOnce
  <2>2. QED
    BY <1>2, <1>3, <2>1 DEF Sound, AnsweredOnce, Shared
<1>7. AnswersFollow(longer)
  <2>1. SUFFICES ASSUME NEW i \in 1..(n + 1), NEW j \in 1..(n + 1),
                        IsCalls(longer[i]), IsResult(longer[j]), Shared(longer, i, j)
                 PROVE  i < j
    BY <1>2 DEF AnswersFollow
  <2>2. QED
    BY <1>2, <1>3, <1>4, <2>1 DEF Sound, AnswersFollow, Shared
<1>8. OneAnswerEach(longer)
  BY <1>2, <1>3 DEF Sound, OneAnswerEach
<1>9. QED
  BY <1>5, <1>6, <1>7, <1>8 DEF Sound, longer

-----------------------------------------------------------------------------
(***************************************************************************)
(* Types                                                                   *)
(***************************************************************************)

\* What the repair keeps of a history are messages of it, some with fewer calls.
LEMMA RepairedTyped ==
    ASSUME NEW msgs \in Seq(Message)
    PROVE  /\ Repaired(msgs) \in Seq(Message)
           /\ \A m \in Range(Repaired(msgs)) : \E x \in Range(msgs) :
                /\ m.turn = x.turn /\ m.calls \subseteq x.calls
                /\ IsResult(m) => IsResult(x)
                /\ m.kind \in {x.kind, "text"}
           /\ Sound(msgs) => /\ Sound(Repaired(msgs))
                             /\ Declared(Repaired(msgs)) = Responded(Repaired(msgs))
<1> DEFINE kept == Kept(msgs)
<1>1. DOMAIN msgs = 1..Len(msgs) /\ Len(msgs) \in Nat
  OBVIOUS
<1>2. DOMAIN kept \subseteq DOMAIN msgs
  BY DEF Kept
<1>3. DOMAIN kept \subseteq Nat /\ IsFiniteSet(DOMAIN kept)
  <2>1. IsFiniteSet(1..Len(msgs))
    BY <1>1, FS_Interval
  <2>2. DOMAIN kept \in SUBSET (1..Len(msgs))
    BY <1>1, <1>2
  <2>3. QED
    BY <1>1, <1>2, <2>1, <2>2, FS_Subset
<1>4. ASSUME NEW i \in DOMAIN kept
      PROVE  /\ kept[i] \in Message
             /\ kept[i].turn = msgs[i].turn /\ kept[i].calls \subseteq msgs[i].calls
             /\ kept[i].kind \in {msgs[i].kind, "text"}
             /\ msgs[i] \in Range(msgs)
  <2>1. msgs[i] \in Message /\ msgs[i] \in Range(msgs)
    BY <1>2 DEF Range
  <2>2. PICK calls \in SUBSET msgs[i].calls, kind \in {msgs[i].kind, "text"} :
            kept[i] = [msgs[i] EXCEPT !.calls = calls, !.kind = kind]
    BY DEF Kept
  <2>3. QED
    BY <2>1, <2>2 DEF Message, Kind
<1>5. /\ WithoutGaps(kept) \in Seq(Message)
      /\ Range(WithoutGaps(kept)) = Range(kept)
      /\ Sound(kept) => Sound(WithoutGaps(kept))
  BY <1>3, <1>4, GapsClosed
<1>6. \A m \in Range(kept) : \E x \in Range(msgs) :
        /\ m.turn = x.turn /\ m.calls \subseteq x.calls
        /\ IsResult(m) => IsResult(x)
        /\ m.kind \in {x.kind, "text"}
  BY <1>4 DEF Range, IsResult
<1>7. ASSUME Sound(msgs)
      PROVE  Sound(kept) /\ Declared(kept) = Responded(kept)
  <2>1. ASSUME NEW i \in DOMAIN msgs PROVE {"kind", "calls"} \subseteq DOMAIN msgs[i]
    <3>1. msgs[i] \in Message
      OBVIOUS
    <3>2. DOMAIN msgs[i] = {"turn", "kind", "iter", "calls"}
      BY <3>1 DEF Message
    <3>3. QED
      BY <3>2
  <2>2. QED
    BY <1>7, <2>1, KeptIsSound
<1>8. QED
  BY <1>5, <1>6, <1>7, RangeTells DEF Repaired

\* What a turn says is a message of that turn.
LEMMA SaysTyped ==
    ASSUME TypeOK, NEW t \in Turn, NEW kind \in Kind, NEW places \in SUBSET Place
    PROVE  /\ Says(t, kind, places) \in Message
           /\ Says(t, kind, places).turn = t
           /\ Says(t, kind, places).kind = kind
<1>1. iteration[t] \in Nat
  BY TurnConstants DEF TypeOK, TurnConstants
<1>2. {Id(t, c) : c \in places} \in SUBSET CallId
  BY <1>1 DEF Id, CallId
<1>3. QED
  BY <1>1, <1>2 DEF Says, Message

\* What prepareTurn keeps of a message is a message of the same turn.
LEMMA PreparedTyped ==
    ASSUME NEW m \in Message
    PROVE  Prepared(m) \in Seq(Message)
<1>1. Logged(m) \in Message
  BY DEF Logged, Message, Kind
<1>2. QED
  BY <1>1 DEF Prepared

\* A log grows by messages.
LEMMA FlushTyped ==
    ASSUME TypeOK, NEW t \in Turn, NEW m \in Message, FlushTo(t, m)
    PROVE  log' \in [Session -> Seq(Message)]
<1>1. SessionOf[t] \in Session
  BY TurnConstants DEF TurnConstants
<1>2. log[SessionOf[t]] \o Prepared(m) \in Seq(Message)
  BY <1>1, PreparedTyped DEF TypeOK
<1>3. QED
  BY <1>1, <1>2 DEF FlushTo, TypeOK

\* Buffering and logging a message keeps the types, on success and on failure.
LEMMA EmitTyped ==
    ASSUME TypeOK, NEW t \in Turn, NEW m \in Message,
           NEW next \in {"iterate", "tools", "finish"}, Emit(t, m, next)
    PROVE  /\ pc' \in [Turn -> {"idle", "prompt", "user", "iterate", "chat", "tools",
                                "finish", "post", "return", "over"}]
           /\ outcome' \in [Turn -> {"none", "answered", "limit", "overflow",
                                     "error", "failed"}]
           /\ delta' \in Seq(Message)
           /\ log' \in [Session -> Seq(Message)]
<1>1. delta' \in Seq(Message)
  BY DEF Emit, TypeOK
<1>2. CASE FlushTo(t, m) /\ Goto(t, next) /\ UNCHANGED outcome
  BY <1>1, <1>2, FlushTyped DEF Goto, TypeOK
<1>3. CASE End(t, "failed", "return") /\ UNCHANGED log
  BY <1>1, <1>3 DEF End, Goto, TypeOK
<1>4. QED
  BY <1>2, <1>3 DEF Emit

\* Before any turn nothing is buffered or logged.
LEMMA InitTyped == Init => TypeOK
<1>1. SUFFICES ASSUME Init PROVE TypeOK
  OBVIOUS
<1>2. MaxIterations \in Nat /\ MaxRecoveryAttempts \in Nat
  BY TurnConstants DEF TurnConstants
<1>3. <<>> \in Seq(Message)
  OBVIOUS
<1>4. QED
  BY <1>1, <1>2, <1>3 DEF Init, TypeOK

\* The actions that say nothing.
LEMMA QuietTyped ==
    ASSUME TypeOK, NEW t \in Turn,
           \/ StartTurn(t) \/ BuildPrompt(t) \/ Iterate(t) \/ LimitReached(t)
           \/ ModelErrs(t) \/ Recover(t) \/ GiveUp(t) \/ Finish(t)
           \/ PostTurn(t) \/ Return(t) \/ TurnFails(t)
    PROVE  TypeOK'
<1>n. MaxIterations \in Nat /\ MaxRecoveryAttempts \in Nat
  BY TurnConstants DEF TurnConstants
<1>0. SessionOf[t] \in Session /\ log[SessionOf[t]] \in Seq(Message)
  BY TurnConstants DEF TurnConstants, TypeOK
<1>1. CASE StartTurn(t) \/ BuildPrompt(t)
  <2>1. Append(Repaired(log[SessionOf[t]]), Says(t, "user", {})) \in Seq(Message)
    BY <1>0, RepairedTyped, SaysTyped DEF Kind
  <2>2. CASE StartTurn(t)
    BY <2>2 DEF StartTurn, Goto, TypeOK, buffer
  <2>3. CASE BuildPrompt(t)
    BY <2>1, <2>3 DEF BuildPrompt, Goto, TypeOK, buffer
  <2>4. QED
    BY <1>1, <2>2, <2>3
<1>2. CASE Iterate(t)
  <2>1. iteration[t] + 1 \in 0..MaxIterations
    BY <1>n, <1>2 DEF Iterate, ShouldContinue, TypeOK
  <2>2. Loaded \in Seq(Message)
    BY DEF Loaded, TypeOK
  <2>3. QED
    BY <1>2, <2>1, <2>2 DEF Iterate, Goto, TypeOK, buffer
<1>3. CASE LimitReached(t) \/ ModelErrs(t) \/ Finish(t) \/ TurnFails(t)
  BY <1>3 DEF LimitReached, ModelErrs, Finish, TurnFails, End, Goto, TypeOK, buffer
<1>4. CASE Recover(t)
  <2>1. recoveries[t] + 1 \in 0..MaxRecoveryAttempts
    BY <1>n, <1>4 DEF Recover, TypeOK
  <2>2. delta' \in Seq(Message)
    BY <1>4 DEF Recover
  <2>3. prior' \in Seq(Message)
    <3>1. PICK from \in 2..(Len(log[SessionOf[t]]) + 1) :
                prior' = Repaired(SubSeq(log[SessionOf[t]], from, Len(log[SessionOf[t]])))
      BY <1>4 DEF Recover
    <3>2. SubSeq(log[SessionOf[t]], from, Len(log[SessionOf[t]])) \in Seq(Message)
      BY <1>0
    <3>3. QED
      BY <3>1, <3>2, RepairedTyped
  <2>4. QED
    BY <1>4, <2>1, <2>2, <2>3 DEF Recover, Goto, TypeOK
<1>5. CASE GiveUp(t)
  <2>1. (IF recoveries[t] < MaxRecoveryAttempts THEN recoveries[t] + 1 ELSE recoveries[t])
            \in 0..MaxRecoveryAttempts
    BY <1>n DEF TypeOK
  <2>2. QED
    BY <1>5, <2>1 DEF GiveUp, End, Goto, TypeOK, buffer
<1>6. CASE PostTurn(t)
  BY <1>6 DEF PostTurn, RemainingFiles, Goto, TypeOK, buffer
<1>7. CASE Return(t)
  BY <1>n, <1>7 DEF Return, Goto, TypeOK, buffer
<1>8. QED
  BY <1>1, <1>2, <1>3, <1>4, <1>5, <1>6, <1>7

\* The actions that say something.
LEMMA SpeakingTyped ==
    ASSUME TypeOK, NEW t \in Turn, NEW kind \in Kind, NEW places \in SUBSET Place,
           NEW next \in {"iterate", "tools", "finish"},
           Emit(t, Says(t, kind, places), next),
           todo' \in [Turn -> SUBSET Place],
           files' \subseteq CallId,
           UNCHANGED <<iteration, recoveries, request, prompt, prior>>
    PROVE  TypeOK'
<1>1. Says(t, kind, places) \in Message
  BY SaysTyped
<1>2. QED
  BY <1>1, EmitTyped DEF TypeOK

\* Every step keeps the types.
LEMMA TypesKept ==
    ASSUME TypeOK, [Next]_vars
    PROVE  TypeOK'
<1>1. CASE UNCHANGED vars
  BY <1>1 DEF TypeOK, vars, turnState, buffer
<1>2. CASE Next /\ ~UNCHANGED vars
  <2>1. PICK t \in Turn : StepOf(t)
    BY <1>2, StepCases
  <2>2. CASE PersistUser(t)
    <3>1. Says(t, "user", {}) \in Message
      BY SaysTyped DEF Kind
    <3>2. log' \in [Session -> Seq(Message)]
      BY <2>2, <3>1, FlushTyped DEF PersistUser
    <3>3. QED
      BY <2>2, <3>2 DEF PersistUser, Goto, TypeOK, buffer
  <2>3. CASE Nudge(t)
    <3>1. /\ Emit(t, Says(t, "nudge", {}), "iterate")
          /\ UNCHANGED <<iteration, recoveries, request, prompt, prior, todo, files>>
      BY <2>3 DEF Nudge
    <3>2. todo' \in [Turn -> SUBSET Place]
      BY <3>1 DEF TypeOK
    <3>3. files' \subseteq CallId
      BY <3>1 DEF TypeOK
    <3>4. QED
      BY <3>1, <3>2, <3>3, SpeakingTyped DEF Kind
  <2>4. CASE \E kind \in {"final", "empty"} : ModelStops(t, kind)
    <3>1. PICK kind \in {"final", "empty"} : ModelStops(t, kind)
      BY <2>4
    <3>2. /\ Emit(t, Says(t, kind, {}), "finish")
          /\ UNCHANGED <<iteration, recoveries, request, prompt, prior, todo, files>>
      BY <3>1 DEF ModelStops
    <3>3. todo' \in [Turn -> SUBSET Place]
      BY <3>2 DEF TypeOK
    <3>4. files' \subseteq CallId
      BY <3>2 DEF TypeOK
    <3>5. kind \in Kind
      BY DEF Kind
    <3>6. QED
      BY <3>2, <3>3, <3>4, <3>5, SpeakingTyped
  <2>5. CASE \E c \in Place : RejectCall(t, c) \/ RunCall(t, c) \/ StreamCall(t, c)
    <3>1. PICK c \in Place : RejectCall(t, c) \/ RunCall(t, c) \/ StreamCall(t, c)
      BY <2>5
    <3>2. PICK kind \in {"result", "file"} :
            /\ Answered(t, c, kind)
            /\ UNCHANGED files \/ files' = files \cup {Id(t, c)}
      BY <3>1 DEF RejectCall, RunCall, StreamCall
    <3>3. PICK next \in {"iterate", "tools"} : Emit(t, Says(t, kind, {c}), next)
      BY <3>2 DEF Answered
    <3>4. todo' \in [Turn -> SUBSET Place] 
          /\ UNCHANGED <<iteration, recoveries, request, prompt, prior>>
      BY <3>2 DEF Answered, TypeOK
    <3>5. Id(t, c) \in CallId
      BY TurnConstants DEF Id, CallId, TypeOK, TurnConstants
    <3>6. files' \subseteq CallId
      BY <3>2, <3>5 DEF TypeOK
    <3>7. kind \in Kind
      BY DEF Kind
    <3>8. QED
      BY <3>3, <3>4, <3>6, <3>7, SpeakingTyped
  <2>6. CASE \E n \in 1..CallsOf[t], kind \in {"calls", "bare"} : CallTools(t, 1..n, kind)
    <3>1. PICK n \in 1..CallsOf[t], kind \in {"calls", "bare"} : CallTools(t, 1..n, kind)
      BY <2>6
    <3>2. 1..n \in SUBSET Place
      BY TurnConstants DEF Place, TurnConstants
    <3>3. /\ Emit(t, Says(t, kind, 1..n), "tools")
          /\ todo' = [todo EXCEPT ![t] = 1..n]
          /\ UNCHANGED <<iteration, recoveries, request, prompt, prior, files>>
      BY <3>1 DEF CallTools
    <3>4. todo' \in [Turn -> SUBSET Place]
      BY <3>2, <3>3 DEF TypeOK
    <3>5. files' \subseteq CallId
      BY <3>3 DEF TypeOK
    <3>6. kind \in Kind
      BY DEF Kind
    <3>7. QED
      BY <3>2, <3>3, <3>4, <3>5, <3>6, SpeakingTyped
  <2>7. QED
    BY <2>1, <2>2, <2>3, <2>4, <2>5, <2>6, QuietTyped DEF StepOf
<1>3. QED
  BY <1>1, <1>2

\* Everything a turn keeps is well typed, its requests, its prompt and the buffer
\* included, for any number of turns side by side.
THEOREM TypeCorrect == Spec => []TypeOK
  BY InitTyped, TypesKept, PTL DEF Spec

\* However often the model calls tools, is nudged or overflows its context, a
\* turn makes at most MaxIterations requests and MaxRecoveryAttempts
\* compactions: what shouldContinue and the recovery cap are there for.
WithinLimits == /\ iteration \in [Turn -> 0..MaxIterations]
                /\ recoveries \in [Turn -> 0..MaxRecoveryAttempts]

\* A turn stays within its limits, whatever model, tools and hooks do.
THEOREM TurnsAreBounded == Spec => []WithinLimits
<1>1. Init => TypeOK
  BY InitTyped
<1>2. TypeOK /\ [Next]_vars => TypeOK'
  BY TypesKept
<1>3. TypeOK => WithinLimits
  BY DEF TypeOK, WithinLimits
<1>4. QED
  BY <1>1, <1>2, <1>3, PTL DEF Spec

-----------------------------------------------------------------------------
(***************************************************************************)
(* The log                                                                 *)
(***************************************************************************)

\* What is in the log of the turn's session, or has no place in a log.
OnRecord(m) == Range(Prepared(m)) \subseteq Range(log[SessionOf[m.turn]])

\* BufferIsDurable speaks of active turns.  The invariant includes those that
\* have not begun, of which the buffer holds nothing yet.
DurableInv ==
    \A t \in Turn : pc[t] \notin {"return", "over"} =>
        \A m \in Range(delta) : m.turn = t => OnRecord(m)

\* Logs only grow: what is on record stays so.
LEMMA FlushKeepsRecords ==
    ASSUME TypeOK, NEW t \in Turn, NEW m \in Message, FlushTo(t, m),
           NEW s \in Session
    PROVE  /\ Range(log[s]) \subseteq Range(log'[s])
           /\ s = SessionOf[t] => Range(Prepared(m)) \subseteq Range(log'[s])
<1>1. Prepared(m) \in Seq(Message) /\ log[s] \in Seq(Message)
  BY PreparedTyped DEF TypeOK
<1>2. Range(log[s] \o Prepared(m)) = Range(log[s]) \cup Range(Prepared(m))
  BY <1>1, RangeOfConcat
<1>3. log'[s] = IF s = SessionOf[t] THEN log[s] \o Prepared(m) ELSE log[s]
  BY DEF FlushTo, TypeOK
<1>4. QED
  BY <1>2, <1>3

\* A buffered message belongs to a turn, and so to a session.
LEMMA MessagesHaveTurns ==
    ASSUME TypeOK, NEW m \in Range(delta)
    PROVE  m \in Message /\ m.turn \in Turn /\ SessionOf[m.turn] \in Session
<1>1. m \in Message
  BY DEF Range, TypeOK
<1>2. m.turn \in Turn
  BY <1>1 DEF Message
<1>3. QED
  BY <1>1, <1>2, TurnConstants DEF TurnConstants

\* A message is in the log when its turn goes on.
LEMMA EmitDurable ==
    ASSUME TypeOK, DurableInv, NEW t \in Turn, NEW m \in Message, m.turn = t,
           NEW next \in {"iterate", "tools", "finish"}, Emit(t, m, next),
           pc[t] \notin {"return", "over"}
    PROVE  DurableInv'
<1>1. Range(delta') = Range(delta) \cup {m}
  BY RangeOfAppend DEF Emit, TypeOK
<1>2. CASE FlushTo(t, m) /\ Goto(t, next)
  <2>1. SUFFICES ASSUME NEW u \in Turn, pc'[u] \notin {"return", "over"},
                        NEW x \in Range(delta'), x.turn = u
                 PROVE  OnRecord(x)'
    BY DEF DurableInv
  <2>2. SessionOf[u] \in Session
    BY TurnConstants DEF TurnConstants
  <2>3. CASE x = m
    BY <1>2, <2>1, <2>2, <2>3, FlushKeepsRecords DEF OnRecord
  <2>4. CASE x \in Range(delta)
    <3>1. pc[u] \notin {"return", "over"}
      BY <1>2, <2>1 DEF Goto, TypeOK
    <3>2. OnRecord(x)
      BY <2>1, <2>4, <3>1 DEF DurableInv
    <3>3. Range(log[SessionOf[u]]) \subseteq Range(log'[SessionOf[u]])
      BY <1>2, <2>2, FlushKeepsRecords
    <3>4. QED
      BY <2>1, <3>2, <3>3 DEF OnRecord
  <2>5. QED
    BY <1>1, <2>1, <2>3, <2>4
<1>3. CASE End(t, "failed", "return") /\ UNCHANGED log
  <2>1. SUFFICES ASSUME NEW u \in Turn, pc'[u] \notin {"return", "over"},
                        NEW x \in Range(delta'), x.turn = u
                 PROVE  OnRecord(x)'
    BY DEF DurableInv
  <2>2. u # t /\ pc[u] \notin {"return", "over"}
    BY <1>3, <2>1 DEF End, Goto, TypeOK
  <2>3. x \in Range(delta)
    BY <1>1, <2>1, <2>2
  <2>4. OnRecord(x)
    BY <2>1, <2>2, <2>3 DEF DurableInv
  <2>5. QED
    BY <1>3, <2>4 DEF OnRecord
<1>4. QED
  BY <1>2, <1>3 DEF Emit

\* A step that adds nothing to the buffer and takes no turn back.
LEMMA QuietDurable ==
    ASSUME TypeOK, DurableInv, delta' = delta \/ delta' = <<>>,
           \A s \in Session : Range(log[s]) \subseteq Range(log'[s]),
           \A u \in Turn : pc'[u] \notin {"return", "over"}
                            => pc[u] \notin {"return", "over"}
    PROVE  DurableInv'
<1>1. SUFFICES ASSUME NEW u \in Turn, pc'[u] \notin {"return", "over"},
                      NEW x \in Range(delta'), x.turn = u
               PROVE  OnRecord(x)'
  BY DEF DurableInv
<1>2. x \in Range(delta)
  BY <1>1 DEF Range
<1>3. OnRecord(x)
  BY <1>1, <1>2 DEF DurableInv
<1>4. SessionOf[u] \in Session
  BY TurnConstants DEF TurnConstants
<1>5. QED
  BY <1>1, <1>3, <1>4 DEF OnRecord

\* No step leaves an active turn ahead of its log.
LEMMA DurableKept ==
    ASSUME TypeOK, DurableInv, [Next]_vars
    PROVE  DurableInv'
<1>1. CASE UNCHANGED vars
  BY <1>1, QuietDurable DEF vars, turnState, buffer
<1>2. CASE Next /\ ~UNCHANGED vars
  <2>1. PICK t \in Turn : StepOf(t)
    BY <1>2, StepCases
  <2>2. CASE StartTurn(t) \/ BuildPrompt(t) \/ Iterate(t) \/ LimitReached(t)
             \/ ModelErrs(t) \/ GiveUp(t) \/ Finish(t) \/ PostTurn(t)
             \/ Return(t) \/ TurnFails(t)
    <3>1. UNCHANGED <<delta, log>>
      BY <2>2 DEF StartTurn, BuildPrompt, Iterate, LimitReached, ModelErrs,
                  GiveUp, Finish, PostTurn, Return, TurnFails, buffer
    <3>2. PICK place : pc' = [pc EXCEPT ![t] = place]
      BY <2>2 DEF StartTurn, BuildPrompt, Iterate, LimitReached, ModelErrs,
                  GiveUp, Finish, PostTurn, Return, TurnFails, End, Goto
    <3>3. pc[t] \in {"return", "over"} => place \in {"return", "over"}
      BY <2>2, <3>2 DEF StartTurn, BuildPrompt, Iterate, LimitReached, ModelErrs,
                  GiveUp, Finish, PostTurn, Return, TurnFails, End, Goto, TypeOK
    <3>4. \A u \in Turn : pc'[u] \notin {"return", "over"}
                            => pc[u] \notin {"return", "over"}
      BY <3>2, <3>3 DEF TypeOK
    <3>5. QED
      BY <3>1, <3>4, QuietDurable
  <2>3. CASE Recover(t)
    <3>1. delta' = <<>> /\ UNCHANGED log
      BY <2>3 DEF Recover
    <3>2. \A u \in Turn : pc'[u] \notin {"return", "over"}
                            => pc[u] \notin {"return", "over"}
      BY <2>3 DEF Recover, Goto, TypeOK
    <3>3. QED
      BY <3>1, <3>2, QuietDurable
  <2>4. CASE PersistUser(t)
    <3>1. Says(t, "user", {}) \in Message /\ FlushTo(t, Says(t, "user", {}))
      BY <2>4, SaysTyped DEF PersistUser, Kind
    <3>2. \A s \in Session : Range(log[s]) \subseteq Range(log'[s])
      BY <3>1, FlushKeepsRecords
    <3>3. /\ delta' = delta
          /\ \A u \in Turn : pc'[u] \notin {"return", "over"}
                              => pc[u] \notin {"return", "over"}
      BY <2>4 DEF PersistUser, Goto, TypeOK, buffer
    <3>4. QED
      BY <3>2, <3>3, QuietDurable
  <2>5. CASE \/ Nudge(t)
             \/ \E kind \in {"final", "empty"} : ModelStops(t, kind)
             \/ \E c \in Place : RejectCall(t, c) \/ RunCall(t, c) \/ StreamCall(t, c)
             \/ \E n \in 1..CallsOf[t], kind \in {"calls", "bare"} :
                    CallTools(t, 1..n, kind)
    <3>1. pc[t] \notin {"return", "over"}
      BY <2>5 DEF Nudge, ModelStops, RejectCall, RunCall, StreamCall, Answered, CallTools
    <3>2. \A n \in 1..CallsOf[t] : 1..n \in SUBSET Place
      BY TurnConstants DEF Place, TurnConstants
    <3>3. PICK kind \in Kind, places \in SUBSET Place,
               next \in {"iterate", "tools", "finish"} :
                 Emit(t, Says(t, kind, places), next)
      <4>1. CASE Nudge(t)
        BY <4>1 DEF Nudge, Kind
      <4>2. CASE \E kind \in {"final", "empty"} : ModelStops(t, kind)
        BY <4>2 DEF ModelStops, Kind
      <4>3. CASE \E c \in Place : RejectCall(t, c) \/ RunCall(t, c) \/ StreamCall(t, c)
        BY <4>3 DEF RejectCall, RunCall, StreamCall, Answered, Kind
      <4>4. CASE \E n \in 1..CallsOf[t], kind \in {"calls", "bare"} :
                    CallTools(t, 1..n, kind)
        BY <3>2, <4>4 DEF CallTools, Kind
      <4>5. QED
        BY <2>5, <4>1, <4>2, <4>3, <4>4
    <3>4. Says(t, kind, places) \in Message /\ Says(t, kind, places).turn = t
      BY SaysTyped
    <3>5. QED
      BY <3>1, <3>3, <3>4, EmitDurable
  <2>6. QED
    BY <2>1, <2>2, <2>3, <2>4, <2>5 DEF StepOf
<1>3. QED
  BY <1>1, <1>2

\* The entry that prepareTurn makes of a message is about the same calls.
LEMMA EntryOnRecord ==
    ASSUME TypeOK, NEW m \in Range(delta), OnRecord(m), m.kind \notin {"bare", "empty"}
    PROVE  \E entry \in Range(log[SessionOf[m.turn]]) :
               /\ entry.turn = m.turn /\ entry.iter = m.iter /\ entry.calls = m.calls
               /\ entry.kind = IF m.kind \in {"result", "file"} THEN "excerpt" ELSE m.kind
<1>1. m \in Message
  BY MessagesHaveTurns
<1>2. Prepared(m) = <<Logged(m)>>
  BY DEF Prepared
<1>3. Logged(m) \in Range(log[SessionOf[m.turn]])
  <2>1. Logged(m) \in Range(<<Logged(m)>>)
    BY DEF Range
  <2>2. QED
    BY <1>2, <2>1 DEF OnRecord
<1>4. /\ Logged(m).turn = m.turn /\ Logged(m).iter = m.iter /\ Logged(m).calls = m.calls
      /\ Logged(m).kind = IF m.kind \in {"result", "file"} THEN "excerpt" ELSE m.kind
  BY <1>1 DEF Logged, IsResult, Message
<1>5. QED
  BY <1>3, <1>4

\* A turn goes on only from messages that are on record, for any number of
\* turns at a time: Emit of runAgentLoop, which ends the turn when the append
\* to the log fails.  The record of a result is an excerpt.
THEOREM DurableBuffer == Spec => []BufferIsDurable
<1>1. Init => TypeOK /\ DurableInv
  BY InitTyped DEF Init, DurableInv, Range
<1>2. TypeOK /\ DurableInv /\ [Next]_vars => (TypeOK /\ DurableInv)'
  BY TypesKept, DurableKept
<1>3. TypeOK /\ DurableInv => BufferIsDurable
  <2>1. SUFFICES ASSUME TypeOK, DurableInv, NEW t \in Turn, Active(t),
                        NEW m \in Range(delta), m.turn = t, m.kind \notin {"bare", "empty"}
                 PROVE  \E entry \in Range(log[SessionOf[t]]) :
                          /\ entry.turn = t /\ entry.iter = m.iter /\ entry.calls = m.calls
                          /\ entry.kind = IF m.kind \in {"result", "file"} THEN "excerpt"
                                                                         ELSE m.kind
    BY DEF BufferIsDurable
  <2>2. OnRecord(m)
    BY <2>1 DEF DurableInv, Active, Running
  <2>3. QED
    BY <2>1, <2>2, EntryOnRecord
<1>4. QED
  BY <1>1, <1>2, <1>3, PTL DEF Spec

-----------------------------------------------------------------------------
(***************************************************************************)
(* Scratch files                                                           *)
(***************************************************************************)
\* No step leaves a file behind at the end of a turn without an error.
LEMMA ScratchKept ==
    ASSUME TypeOK, ScratchRemoved, [Next]_vars
    PROVE  ScratchRemoved'
<1>1. CASE UNCHANGED vars
  BY <1>1 DEF ScratchRemoved, vars, turnState
<1>2. CASE Next /\ ~UNCHANGED vars
  <2>1. PICK t \in Turn : StepOf(t)
    BY <1>2, StepCases
  <2>2. SUFFICES ASSUME NEW u \in Turn, pc'[u] = "return", outcome'[u] # "failed",
                        NEW f \in files'
                 PROVE  f[1] # u
    BY DEF ScratchRemoved
  <2>3. CASE PostTurn(t)
    BY <2>2, <2>3 DEF PostTurn, RemainingFiles, Goto, ScratchRemoved, TypeOK
  <2>4. CASE \E c \in Place : StreamCall(t, c)
    <3>1. PICK c \in Place : StreamCall(t, c)
      BY <2>4
    <3>2. Id(t, c)[1] = t /\ files' = files \cup {Id(t, c)}
      BY <3>1 DEF StreamCall, Id
    <3>3. u # t /\ pc[u] = "return" /\ outcome[u] # "failed"
      BY <2>2, <3>1 DEF StreamCall, Answered, Emit, End, Goto, TypeOK
    <3>4. QED
      BY <3>2, <3>3 DEF ScratchRemoved
  <2>5. CASE ~PostTurn(t) /\ ~(\E c \in Place : StreamCall(t, c))
    <3>1. UNCHANGED files
      BY <2>1, <2>5 DEF StepOf, StartTurn, BuildPrompt, PersistUser, Iterate, LimitReached,
            ModelErrs, Recover, GiveUp, Nudge, Finish, Return, TurnFails,
            ModelStops, RejectCall, RunCall, CallTools
    <3>2. \/ pc' = [pc EXCEPT ![t] = "return"] /\ outcome' = [outcome EXCEPT ![t] = "failed"]
          \/ \E place, how :
                /\ place # "return"
                /\ pc' = [pc EXCEPT ![t] = place]
                /\ \/ UNCHANGED outcome
                   \/ outcome' = [outcome EXCEPT ![t] = how]
      BY <2>1, <2>5 DEF StepOf, StartTurn, BuildPrompt, PersistUser, Iterate, LimitReached,
            ModelErrs, Recover, GiveUp, Nudge, Finish, Return, TurnFails,
            ModelStops, RejectCall, RunCall, CallTools, Answered,
            Emit, End, Goto
    <3>3. pc[u] = "return" /\ outcome[u] # "failed"
      BY <2>2, <3>2 DEF TypeOK
    <3>4. QED
      BY <2>2, <3>1, <3>3 DEF ScratchRemoved
  <2>6. QED
    BY <2>3, <2>4, <2>5
<1>3. QED
  BY <1>1, <1>2

\* A turn that ends without an error has removed its scratch files, whatever
\* other turns stream meanwhile: PostTurn of the executor.
THEOREM NoScratchLeft == Spec => []ScratchRemoved
<1>1. Init => TypeOK /\ ScratchRemoved
  BY InitTyped DEF Init, ScratchRemoved
<1>2. TypeOK /\ ScratchRemoved /\ [Next]_vars => (TypeOK /\ ScratchRemoved)'
  BY TypesKept, ScratchKept
<1>3. QED
  BY <1>1, <1>2, PTL DEF Spec

-----------------------------------------------------------------------------
(***************************************************************************)
(* Calls and results                                                       *)
(***************************************************************************)

\* A message's place in its turn's course: it is of a turn that has written its
\* first message, its ids are the turn's own, of iterations so far, and none is of
\* a response still to come or of a result still to come.
Fits(m, place, iter, open) ==
    /\ place \notin {"idle", "prompt", "user"}
    /\ \A id \in m.calls : id[1] = m.turn
    /\ place \notin {"return", "over"} =>
        \A id \in m.calls :
            /\ id[2] <= iter
            /\ id[2] = iter => place # "chat"
            /\ id[2] = iter /\ place = "tools" /\ IsResult(m) => id[3] \notin open

Known(msgs) ==
    \A m \in Range(msgs) : Fits(m, pc[m.turn], iteration[m.turn], todo[m.turn])

\* What a turn may do next.
Moves(p, i, o, p2, i2, o2) ==
    \/ p2 = p /\ i2 = i /\ o2 = o
    \/ p \in {"idle", "prompt", "user"}
    \/ p2 \in {"return", "over"}
    \/ /\ p \notin {"return", "over"}
       /\ p2 \notin {"idle", "prompt", "user", "chat"} /\ i2 = i
       /\ p2 = "tools" => p = "chat" \/ (p = "tools" /\ o2 \subseteq o)
    \/ /\ p \notin {"return", "over"}
       /\ p2 = "chat" /\ i2 = i + 1

\* A message fits wherever its turn goes, also with fewer calls.
LEMMA FitsOn ==
    ASSUME NEW x \in Message, NEW p, NEW i \in Nat, NEW o, Fits(x, p, i, o),
           NEW p2, NEW i2 \in Nat, NEW o2, Moves(p, i, o, p2, i2, o2),
           NEW m, m.turn = x.turn, m.calls \subseteq x.calls, IsResult(m) => IsResult(x)
    PROVE  Fits(m, p2, i2, o2)
<1>1. \A id \in m.calls : id \in x.calls /\ id[2] \in Nat
  BY DEF Message, CallId
<1>2. p \notin {"idle", "prompt", "user"} /\ \A id \in m.calls : id[1] = m.turn
  BY <1>1 DEF Fits
<1>3. CASE p2 = p /\ i2 = i /\ o2 = o
  BY <1>1, <1>3 DEF Fits
<1>4. CASE p2 \in {"return", "over"}
  BY <1>2, <1>4 DEF Fits
<1>5. CASE /\ p \notin {"return", "over"}
           /\ p2 \notin {"idle", "prompt", "user", "chat"} /\ i2 = i
           /\ p2 = "tools" => p = "chat" \/ (p = "tools" /\ o2 \subseteq o)
  BY <1>1, <1>2, <1>5 DEF Fits
<1>6. CASE p \notin {"return", "over"} /\ p2 = "chat" /\ i2 = i + 1
  <2>1. \A id \in m.calls : id[2] <= i2 /\ id[2] # i2
    BY <1>1, <1>6 DEF Fits
  <2>2. QED
    BY <1>2, <1>6, <2>1 DEF Fits
<1>7. QED
  BY <1>2, <1>3, <1>4, <1>5, <1>6 DEF Moves

\* A message turn t says now: calls before any of this iteration, or the result
\* of a call that is still to be handled, or neither.
Said(t, m) ==
    /\ m \in Message /\ m.turn = t
    /\ ~(IsCalls(m) /\ IsResult(m))
    /\ \A id \in m.calls : id[1] = t /\ id[2] = iteration[t]
    /\ IsCalls(m) => pc[t] = "chat"
    /\ IsResult(m) => /\ pc[t] = "tools"
                      /\ \E c \in todo[t] : m.calls = {Id(t, c)}

\* It leaves a history sound.
LEMMA SaidIsSound ==
    ASSUME NEW msgs \in Seq(Message), Sound(msgs), Known(msgs),
           NEW t \in Turn, NEW m, Said(t, m)
    PROVE  Sound(Append(msgs, m))
<1>1. ASSUME NEW x \in Range(msgs), NEW id \in x.calls, id \in m.calls
      PROVE  x.turn = t /\ id[2] = iteration[t] /\ Fits(x, pc[t], iteration[t], todo[t])
  BY <1>1 DEF Known, Said, Fits
<1>2. ASSUME IsCalls(m), NEW x \in Range(msgs) PROVE x.calls \cap m.calls = {}
  <2>1. pc[t] = "chat"
    BY <1>2 DEF Said
  <2>2. QED
    BY <1>1, <2>1 DEF Fits
<1>3. ASSUME IsResult(m), NEW x \in Range(msgs), IsResult(x) PROVE x.calls \cap m.calls = {}
  <2>1. PICK c \in todo[t] : m.calls = {Id(t, c)}
    BY <1>3 DEF Said
  <2>2. pc[t] = "tools" /\ Id(t, c)[3] = c
    BY <1>3 DEF Said, Id
  <2>3. QED
    BY <1>1, <1>3, <2>1, <2>2 DEF Fits
<1>4. IsResult(m) => \E id \in m.calls : m.calls = {id}
  BY DEF Said
<1>5. m \in Message /\ ~(IsCalls(m) /\ IsResult(m))
  BY DEF Said
<1>6. QED
  BY <1>2, <1>3, <1>4, <1>5, AppendIsSound

\* The actions in which a turn says something, but for its user's message.
Speaks(t, kind, places, next) ==
    /\ Emit(t, Says(t, kind, places), next)
    /\ UNCHANGED <<iteration, request, prompt, prior>>
    /\ \A u \in Turn : u # t => todo'[u] = todo[u]
    /\ \/ /\ kind \in {"calls", "bare"} /\ pc[t] = "chat"
          /\ next = "tools" /\ todo'[t] = places
          /\ UNCHANGED files
       \/ /\ kind \in {"result", "file"} /\ pc[t] = "tools"
          /\ next \in {"iterate", "tools"}
          /\ \E c \in todo[t] : /\ places = {c} /\ todo'[t] = todo[t] \ {c}
                                /\ next = "iterate" <=> todo'[t] = {}
                                /\ \/ kind = "result" /\ UNCHANGED files
                                   \/ kind = "file" /\ files' = files \cup {Id(t, c)}
       \/ /\ kind \in {"final", "empty", "nudge"} /\ places = {} /\ pc[t] \in {"chat", "finish"}
          /\ next \in {"finish", "iterate"}
          /\ UNCHANGED <<todo, files>>

\* Every step speaks, or it is one of the others.
LEMMA SpeakingSteps ==
    ASSUME TypeOK, NEW t \in Turn, StepOf(t)
    PROVE  \/ StartTurn(t) \/ BuildPrompt(t) \/ PersistUser(t)
           \/ Iterate(t) \/ LimitReached(t)
           \/ ModelErrs(t) \/ Recover(t) \/ GiveUp(t)
           \/ Finish(t) \/ PostTurn(t) \/ Return(t)
           \/ TurnFails(t)
           \/ \E kind \in Kind, places \in SUBSET Place, next \in {"iterate", "tools", "finish"} :
                Speaks(t, kind, places, next)
<1>1. CASE Nudge(t)
  <2>1. Speaks(t, "nudge", {}, "iterate")
    BY <1>1 DEF Nudge, Speaks
  <2>2. "nudge" \in Kind
    BY DEF Kind
  <2>3. QED
    BY <2>1, <2>2
<1>2. ASSUME NEW kind \in {"final", "empty"}, ModelStops(t, kind)
      PROVE  kind \in Kind /\ Speaks(t, kind, {}, "finish")
  BY <1>2 DEF ModelStops, Speaks, Kind
<1>3. ASSUME NEW c \in Place, RejectCall(t, c) \/ RunCall(t, c) \/ StreamCall(t, c)
      PROVE  \E kind \in Kind, next \in {"iterate", "tools"} : Speaks(t, kind, {c}, next)
  <2>1. PICK kind \in {"result", "file"} :
            /\ Answered(t, c, kind)
            /\ \/ kind = "result" /\ UNCHANGED files
               \/ kind = "file" /\ files' = files \cup {Id(t, c)}
    BY <1>3 DEF RejectCall, RunCall, StreamCall
  <2>2. PICK next \in {"iterate", "tools"} :
            Emit(t, Says(t, kind, {c}), next) /\ (next = "iterate" <=> todo[t] = {c})
    BY <2>1 DEF Answered
  <2>3. /\ c \in todo[t] /\ pc[t] = "tools" /\ todo'[t] = todo[t] \ {c}
        /\ \A u \in Turn : u # t => todo'[u] = todo[u]
        /\ UNCHANGED <<iteration, request, prompt, prior>>
    BY <2>1 DEF Answered, TypeOK
  <2>4. next = "iterate" <=> todo'[t] = {}
    BY <2>2, <2>3
  <2>5. kind \in Kind
    BY DEF Kind
  <2>6. Speaks(t, kind, {c}, next)
    BY <2>1, <2>2, <2>3, <2>4 DEF Speaks
  <2>7. QED
    BY <2>5, <2>6
<1>4. ASSUME NEW n \in 1..CallsOf[t], NEW kind \in {"calls", "bare"}, CallTools(t, 1..n, kind)
      PROVE  /\ kind \in Kind /\ 1..n \in SUBSET Place
             /\ Speaks(t, kind, 1..n, "tools")
  <2>1. 1..n \in SUBSET Place
    BY TurnConstants DEF Place, TurnConstants
  <2>2. kind \in Kind
    BY DEF Kind
  <2>3. todo'[t] = 1..n /\ \A u \in Turn : u # t => todo'[u] = todo[u]
    BY <1>4 DEF CallTools, TypeOK
  <2>4. Speaks(t, kind, 1..n, "tools")
    BY <1>4, <2>3 DEF CallTools, Speaks
  <2>5. QED
    BY <2>1, <2>2, <2>4
<1>5. QED
  BY <1>1, <1>2, <1>3, <1>4 DEF StepOf

\* What is said is said by the rules.
LEMMA SpeaksSays ==
    ASSUME TypeOK, NEW t \in Turn, NEW kind \in Kind, NEW places \in SUBSET Place, NEW next,
           Speaks(t, kind, places, next)
    PROVE  Said(t, Says(t, kind, places))
<1> DEFINE m == Says(t, kind, places)
<1>1. m \in Message /\ m.turn = t /\ m.kind = kind
  BY SaysTyped
<1>2. m.calls = {Id(t, c) : c \in places}
  BY DEF Says
<1>3. \A id \in m.calls : id[1] = t /\ id[2] = iteration[t]
  BY <1>2 DEF Id
<1>4. IsCalls(m) => pc[t] = "chat"
  BY <1>1 DEF IsCalls, Speaks
<1>5. ASSUME IsResult(m) PROVE pc[t] = "tools" /\ \E c \in todo[t] : m.calls = {Id(t, c)}
  <2>1. PICK c \in todo[t] : places = {c} /\ pc[t] = "tools"
    BY <1>1, <1>5 DEF IsResult, Speaks
  <2>2. m.calls = {Id(t, c)}
    BY <1>2, <2>1
  <2>3. QED
    BY <2>1, <2>2
<1>6. ~(IsCalls(m) /\ IsResult(m))
  BY DEF IsCalls, IsResult
<1>7. QED
  BY <1>1, <1>3, <1>4, <1>5, <1>6 DEF Said

\* Where a step takes the turns.
LEMMA StepMoves ==
    ASSUME TypeOK, NEW t \in Turn, StepOf(t), NEW u \in Turn
    PROVE  /\ u # t => pc'[u] = pc[u] /\ iteration'[u] = iteration[u] /\ todo'[u] = todo[u]
           /\ Moves(pc[u], iteration[u], todo[u], pc'[u], iteration'[u], todo'[u])
<1>1. CASE \/ StartTurn(t) \/ BuildPrompt(t) \/ PersistUser(t)
           \/ Iterate(t) \/ LimitReached(t)
           \/ ModelErrs(t) \/ Recover(t) \/ GiveUp(t)
           \/ Finish(t) \/ PostTurn(t) \/ Return(t) \/ TurnFails(t)
  BY <1>1 DEF StartTurn, BuildPrompt, PersistUser, Iterate, LimitReached, ModelErrs, Recover,
     GiveUp, Finish, PostTurn, Return, TurnFails, End, Goto, Moves, TypeOK
<1>2. ASSUME NEW kind \in Kind, NEW places \in SUBSET Place,
             NEW next \in {"iterate", "tools", "finish"}, Speaks(t, kind, places, next)
      PROVE  /\ u # t => pc'[u] = pc[u] /\ iteration'[u] = iteration[u] /\ todo'[u] = todo[u]
             /\ Moves(pc[u], iteration[u], todo[u], pc'[u], iteration'[u], todo'[u])
  <2>1. pc' = [pc EXCEPT ![t] = next] \/ pc' = [pc EXCEPT ![t] = "return"]
    BY <1>2 DEF Speaks, Emit, End, Goto
  <2>2. u # t => pc'[u] = pc[u] /\ iteration'[u] = iteration[u] /\ todo'[u] = todo[u]
    BY <1>2, <2>1 DEF Speaks, TypeOK
  <2>3. CASE u = t
    <3>1. /\ pc[t] \in {"chat", "tools", "finish"} /\ iteration'[t] = iteration[t]
          /\ pc'[t] \in {"return", next}
          /\ next = "tools" => pc[t] = "chat" \/ (pc[t] = "tools" /\ todo'[t] \subseteq todo[t])
      <4>1. pc'[t] \in {"return", next} /\ iteration'[t] = iteration[t]
        BY <1>2, <2>1 DEF Speaks, TypeOK
      <4>2. /\ pc[t] \in {"chat", "tools", "finish"}
            /\ next = "tools" => pc[t] = "chat" \/ (pc[t] = "tools" /\ todo'[t] \subseteq todo[t])
        BY <1>2 DEF Speaks
      <4>3. QED
        BY <4>1, <4>2
    <3>2. QED
      BY <2>3, <3>1 DEF Moves
  <2>4. QED
    BY <2>2, <2>3 DEF Moves
<1>3. QED
  BY <1>1, <1>2, SpeakingSteps

\* The logs and the buffer are sound and know where each turn is; what a
\* compaction put into the buffer names no scratch file.
HistoryInv ==
    /\ \A s \in Session : /\ Sound(log[s]) /\ Known(log[s])
                          /\ \A m \in Range(log[s]) : m.kind # "file"
    /\ Sound(Loaded) /\ Known(Loaded)
    /\ \A m \in Range(prior) : m.kind # "file"

\* A history that got nothing new stays known.
LEMMA KnownStays ==
    ASSUME TypeOK, TypeOK', NEW t \in Turn, StepOf(t),
           NEW msgs \in Seq(Message), Known(msgs), NEW later,
           \A m \in Range(later) : \E x \in Range(msgs) :
                /\ m.turn = x.turn /\ m.calls \subseteq x.calls
                /\ IsResult(m) => IsResult(x)
    PROVE  \A m \in Range(later) : Fits(m, pc'[m.turn], iteration'[m.turn], todo'[m.turn])
<1>1. SUFFICES ASSUME NEW m \in Range(later)
               PROVE  Fits(m, pc'[m.turn], iteration'[m.turn], todo'[m.turn])
  OBVIOUS
<1>2. PICK x \in Range(msgs) : /\ m.turn = x.turn /\ m.calls \subseteq x.calls
                               /\ IsResult(m) => IsResult(x)
  OBVIOUS
<1>3. x \in Message /\ x.turn \in Turn
  <2>1. x \in Message
    BY RangeTyped
  <2>2. QED
    BY <2>1 DEF Message
<1>4. Fits(x, pc[x.turn], iteration[x.turn], todo[x.turn])
  BY DEF Known
<1>5. Moves(pc[x.turn], iteration[x.turn], todo[x.turn],
            pc'[x.turn], iteration'[x.turn], todo'[x.turn])
  BY <1>3, StepMoves
<1>6. iteration[x.turn] \in Nat /\ iteration'[x.turn] \in Nat
  <2>1. \A u \in Turn : iteration[u] \in 0..MaxIterations /\ iteration'[u] \in 0..MaxIterations
    BY DEF TypeOK
  <2>2. MaxIterations \in Nat
    BY TurnConstants DEF TurnConstants
  <2>3. QED
    BY <1>3, <2>1, <2>2
<1>7. QED
  BY <1>2, <1>3, <1>4, <1>5, <1>6, FitsOn

\* Nor does it matter what the turn said, which fits where the turn goes.
LEMMA KnownGrows ==
    ASSUME TypeOK, TypeOK', NEW t \in Turn, StepOf(t),
           NEW msgs \in Seq(Message), Known(msgs), Sound(msgs), NEW m, Said(t, m),
           Fits(m, pc'[t], iteration'[t], todo'[t])
    PROVE  /\ \A x \in Range(Append(msgs, m)) :
                Fits(x, pc'[x.turn], iteration'[x.turn], todo'[x.turn])
           /\ Sound(Append(msgs, m))
<1>1. Range(Append(msgs, m)) = Range(msgs) \cup {m}
  BY RangeOfAppend
<1>2. \A x \in Range(msgs) : Fits(x, pc'[x.turn], iteration'[x.turn], todo'[x.turn])
  BY KnownStays
<1>3. Fits(m, pc'[m.turn], iteration'[m.turn], todo'[m.turn])
  BY DEF Said
<1>4. QED
  BY <1>1, <1>2, <1>3, SaidIsSound

\* What reaches the log: the message without its scratch file, or nothing.
LEMMA FlushSays ==
    ASSUME TypeOK, NEW t \in Turn, NEW m, Said(t, m), FlushTo(t, m), NEW s \in Session
    PROVE  \/ log'[s] = log[s]
           \/ \E x \in Message : /\ log'[s] = Append(log[s], x) /\ s = SessionOf[t]
                                 /\ Said(t, x) /\ x.calls = m.calls
                                 /\ IsResult(x) => IsResult(m)
                                 /\ x.kind # "file"
<1>1. m \in Message /\ log[s] \in Seq(Message) /\ SessionOf[t] \in Session
  BY TurnConstants DEF Said, TypeOK, TurnConstants
<1>2. log'[s] = IF s = SessionOf[t] THEN log[s] \o Prepared(m) ELSE log[s]
  BY <1>1 DEF FlushTo, TypeOK
<1>3. CASE m.kind \in {"bare", "empty"}
  <2>1. Prepared(m) = <<>>
    BY <1>3 DEF Prepared
  <2>2. log[s] \o <<>> = log[s]
    BY <1>1
  <2>3. QED
    BY <1>2, <2>1, <2>2
<1>4. CASE IsResult(m) /\ s = SessionOf[t]
  <2>0. PICK x : x = [m EXCEPT !.kind = "excerpt"]
    OBVIOUS
  <2>1. /\ x \in Message /\ x.turn = m.turn /\ x.calls = m.calls /\ x.kind = "excerpt"
    BY <1>1, <2>0 DEF Message, Kind
  <2>2. Prepared(m) = <<x>>
    BY <1>4, <2>0 DEF Prepared, Logged, IsResult
  <2>3. log'[s] = Append(log[s], x)
    BY <1>1, <1>2, <1>4, <2>1, <2>2
  <2>4. IsResult(m) /\ ~IsCalls(x)
    BY <1>4, <2>1 DEF IsResult, IsCalls
  <2>5. Said(t, x)
    BY <2>1, <2>4 DEF Said
  <2>6. QED
    BY <1>4, <2>1, <2>3, <2>4, <2>5
<1>5. CASE m.kind \notin {"bare", "empty"} /\ ~IsResult(m) /\ s = SessionOf[t]
  <2>1. Prepared(m) = <<m>> /\ m.kind # "file"
    BY <1>5 DEF Prepared, Logged, IsResult
  <2>2. log'[s] = Append(log[s], m)
    BY <1>1, <1>2, <1>5, <2>1
  <2>3. QED
    BY <1>1, <1>5, <2>1, <2>2
<1>6. QED
  BY <1>2, <1>3, <1>4, <1>5

\* What a turn said fits where it goes.
LEMMA SaidFits ==
    ASSUME TypeOK, NEW t \in Turn, NEW m, Said(t, m), iteration'[t] = iteration[t],
           pc'[t] \notin {"idle", "prompt", "user", "chat"},
           pc'[t] = "tools" /\ IsResult(m) =>
                \A c \in todo[t] : m.calls = {Id(t, c)} => c \notin todo'[t]
    PROVE  Fits(m, pc'[t], iteration'[t], todo'[t])
<1>1. \A id \in m.calls : id[1] = m.turn /\ id[2] = iteration'[t]
  BY DEF Said
<1>2. iteration'[t] \in Nat
  BY TurnConstants DEF TypeOK, TurnConstants
<1>3. ASSUME pc'[t] = "tools", IsResult(m), NEW id \in m.calls
      PROVE  id[3] \notin todo'[t]
  <2>1. PICK c \in todo[t] : m.calls = {Id(t, c)}
    BY <1>3 DEF Said
  <2>2. c \notin todo'[t] /\ id = Id(t, c)
    BY <1>3, <2>1
  <2>3. QED
    BY <2>2 DEF Id
<1>4. QED
  BY <1>1, <1>2, <1>3 DEF Fits

\* A message in the buffer is appended to what the next request is loaded from.
LEMMA LoadedGrows ==
    ASSUME TypeOK, NEW m \in Message, delta' = Append(delta, m), UNCHANGED prior
    PROVE  Loaded' = Append(Loaded, m)
  BY DEF Loaded, TypeOK

\* Each step leaves the logs and the buffer sound, and with the turns.
LEMMA HistoryKept ==
    ASSUME TypeOK, TypeOK', HistoryInv, NEW t \in Turn, StepOf(t)
    PROVE  HistoryInv'
<1> DEFINE Stands(msgs) == \A m \in Range(msgs) :
                               Fits(m, pc'[m.turn], iteration'[m.turn], todo'[m.turn])
<1>0. /\ \A s \in Session : log[s] \in Seq(Message)
      /\ Loaded \in Seq(Message) /\ prior \in Seq(Message)
  BY DEF TypeOK, Loaded
<1>1. ASSUME NEW msgs \in Seq(Message), Known(msgs) PROVE Stands(msgs)
  BY <1>1, KnownStays
<1>2. (\A s \in Session : Stands(log[s])) /\ Stands(Loaded)
  BY <1>0, <1>1 DEF HistoryInv
<1>3. SUFFICES /\ \A s \in Session : /\ Sound(log'[s]) /\ Stands(log'[s])
                                     /\ \A m \in Range(log'[s]) : m.kind # "file"
               /\ Sound(Loaded') /\ Stands(Loaded')
               /\ \A m \in Range(prior') : m.kind # "file"
  BY DEF HistoryInv, Known
<1> HIDE DEF Stands
<1>4. CASE UNCHANGED <<log, prior, delta>>
  <2>1. Loaded' = Loaded
    BY <1>4 DEF Loaded
  <2>2. QED
    BY <1>2, <1>4, <2>1 DEF HistoryInv
\* The logs when the turn says m and goes on.
<1>5. ASSUME NEW m, Said(t, m), FlushTo(t, m), iteration'[t] = iteration[t],
             pc'[t] \notin {"idle", "prompt", "user", "chat"},
             pc'[t] = "tools" /\ IsResult(m) =>
                \A c \in todo[t] : m.calls = {Id(t, c)} => c \notin todo'[t],
             NEW s \in Session
      PROVE  /\ Sound(log'[s]) /\ Stands(log'[s])
             /\ \A x \in Range(log'[s]) : x.kind # "file"
  <2>1. CASE log'[s] = log[s]
    BY <1>2, <2>1 DEF HistoryInv
  <2>2. ASSUME NEW x \in Message, log'[s] = Append(log[s], x), Said(t, x), x.calls = m.calls,
               IsResult(x) => IsResult(m), x.kind # "file"
        PROVE  /\ Sound(log'[s]) /\ Stands(log'[s])
               /\ \A y \in Range(log'[s]) : y.kind # "file"
    <3>1. Fits(x, pc'[t], iteration'[t], todo'[t])
      BY <1>5, <2>2, SaidFits
    <3>2. Sound(log'[s]) /\ Stands(log'[s])
      BY <1>0, <2>2, <3>1, KnownGrows DEF HistoryInv, Stands
    <3>3. Range(log'[s]) = Range(log[s]) \cup {x}
      BY <1>0, <2>2, RangeOfAppend
    <3>4. QED
      BY <2>2, <3>2, <3>3 DEF HistoryInv
  <2>3. QED
    BY <1>5, <2>1, <2>2, FlushSays
<1>6. CASE PersistUser(t)
  <2> DEFINE m == Says(t, "user", {})
  <2>1. m \in Message /\ m.turn = t /\ m.kind = "user" /\ m.calls = {}
    <3>1. m.calls = {}
      BY DEF Says
    <3>2. QED
      BY <3>1, SaysTyped DEF Kind
  <2>2. Said(t, m) /\ ~IsResult(m)
    BY <2>1 DEF Said, IsCalls, IsResult
  <2>3. /\ FlushTo(t, m) /\ iteration'[t] = iteration[t] /\ pc'[t] = "iterate"
        /\ UNCHANGED <<prior, delta>>
    BY <1>6 DEF PersistUser, Goto, TypeOK, buffer
  <2> HIDE DEF m
  <2>4. Loaded' = Loaded
    BY <2>3 DEF Loaded
  <2>5. QED
    BY <1>2, <1>5, <2>2, <2>3, <2>4 DEF HistoryInv
<1>7. CASE Recover(t)
  <2> DEFINE history == log[SessionOf[t]]
  <2>1. history \in Seq(Message) /\ Sound(history) /\ Known(history)
    BY <1>0, TurnConstants DEF HistoryInv, TurnConstants
  <2>2. PICK from \in 2..(Len(history) + 1) :
            prior' = Repaired(SubSeq(history, from, Len(history)))
    BY <1>7 DEF Recover
  <2>3. delta' = <<>> /\ UNCHANGED log
    BY <1>7 DEF Recover
  <2> DEFINE suffix == SubSeq(history, from, Len(history))
  <2>4. from \in Nat /\ from >= 1
    BY <2>1
  <2>5. Sound(suffix) /\ Range(suffix) \subseteq Range(history) /\ suffix \in Seq(Message)
    BY <2>1, <2>4, SuffixIsSound
  <2>6. Known(suffix)
    BY <2>1, <2>5 DEF Known
  <2> HIDE DEF suffix
  <2>7. /\ Sound(prior') /\ prior' \in Seq(Message)
        /\ \A m \in Range(prior') : \E x \in Range(suffix) :
            /\ m.turn = x.turn /\ m.calls \subseteq x.calls
            /\ IsResult(m) => IsResult(x)
            /\ m.kind \in {x.kind, "text"}
    BY <2>2, <2>5, RepairedTyped DEF suffix
  <2>8. Stands(prior')
    BY <2>5, <2>6, <2>7, KnownStays DEF Stands
  <2>9. Loaded' = prior'
    BY <2>3, <2>7 DEF Loaded
  <2>10. \A m \in Range(prior') : m.kind # "file"
    <3>1. \A x \in Range(suffix) : x.kind # "file"
      BY <2>5, TurnConstants DEF HistoryInv, TurnConstants
    <3>2. QED
      BY <2>7, <3>1
  <2>11. QED
    BY <1>2, <2>3, <2>7, <2>8, <2>9, <2>10 DEF HistoryInv
<1>8. ASSUME NEW kind \in Kind, NEW places \in SUBSET Place,
             NEW next \in {"iterate", "tools", "finish"}, Speaks(t, kind, places, next)
      PROVE  /\ \A s \in Session : /\ Sound(log'[s]) /\ Stands(log'[s])
                                   /\ \A m \in Range(log'[s]) : m.kind # "file"
             /\ Sound(Loaded') /\ Stands(Loaded')
             /\ \A m \in Range(prior') : m.kind # "file"
  <2> DEFINE m == Says(t, kind, places)
  <2>1. Said(t, m) /\ m.kind = kind
    BY <1>8, SpeaksSays, SaysTyped
  <2>2. /\ delta' = Append(delta, m) /\ prior' = prior /\ iteration' = iteration
        /\ pc' = [pc EXCEPT ![t] = next] \/ pc' = [pc EXCEPT ![t] = "return"]
        /\ FlushTo(t, m) \/ UNCHANGED log
    BY <1>8 DEF Speaks, Emit, Goto, End
  <2> HIDE DEF m
  <2>3. iteration'[t] = iteration[t] /\ pc'[t] \notin {"idle", "prompt", "user", "chat"}
    BY <2>2 DEF TypeOK
  <2>4. ASSUME IsResult(m), NEW c \in todo[t], m.calls = {Id(t, c)}
        PROVE  c \notin todo'[t]
    <3>1. PICK d \in todo[t] : places = {d} /\ todo'[t] = todo[t] \ {d}
      BY <1>8, <2>1, <2>4 DEF Speaks, IsResult
    <3>2. m.calls = {Id(t, d)}
      BY <3>1 DEF m, Says
    <3>3. c = d
      <4>1. Id(t, c) = Id(t, d)
        BY <2>4, <3>2
      <4>2. QED
        BY <4>1 DEF Id
    <3>4. QED
      BY <3>1, <3>3
  <2>5. Fits(m, pc'[t], iteration'[t], todo'[t])
    BY <2>1, <2>3, <2>4, SaidFits
  <2>6. m \in Message
    BY <2>1 DEF Said
  <2>7. Loaded' = Append(Loaded, m)
    BY <2>2, <2>6, LoadedGrows
  <2>8. Sound(Loaded') /\ Stands(Loaded')
    BY <1>0, <2>1, <2>5, <2>7, KnownGrows DEF HistoryInv, Stands
  <2>9. ASSUME NEW s \in Session
        PROVE  /\ Sound(log'[s]) /\ Stands(log'[s])
               /\ \A x \in Range(log'[s]) : x.kind # "file"
    <3>1. CASE FlushTo(t, m)
      BY <1>5, <2>1, <2>3, <2>4, <3>1
    <3>2. CASE UNCHANGED log
      BY <1>2, <3>2 DEF HistoryInv
    <3>3. QED
      BY <2>2, <3>1, <3>2
  <2>10. QED
    BY <2>2, <2>8, <2>9 DEF HistoryInv
<1>9. CASE \/ StartTurn(t) \/ BuildPrompt(t) \/ Iterate(t) \/ LimitReached(t)
           \/ ModelErrs(t) \/ GiveUp(t) \/ Finish(t) \/ PostTurn(t) \/ Return(t)
           \/ TurnFails(t)
  <2>1. UNCHANGED <<log, prior, delta>>
    BY <1>9 DEF StartTurn, BuildPrompt, Iterate, LimitReached, ModelErrs, GiveUp, Finish,
       PostTurn, Return, TurnFails, buffer
  <2>2. QED
    BY <1>4, <2>1
<1>10. QED
  BY <1>6, <1>7, <1>8, <1>9, SpeakingSteps

\* Before any turn there is nothing to be known.
LEMMA InitHistory == Init => HistoryInv
<1>1. SUFFICES ASSUME Init PROVE HistoryInv
  OBVIOUS
<1>2. Range(<<>>) = {} /\ DOMAIN <<>> = {}
  BY DEF Range
<1>3. /\ \A s \in Session : log[s] = <<>>
      /\ prior = <<>> /\ delta = <<>>
  BY <1>1 DEF Init
<1>4. Loaded = <<>>
  BY <1>3 DEF Loaded
<1>5. Sound(<<>>)
  BY <1>2 DEF Sound, CalledOnce, AnsweredOnce, AnswersFollow, OneAnswerEach
<1>6. QED
  BY <1>2, <1>3, <1>4, <1>5 DEF HistoryInv, Known

\* No step leaves the histories unsound.
LEMMA HistoryNext ==
    ASSUME TypeOK, TypeOK', HistoryInv, [Next]_vars
    PROVE  HistoryInv'
<1>1. CASE UNCHANGED vars
  <2>1. UNCHANGED <<pc, iteration, todo, prior, delta, log>> /\ Loaded' = Loaded
    BY <1>1 DEF vars, turnState, buffer, Loaded
  <2>2. QED
    BY <2>1 DEF HistoryInv, Known
<1>2. QED
  BY <1>1, StepCases, HistoryKept

\* Whatever turns broke off in a session, the prompt of the next is a history
\* a provider accepts.
LEMMA PromptsKept ==
    ASSUME TypeOK, HistoryInv, PromptIsWellFormed, [Next]_vars
    PROVE  PromptIsWellFormed'
<1>1. CASE UNCHANGED vars
  BY <1>1 DEF PromptIsWellFormed, vars, turnState
<1>2. ASSUME NEW t \in Turn, StepOf(t)
      PROVE  PromptIsWellFormed'
  <2>1. CASE BuildPrompt(t)
    <3> DEFINE history == Repaired(log[SessionOf[t]])
               m == Says(t, "user", {})
    <3>1. log[SessionOf[t]] \in Seq(Message) /\ Sound(log[SessionOf[t]])
      BY TurnConstants DEF TypeOK, HistoryInv, TurnConstants
    <3>2. /\ history \in Seq(Message) /\ Sound(history)
          /\ Declared(history) = Responded(history)
      BY <3>1, RepairedTyped
    <3>3. m \in Message /\ ~IsCalls(m) /\ ~IsResult(m)
      BY SaysTyped DEF Kind, IsCalls, IsResult
    <3>4. prompt' = [prompt EXCEPT ![t] = Append(history, m)]
      BY <2>1 DEF BuildPrompt
    <3> HIDE DEF history, m
    <3>5. Sound(Append(history, m))
      BY <3>2, <3>3, AppendIsSound
    <3>6. Range(Append(history, m)) = Range(history) \cup {m}
      BY <3>2, RangeOfAppend
    <3>7. Declared(Append(history, m)) = Responded(Append(history, m))
      <4>1. /\ {x \in Range(Append(history, m)) : IsCalls(x)} = {x \in Range(history) : IsCalls(x)}
            /\ {x \in Range(Append(history, m)) : IsResult(x)} = {x \in Range(history) : IsResult(x)}
        BY <3>3, <3>6
      <4>2. QED
        BY <3>2, <4>1 DEF Declared, Responded
    <3>8. WellFormed(Append(history, m))
      BY <3>5, <3>7, SoundIsWellFormed
    <3>9. QED
      BY <3>4, <3>8 DEF PromptIsWellFormed, TypeOK
  <2>2. CASE Return(t)
    <3>1. Range(<<>>) = {} /\ DOMAIN <<>> = {}
      BY DEF Range
    <3>2. Sound(<<>>) /\ Declared(<<>>) = Responded(<<>>)
      BY <3>1 DEF Sound, CalledOnce, AnsweredOnce, AnswersFollow, OneAnswerEach,
         Declared, Responded
    <3>3. WellFormed(<<>>)
      BY <3>2, SoundIsWellFormed
    <3>4. prompt' = [prompt EXCEPT ![t] = <<>>]
      BY <2>2 DEF Return
    <3>5. QED
      BY <3>3, <3>4 DEF PromptIsWellFormed, TypeOK
  <2>3. CASE ~BuildPrompt(t) /\ ~Return(t)
    <3>1. UNCHANGED prompt
      BY <1>2, <2>3 DEF StepOf, StartTurn, PersistUser, Iterate, LimitReached, ModelErrs, Recover,
         GiveUp, Nudge, Finish, PostTurn, TurnFails, ModelStops, RejectCall, RunCall,
         StreamCall, Answered, CallTools
    <3>2. QED
      BY <3>1 DEF PromptIsWellFormed
  <2>4. QED
    BY <2>1, <2>2, <2>3
<1>3. QED
  BY <1>1, <1>2, StepCases

\* For any number of turns side by side, the prompt that BuildPrompt gets from
\* RepairAndProject has one result for each of its calls, after it: whatever turn
\* of the session was broken off, wherever, or is still at work.
THEOREM PromptsAreWellFormed == Spec => []PromptIsWellFormed
<1>1. Init => HistoryInv /\ PromptIsWellFormed
  <2>1. SUFFICES ASSUME Init PROVE PromptIsWellFormed
    BY InitHistory
  <2>2. Range(<<>>) = {} /\ DOMAIN <<>> = {}
    BY DEF Range
  <2>3. WellFormed(<<>>)
    BY <2>2 DEF WellFormed, Declared, Responded
  <2>4. QED
    BY <2>1, <2>3 DEF Init, PromptIsWellFormed
<1>2. TypeOK /\ TypeOK' /\ HistoryInv /\ [Next]_vars => HistoryInv'
  BY HistoryNext
<1>3. TypeOK /\ HistoryInv /\ PromptIsWellFormed /\ [Next]_vars => PromptIsWellFormed'
  BY PromptsKept
<1>4. QED
  BY TypeCorrect, <1>1, <1>2, <1>3, PTL DEF Spec

\* The calls and results of one turn among msgs.
LEMMA OwnTells ==
    ASSUME NEW msgs, NEW t
    PROVE  /\ Declared(Own(t, msgs)) =
                UNION {m.calls : m \in {x \in Range(msgs) : x.turn = t /\ IsCalls(x)}}
           /\ Responded(Own(t, msgs)) =
                UNION {m.calls : m \in {x \in Range(msgs) : x.turn = t /\ IsResult(x)}}
<1> DEFINE own == Own(t, msgs)
<1>1. Range(own) = {x \in Range(msgs) : x.turn = t}
  BY DEF Own, Restrict, Range
<1>2. /\ {x \in Range(own) : IsCalls(x)} = {x \in Range(msgs) : x.turn = t /\ IsCalls(x)}
      /\ {x \in Range(own) : IsResult(x)} = {x \in Range(msgs) : x.turn = t /\ IsResult(x)}
  BY <1>1
<1>3. QED
  BY <1>2 DEF Declared, Responded

\* What a turn says is its own.
LEMMA OwnGrows ==
    ASSUME NEW msgs \in Seq(Message), NEW t, NEW m \in Message, m.turn = t
    PROVE  /\ Declared(Own(t, Append(msgs, m))) =
                Declared(Own(t, msgs)) \cup (IF IsCalls(m) THEN m.calls ELSE {})
           /\ Responded(Own(t, Append(msgs, m))) =
                Responded(Own(t, msgs)) \cup (IF IsResult(m) THEN m.calls ELSE {})
<1>1. Range(Append(msgs, m)) = Range(msgs) \cup {m}
  BY RangeOfAppend
<1>2. /\ {x \in Range(Append(msgs, m)) : x.turn = t /\ IsCalls(x)} =
            {x \in Range(msgs) : x.turn = t /\ IsCalls(x)} \cup (IF IsCalls(m) THEN {m} ELSE {})
      /\ {x \in Range(Append(msgs, m)) : x.turn = t /\ IsResult(x)} =
            {x \in Range(msgs) : x.turn = t /\ IsResult(x)} \cup (IF IsResult(m) THEN {m} ELSE {})
  BY <1>1
<1>3. \A S : /\ UNION {x.calls : x \in S \cup {m}} = (UNION {x.calls : x \in S}) \cup m.calls
             /\ S \cup {} = S
  <2>1. TAKE S
  <2>2. {x.calls : x \in S \cup {m}} = {x.calls : x \in S} \cup {m.calls}
    OBVIOUS
  <2>3. UNION ({x.calls : x \in S} \cup {m.calls}) = (UNION {x.calls : x \in S}) \cup m.calls
    <3> DEFINE P == {x.calls : x \in S}
               Q == m.calls
    <3> HIDE DEF P, Q
    <3>1. ASSUME NEW id PROVE id \in UNION (P \cup {Q}) <=> id \in (UNION P) \cup Q
      BY Zenon
    <3>2. UNION (P \cup {Q}) = (UNION P) \cup Q
      BY <3>1
    <3>3. QED
      BY <3>2 DEF P, Q
  <2>4. S \cup {} = S
    OBVIOUS
  <2>5. QED
    BY <2>2, <2>3, <2>4
<1>4. QED
  BY <1>2, <1>3, OwnTells

-----------------------------------------------------------------------------
(***************************************************************************)
(* Requests of turns that do not overlap                                   *)
(***************************************************************************)
Alone == \A t, u \in Turn : Running(t) /\ Running(u) => t = u

Open(t) == {Id(t, c) : c \in todo[t]}

\* What the buffer has of an active turn is complete, but for the calls still to
\* be handled; the turn's request is what the buffer was, and still is.
Balanced(t) ==
    /\ pc[t] \notin {"tools", "return", "over"} => todo[t] = {}
    /\ Active(t) => Declared(Own(t, Loaded)) = Responded(Own(t, Loaded)) \cup Open(t)
    /\ pc[t] = "chat" => request[t] = Loaded

\* Without ProcessDirect the processing lock keeps turns apart.
LEMMA AloneKept ==
    ASSUME Direct = {}, TypeOK, Alone, NEW t \in Turn, StepOf(t)
    PROVE  /\ Alone'
           /\ \A u \in Turn : u # t => ~Running(u)'
<1>1. \A u \in Turn : u # t => pc'[u] = pc[u]
  BY StepMoves
<1>2. CASE StartTurn(t)
  BY <1>1, <1>2 DEF StartTurn, Alone, Running
<1>3. CASE ~StartTurn(t)
  <2>1. Running(t)
    BY <1>3 DEF StepOf, BuildPrompt, PersistUser, Iterate, LimitReached, ModelErrs, Recover,
       GiveUp, Nudge, Finish, PostTurn, Return, TurnFails, ModelStops, RejectCall, RunCall,
       StreamCall, Answered, CallTools, Running
  <2>2. QED
    BY <1>1, <2>1 DEF Alone, Running
<1>4. QED
  BY <1>2, <1>3

\* A step of the turn that leaves the buffer alone, when no call is open.
LEMMA BalanceStays ==
    ASSUME NEW t \in Turn, Balanced(t), Active(t), todo[t] = {}, todo'[t] = {},
           Loaded' = Loaded, pc'[t] = "chat" => request'[t] = Loaded
    PROVE  Balanced(t)'
<1>1. Open(t) = {} /\ Open(t)' = {}
  BY DEF Open
<1>2. Own(t, Loaded') = Own(t, Loaded)
  OBVIOUS
<1>3. Declared(Own(t, Loaded))' = Responded(Own(t, Loaded))'
  BY <1>1, <1>2 DEF Balanced
<1>4. QED
  BY <1>1, <1>3 DEF Balanced

\* Each step of a turn keeps its account of calls and results.
LEMMA BalanceKept ==
    ASSUME TypeOK, TypeOK', HistoryInv, HistoryInv', NEW t \in Turn, StepOf(t), Balanced(t)
    PROVE  Balanced(t)'
<1>0. Loaded \in Seq(Message) /\ prior \in Seq(Message)
  BY DEF TypeOK, Loaded
<1>1. CASE StartTurn(t)
  <2>1. /\ pc[t] = "idle" /\ pc'[t] = "prompt" /\ todo'[t] = todo[t]
        /\ Loaded' = Loaded
    BY <1>1 DEF StartTurn, Goto, TypeOK, buffer, Loaded
  <2>2. todo[t] = {}
    BY <2>1 DEF Balanced
  <2>3. \A m \in Range(Loaded) : m.turn # t
    BY <2>1 DEF HistoryInv, Known, Fits
  <2>4. Declared(Own(t, Loaded)) = {} /\ Responded(Own(t, Loaded)) = {}
    BY <2>3, OwnTells
  <2>5. Open(t)' = {}
    BY <2>1, <2>2 DEF Open
  <2>6. (Declared(Own(t, Loaded)) = Responded(Own(t, Loaded)) \cup Open(t))'
    BY <2>1, <2>4, <2>5
  <2>7. QED
    BY <2>1, <2>2, <2>6 DEF Balanced
<1>2. CASE \/ BuildPrompt(t) \/ PersistUser(t) \/ LimitReached(t) \/ ModelErrs(t)
           \/ GiveUp(t) \/ Finish(t)
  <2>1. /\ pc[t] \in {"prompt", "user", "iterate", "chat", "finish"}
        /\ pc'[t] \in {"user", "iterate", "post"} /\ todo' = todo
    BY <1>2 DEF BuildPrompt, PersistUser, LimitReached, ModelErrs, GiveUp, Finish, End, Goto, TypeOK
  <2>2. Loaded' = Loaded
    BY <1>2 DEF BuildPrompt, PersistUser, LimitReached, ModelErrs, GiveUp, Finish, buffer, Loaded
  <2>3. todo[t] = {} /\ Active(t)
    BY <2>1 DEF Balanced, Active, Running
  <2>4. QED
    BY <2>1, <2>2, <2>3, BalanceStays
<1>3. CASE Iterate(t)
  <2>1. /\ pc[t] = "iterate" /\ todo'[t] = todo[t] /\ request'[t] = Loaded
        /\ Loaded' = Loaded
    BY <1>3 DEF Iterate, TypeOK, buffer, Loaded
  <2>2. todo[t] = {} /\ Active(t)
    BY <2>1 DEF Balanced, Active, Running
  <2>3. QED
    BY <2>1, <2>2, BalanceStays
<1>4. CASE PostTurn(t) \/ Return(t) \/ TurnFails(t)
  <2>1. pc'[t] \in {"return", "over"}
    BY <1>4 DEF PostTurn, Return, TurnFails, End, Goto, TypeOK
  <2>2. QED
    BY <2>1 DEF Balanced, Active, Running
<1>5. CASE Recover(t)
  <2>1. /\ pc[t] = "chat" /\ pc'[t] = "iterate" /\ todo' = todo /\ delta' = <<>>
    BY <1>5 DEF Recover, Goto, TypeOK
  <2>2. todo'[t] = {} /\ Open(t)' = {}
    BY <2>1 DEF Balanced, Open
  <2>3. Declared(prior') = Responded(prior')
    <3> DEFINE history == log[SessionOf[t]]
    <3>1. history \in Seq(Message) /\ Sound(history)
      BY TurnConstants DEF HistoryInv, TurnConstants, TypeOK
    <3>2. PICK from \in 2..(Len(history) + 1) :
              prior' = Repaired(SubSeq(history, from, Len(history)))
      BY <1>5 DEF Recover
    <3>3. from \in Nat /\ from >= 1
      BY <3>1
    <3>4. /\ SubSeq(history, from, Len(history)) \in Seq(Message)
          /\ Sound(SubSeq(history, from, Len(history)))
      BY <3>1, <3>3, SuffixIsSound
    <3>5. QED
      BY <3>2, <3>4, RepairedTyped
  <2>4. Loaded' = prior' /\ prior' \in Seq(Message)
    BY <2>1 DEF Loaded, TypeOK
  <2>5. \A m \in Range(prior') : \A id \in m.calls : id[1] = m.turn
    BY <2>4 DEF HistoryInv, Known, Fits
  <2>6. /\ Declared(Own(t, prior')) = {id \in Declared(prior') : id[1] = t}
        /\ Responded(Own(t, prior')) = {id \in Responded(prior') : id[1] = t}
    <3>1. ASSUME NEW id PROVE id \in Declared(Own(t, prior')) <=>
                                id \in Declared(prior') /\ id[1] = t
      <4>1. id \in Declared(Own(t, prior')) <=>
              \E x \in Range(prior') : x.turn = t /\ IsCalls(x) /\ id \in x.calls
        BY OwnTells
      <4>2. id \in Declared(prior') <=>
              \E x \in Range(prior') : IsCalls(x) /\ id \in x.calls
        BY DEF Declared
      <4>3. QED
        BY <2>5, <4>1, <4>2
    <3>2. ASSUME NEW id PROVE id \in Responded(Own(t, prior')) <=>
                                id \in Responded(prior') /\ id[1] = t
      <4>1. id \in Responded(Own(t, prior')) <=>
              \E x \in Range(prior') : x.turn = t /\ IsResult(x) /\ id \in x.calls
        BY OwnTells
      <4>2. id \in Responded(prior') <=>
              \E x \in Range(prior') : IsResult(x) /\ id \in x.calls
        BY DEF Responded
      <4>3. QED
        BY <2>5, <4>1, <4>2
    <3>3. QED
      BY <3>1, <3>2
  <2>7. (Declared(Own(t, Loaded)) = Responded(Own(t, Loaded)) \cup Open(t))'
    BY <2>2, <2>3, <2>4, <2>6
  <2>8. QED
    BY <2>1, <2>2, <2>7 DEF Balanced
<1>6. ASSUME NEW kind \in Kind, NEW places \in SUBSET Place,
             NEW next \in {"iterate", "tools", "finish"}, Speaks(t, kind, places, next)
      PROVE  Balanced(t)'
  <2> DEFINE m == Says(t, kind, places)
  <2>1. m \in Message /\ m.turn = t /\ m.kind = kind
    BY SaysTyped
  <2>2. m.calls = {Id(t, c) : c \in places}
    BY DEF Says
  <2>3. /\ delta' = Append(delta, m) /\ prior' = prior /\ iteration' = iteration
        /\ pc' = [pc EXCEPT ![t] = next] \/ pc' = [pc EXCEPT ![t] = "return"]
    BY <1>6 DEF Speaks, Emit, Goto, End
  <2> HIDE DEF m
  <2>4. Loaded' = Append(Loaded, m)
    BY <2>1, <2>3, LoadedGrows
  <2>5. CASE pc'[t] = "return"
    BY <2>5 DEF Balanced, Active, Running
  <2>6. CASE pc'[t] = next
    <3>1. /\ Declared(Own(t, Loaded')) =
                Declared(Own(t, Loaded)) \cup (IF IsCalls(m) THEN m.calls ELSE {})
          /\ Responded(Own(t, Loaded')) =
                Responded(Own(t, Loaded)) \cup (IF IsResult(m) THEN m.calls ELSE {})
      BY <1>0, <2>1, <2>4, OwnGrows
    <3>2. pc[t] \in {"chat", "tools", "finish"}
      BY <1>6 DEF Speaks
    <3>3. Declared(Own(t, Loaded)) = Responded(Own(t, Loaded)) \cup Open(t)
      BY <3>2 DEF Balanced, Active, Running
    <3>4. Open(t)' = {Id(t, c) : c \in todo'[t]}
      BY <2>3 DEF Open, Id
    <3>5. CASE kind \in {"calls", "bare"} /\ pc[t] = "chat" /\ next = "tools" /\ todo'[t] = places
      <4>1. Open(t) = {} /\ Open(t)' = m.calls
        BY <2>2, <3>4, <3>5 DEF Balanced, Open
      <4>2. IsCalls(m) /\ ~IsResult(m)
        BY <2>1, <3>5 DEF IsCalls, IsResult
      <4>3. QED
        BY <2>6, <3>1, <3>3, <3>5, <4>1, <4>2 DEF Balanced
    <3>6. ASSUME kind \in {"result", "file"}, next \in {"iterate", "tools"},
                 NEW c \in todo[t], places = {c}, todo'[t] = todo[t] \ {c},
                 next = "iterate" <=> todo'[t] = {}
          PROVE  Balanced(t)'
      <4>1. m.calls = {Id(t, c)}
        BY <2>2, <3>6
      <4>2. Open(t) = {Id(t, c)} \cup Open(t)'
        BY <3>4, <3>6 DEF Open
      <4>3. ~IsCalls(m) /\ IsResult(m)
        BY <2>1, <3>6 DEF IsCalls, IsResult
      <4>4. Declared(Own(t, Loaded')) = Responded(Own(t, Loaded')) \cup Open(t)'
        BY <3>1, <3>3, <4>1, <4>2, <4>3
      <4>5. QED
        BY <2>6, <3>6, <4>4 DEF Balanced
    <3>7. CASE /\ kind \in {"final", "empty", "nudge"} /\ pc[t] \in {"chat", "finish"}
               /\ next \in {"finish", "iterate"} /\ UNCHANGED todo
      <4>1. ~IsCalls(m) /\ ~IsResult(m)
        BY <2>1, <3>7 DEF IsCalls, IsResult
      <4>2. todo'[t] = {} /\ Open(t) = {} /\ Open(t)' = {}
        BY <3>4, <3>7 DEF Balanced, Open
      <4>3. QED
        BY <2>6, <3>1, <3>3, <3>7, <4>1, <4>2 DEF Balanced
    <3>8. QED
      BY <1>6, <3>5, <3>6, <3>7 DEF Speaks
  <2>7. QED
    BY <2>3, <2>5, <2>6 DEF TypeOK
<1>7. QED
  BY <1>1, <1>2, <1>3, <1>4, <1>5, <1>6, SpeakingSteps


\* Where turns do not overlap, every request of a turn has a result for each of
\* the turn's tool calls, after it: through rejections, failed tools, nudges and
\* compactions.  A turn of ProcessDirect shares the executor's buffer with the
\* turn that runs beside it, and a compaction by one of them may then take a call
\* of the other whose result is still to come.
THEOREM CallsAnswered ==
    ASSUME Direct = {}
    PROVE  Spec => []EveryCallAnswered
<1> DEFINE Inv == HistoryInv /\ Alone /\ \A t \in Turn : Balanced(t)
<1>1. ASSUME Init PROVE Inv
  <2>1. HistoryInv /\ Alone
    BY <1>1, InitHistory DEF Init, Alone, Running
  <2>2. \A t \in Turn : Balanced(t)
    BY <1>1 DEF Init, Balanced, Active, Running
  <2>3. QED
    BY <2>1, <2>2
<1>2. ASSUME TypeOK, TypeOK', Inv, [Next]_vars PROVE Inv'
  <2>1. HistoryInv'
    BY <1>2, HistoryNext
  <2>2. CASE UNCHANGED vars
    <3>1. Alone'
      BY <1>2, <2>2 DEF vars, turnState, Alone, Running
    <3>2. \A t \in Turn : Balanced(t)'
      <4>1. \A t \in Turn : Own(t, Loaded)' = Own(t, Loaded) /\ Open(t)' = Open(t)
        BY <2>2 DEF vars, turnState, buffer, Loaded, Open, Id
      <4>2. QED
        BY <1>2, <2>2, <4>1 DEF vars, turnState, buffer, Balanced, Active, Running, Loaded
    <3>3. QED
      BY <2>1, <3>1, <3>2
  <2>3. CASE \E t \in Turn : StepOf(t)
    <3>1. PICK t \in Turn : StepOf(t)
      BY <2>3
    <3>2. Alone' /\ \A u \in Turn : u # t => ~Running(u)'
      BY <1>2, <3>1, AloneKept
    <3>3. ASSUME NEW u \in Turn PROVE Balanced(u)'
      <4>1. CASE u = t
        BY <1>2, <2>1, <3>1, <4>1, BalanceKept
      <4>2. CASE u # t
        <5>1. ~Running(u)' /\ pc'[u] = pc[u] /\ todo'[u] = todo[u]
          BY <1>2, <3>1, <3>2, <4>2, StepMoves
        <5>2. pc[u] \notin {"tools", "return", "over"} => todo[u] = {}
          BY <1>2 DEF Balanced
        <5>3. QED
          BY <5>1, <5>2 DEF Balanced, Active, Running
      <4>3. QED
        BY <4>1, <4>2
    <3>4. QED
      BY <2>1, <3>2, <3>3
  <2>4. QED
    BY <1>2, <2>2, <2>3, StepCases
<1>3. ASSUME Inv PROVE EveryCallAnswered
  <2>1. SUFFICES ASSUME NEW t \in Turn, pc[t] = "chat"
                 PROVE  WellFormed(Own(t, request[t]))
    BY DEF EveryCallAnswered
  <2>2. /\ request[t] = Loaded /\ Open(t) = {}
        /\ Declared(Own(t, Loaded)) = Responded(Own(t, Loaded)) \cup Open(t)
    BY <1>3, <2>1 DEF Balanced, Active, Running, Open
  <2>3. Sound(Own(t, Loaded))
    <3>1. Sound(Loaded)
      BY <1>3 DEF HistoryInv
    <3>2. QED
      BY <3>1, PartIsSound DEF Own
  <2>4. QED
    BY <2>2, <2>3, SoundIsWellFormed
<1>4. QED
  BY TypeCorrect, <1>1, <1>2, <1>3, PTL DEF Spec

-----------------------------------------------------------------------------
(***************************************************************************)
(* Streamed results                                                        *)
(***************************************************************************)

\* What the buffer has of a streamed result is still in its file while the turn
\* goes on, and a request names the files of their own turns.
Streamed ==
    /\ \A m \in Range(Loaded) : m.kind = "file" /\ Active(m.turn) => m.calls \subseteq files
    /\ \A t \in Turn : pc[t] = "chat" =>
        \A m \in Range(request[t]) : \A id \in m.calls : id[1] = m.turn

\* Each step keeps them, and what is readable stays so.
LEMMA StreamedKept ==
    ASSUME TypeOK, HistoryInv, HistoryInv', Streamed, ScratchReadable,
           NEW t \in Turn, StepOf(t)
    PROVE  Streamed' /\ ScratchReadable'
<1>0. /\ Loaded \in Seq(Message)
      /\ \A m \in Range(Loaded) : m \in Message /\ \A id \in m.calls : id[1] = m.turn
  <2>1. Loaded \in Seq(Message)
    BY DEF TypeOK, Loaded
  <2>2. QED
    BY <2>1, RangeTyped DEF HistoryInv, Known, Fits
<1>1. CASE StartTurn(t)
  <2>1. /\ pc[t] = "idle" /\ pc' = [pc EXCEPT ![t] = "prompt"]
        /\ Loaded' = Loaded /\ UNCHANGED <<request, files>>
    BY <1>1 DEF StartTurn, Goto, buffer, Loaded
  <2>2. \A m \in Range(Loaded) : m.turn # t
    BY <2>1 DEF HistoryInv, Known, Fits
  <2>3. \A m \in Range(Loaded) : m.turn \in Turn
    BY <1>0 DEF Message
  <2>4. \A m \in Range(Loaded) : Active(m.turn)' <=> Active(m.turn)
    BY <2>1, <2>2, <2>3 DEF Active, Running, TypeOK
  <2>5. \A u \in Turn : pc'[u] = "chat" => pc[u] = "chat"
    BY <2>1 DEF TypeOK
  <2>6. QED
    BY <2>1, <2>4, <2>5 DEF Streamed, ScratchReadable
<1>2. CASE \/ BuildPrompt(t) \/ PersistUser(t) \/ LimitReached(t) \/ ModelErrs(t)
           \/ GiveUp(t) \/ Finish(t) \/ TurnFails(t)
  <2>1. /\ Running(t) /\ pc[t] # "return"
        /\ \E p \in {"user", "iterate", "post", "return"} : pc' = [pc EXCEPT ![t] = p]
        /\ Loaded' = Loaded /\ UNCHANGED <<request, files>>
    BY <1>2 DEF BuildPrompt, PersistUser, LimitReached, ModelErrs, GiveUp, Finish, TurnFails,
       End, Goto, buffer, Loaded, Running
  <2>2. \A u \in Turn : /\ pc'[u] = "chat" => pc[u] = "chat"
                        /\ Active(u)' => Active(u)
    BY <2>1 DEF TypeOK, Active, Running
  <2>3. \A m \in Range(Loaded) : m.turn \in Turn
    BY <1>0 DEF Message
  <2>4. QED
    BY <2>1, <2>2, <2>3 DEF Streamed, ScratchReadable
<1>3. CASE Iterate(t)
  <2>1. /\ pc[t] = "iterate" /\ pc' = [pc EXCEPT ![t] = "chat"]
        /\ request' = [request EXCEPT ![t] = Loaded]
        /\ Loaded' = Loaded /\ UNCHANGED files
    BY <1>3 DEF Iterate, Goto, buffer, Loaded
  <2>2. Active(t) /\ \A u \in Turn : Active(u)' <=> Active(u)
    BY <2>1 DEF TypeOK, Active, Running
  <2>3. \A m \in Range(Loaded) : m.turn \in Turn
    BY <1>0 DEF Message
  <2>4. \A u \in Turn : u # t => request'[u] = request[u] /\ pc'[u] = pc[u]
    BY <2>1 DEF TypeOK
  <2>5. request'[t] = Loaded
    BY <2>1 DEF TypeOK
  <2>6. Streamed'
    BY <1>0, <2>1, <2>2, <2>3, <2>4, <2>5 DEF Streamed
  <2>7. ScratchReadable'
    BY <2>1, <2>2, <2>4, <2>5 DEF Streamed, ScratchReadable
  <2>8. QED
    BY <2>6, <2>7
<1>4. CASE PostTurn(t) \/ Return(t)
  <2>1. /\ pc' = [pc EXCEPT ![t] = "return"] \/ pc' = [pc EXCEPT ![t] = "over"]
        /\ Loaded' = Loaded
        /\ \A u \in Turn : u # t => request'[u] = request[u]
        /\ \A f \in files : f[1] # t => f \in files'
    BY <1>4 DEF PostTurn, Return, RemainingFiles, Goto, buffer, Loaded, TypeOK
  <2>2. /\ pc'[t] # "chat" /\ ~Active(t)'
        /\ \A u \in Turn : u # t => pc'[u] = pc[u] /\ (Active(u)' <=> Active(u))
    BY <2>1 DEF TypeOK, Active, Running
  <2>3. Streamed'
    <3>1. ASSUME NEW m \in Range(Loaded), m.kind = "file", Active(m.turn)'
          PROVE  m.calls \subseteq files'
      <4>1. m.turn \in Turn /\ m.turn # t
        BY <1>0, <2>2, <3>1 DEF Message
      <4>2. m.calls \subseteq files
        BY <2>2, <3>1, <4>1 DEF Streamed
      <4>3. QED
        BY <1>0, <2>1, <4>1, <4>2
    <3>2. QED
      BY <2>1, <2>2, <3>1 DEF Streamed
  <2>4. ScratchReadable'
    <3>1. SUFFICES ASSUME NEW u \in Turn, pc'[u] = "chat", NEW m \in Range(request'[u]),
                          m.turn = u, m.kind = "file", NEW id \in m.calls
                   PROVE  id \in files'
      BY DEF ScratchReadable
    <3>2. u # t /\ pc[u] = "chat" /\ m \in Range(request[u])
      BY <2>1, <2>2, <3>1
    <3>3. id \in files /\ id[1] = u
      BY <3>1, <3>2 DEF Streamed, ScratchReadable
    <3>4. QED
      BY <2>1, <3>2, <3>3
  <2>5. QED
    BY <2>3, <2>4
<1>5. CASE Recover(t)
  <2>1. pc' = [pc EXCEPT ![t] = "iterate"] /\ delta' = <<>> /\ UNCHANGED <<request, files>>
    BY <1>5 DEF Recover, Goto
  <2>2. Range(Loaded') = Range(prior')
    BY <1>5, <2>1 DEF Loaded, HistoryInv, Range
  <2>3. \A m \in Range(Loaded') : m.kind # "file"
    BY <2>2 DEF HistoryInv
  <2>4. \A u \in Turn : pc'[u] = "chat" => pc[u] = "chat"
    BY <2>1 DEF TypeOK
  <2>5. QED
    BY <2>1, <2>3, <2>4 DEF Streamed, ScratchReadable
<1>6. ASSUME NEW kind \in Kind, NEW places \in SUBSET Place,
             NEW next \in {"iterate", "tools", "finish"}, Speaks(t, kind, places, next)
      PROVE  Streamed' /\ ScratchReadable'
  <2> DEFINE m == Says(t, kind, places)
  <2>1. m \in Message /\ m.turn = t /\ m.kind = kind /\ m.calls = {Id(t, c) : c \in places}
    BY SaysTyped DEF Says
  <2>2. /\ delta' = Append(delta, m) /\ prior' = prior /\ request' = request
        /\ pc' = [pc EXCEPT ![t] = next] \/ pc' = [pc EXCEPT ![t] = "return"]
        /\ pc[t] \in {"chat", "tools", "finish"}
    BY <1>6 DEF Speaks, Emit, Goto, End
  <2>3. kind = "file" => m.calls \subseteq files'
    BY <1>6, <2>1 DEF Speaks
  <2>4. files \subseteq files'
    BY <1>6 DEF Speaks
  <2> HIDE DEF m
  <2>5. Loaded' = Append(Loaded, m) /\ Range(Loaded') = Range(Loaded) \cup {m}
    BY <1>0, <2>1, <2>2, LoadedGrows, RangeOfAppend
  <2>6. \A u \in Turn : /\ pc'[u] = "chat" => pc[u] = "chat"
                        /\ Active(u)' => Active(u)
    BY <2>2 DEF TypeOK, Active, Running
  <2>7. \A x \in Range(Loaded) : x.turn \in Turn
    BY <1>0 DEF Message
  <2>8. QED
    BY <2>1, <2>2, <2>3, <2>4, <2>5, <2>6, <2>7 DEF Streamed, ScratchReadable
<1>7. QED
  BY <1>1, <1>2, <1>3, <1>4, <1>5, <1>6, SpeakingSteps

\* With any turns side by side, of ProcessDirect too, a streamed result that a
\* turn sends to the model is in its scratch file: PostTurn of another turn does
\* not take it, and nothing refers to a file after its turn.
THEOREM StreamedStaysReadable == Spec => []ScratchReadable
<1> DEFINE Inv == HistoryInv /\ Streamed /\ ScratchReadable
<1>1. ASSUME Init PROVE Inv
  <2>1. Range(Loaded) = {}
    BY <1>1 DEF Init, Loaded, Range
  <2>2. QED
    BY <1>1, <2>1, InitHistory DEF Init, Streamed, ScratchReadable
<1>2. ASSUME TypeOK, TypeOK', Inv, [Next]_vars PROVE Inv'
  <2>1. HistoryInv'
    BY <1>2, HistoryNext
  <2>2. CASE UNCHANGED vars
    BY <1>2, <2>1, <2>2
       DEF vars, turnState, buffer, Streamed, ScratchReadable, Loaded, Active, Running
  <2>3. CASE \E t \in Turn : StepOf(t)
    BY <1>2, <2>1, <2>3, StreamedKept
  <2>4. QED
    BY <1>2, <2>2, <2>3, StepCases
<1>3. QED
  BY TypeCorrect, <1>1, <1>2, PTL DEF Spec
=============================================================================
