-------------------- MODULE PersistentDictionaryProofs --------------------
(***************************************************************************)
(* PersistentDictionary, proved for every finite set of keys, every set of *)
(* values and every bound.  What a log means is a fold over its records;   *)
(* the first part shows what a fold does when a record is appended, by     *)
(* induction over sets of numbers and of sequences, the second what the    *)
(* operations, the snapshots and the torn records do to it, and the third  *)
(* that every step keeps the log, the writer's buffer, the temporary file  *)
(* and the dictionary in agreement.                                        *)
(***************************************************************************)
EXTENDS PersistentDictionary, SequenceTheorems, FiniteSetTheorems, WellFoundedInduction, TLAPS

(* What a log may hold: records, records a crash cut inside their value, and *)
(* records it cut before.                                                    *)
Logged == [act : {"A", "U"}, key : Keys, val : Vals \union {Short}]
            \union [act : {"R"}, key : Keys, val : {Nothing}] \union {Cut}

Shrinking == {"deleteTemp", "writeTemp", "closeLog", "deleteLog", "move", "openLog"}

(* The dictionary without regard for exceptions, and with the operation in   *)
(* progress, which the log has already.                                      *)
Outcome(records) == FoldLeft(Perform, Empty, records)
Now == IF op = NoOp THEN mDictionary ELSE Perform(mDictionary, op)

TypeInv == /\ client \in {"benchmark", "console"} /\ AutoFlush \in BOOLEAN
           /\ pc \in {"closed", "idle", "flush", "apply"} \union Shrinking
           /\ after \in {"idle", "closed", "apply"}
           /\ op \in Record \union {NoOp} /\ missed \in Record \union {NoOp}
           /\ mDictionary \in Dictionaries /\ before \in Dictionaries
           /\ mBuffer \in Seq(Record)
           /\ log \in Seq(Logged) \union {NoFile} /\ temp \in Seq(Logged) \union {NoFile}
           /\ mVersion \in Nat /\ snap \in Nat /\ doubt \in SUBSET Keys /\ unrenamed \in BOOLEAN

ControlInv == /\ op # NoOp <=> pc \in {"flush", "apply"} \/ (pc \in Shrinking /\ after = "apply")
              /\ mBuffer # <<>> => pc \notin {"deleteLog", "move", "openLog", "closed"}
              /\ mVersion <= IF pc \in Shrinking /\ after = "apply" THEN Interval + 1 ELSE Interval

FileInv == /\ log = NoFile => mBuffer = <<>> /\ pc \notin {"idle", "flush", "apply", "openLog"}
           /\ log = NoFile /\ pc # "closed" => pc = "move" \/ mDictionary = Empty
           /\ pc = "move" => log = NoFile
           /\ pc \in {"closeLog", "deleteLog", "move"} => temp \in Snapshots(mDictionary)
           /\ pc = "openLog" => /\ log \in Snapshots(mDictionary)
                                /\ snap = Len(log) /\ missed = op

ExplainInv == pc \in {"idle", "flush", "apply"} =>
                snap <= Len(log) /\ Outcome(Explanation) = Now

AgreeInv == log # NoFile /\ pc # "closed" =>
              \A k \in Keys : (missed # NoOp => k # missed.key) => Outcome(log \o mBuffer)[k] = Now[k]

ReadInv == client = "benchmark" /\ missed.act # "R" /\ log # NoFile =>
             /\ Replay(log \o mBuffer) # Broken
             /\ pc # "closed" => \A k \in Keys : Replay(log \o mBuffer)[k] # Nothing => Now[k] # Nothing

IInv == TypeInv /\ ControlInv /\ FileInv /\ ExplainInv /\ AgreeInv /\ ReadInv /\ Survives
-----------------------------------------------------------------------------
(* Induction, over sets.                                                   *)

(* A set of natural numbers has a least element: an interval 0 .. m with m *)
(* in the set is minimal among the finite sets of this form.               *)
LEMMA LeastNat ==
  ASSUME NEW S \in SUBSET Nat, S # {}
  PROVE  \E m \in S : \A k \in S : m <= k
<1>1. PICK n \in S : TRUE
  OBVIOUS
<1> DEFINE U == 0 .. n
           T == {X \in SUBSET U : \E m \in S : m \in U /\ X = 0 .. m}
<1>2. IsFiniteSet(U)
  BY FS_Interval
<1>3. FiniteSubsetsOf(U) = SUBSET U
  BY <1>2, FS_FiniteSubsetsOfFinite
<1>4. IsWellFoundedOn(StrictSubsetOrdering(U), SUBSET U)
  BY <1>3, FS_StrictSubsetOrderingWellFounded
<1>5. T \subseteq SUBSET U /\ U \in T
  BY <1>1
<1>6. PICK X \in T : \A Y \in T : ~(<<Y, X>> \in StrictSubsetOrdering(U))
  <2> HIDE DEF T, U
  <2> QED BY <1>4, <1>5, WFMin
<1>7. PICK m \in S : m \in U /\ X = 0 .. m
  OBVIOUS
<1>8. ASSUME NEW k \in S, k < m PROVE FALSE
  <2>1. (0 .. k) \in T /\ (0 .. k) \subseteq (0 .. m) /\ (0 .. k) # (0 .. m)
    BY <1>7, <1>8
  <2>2. <<0 .. k, X>> \in StrictSubsetOrdering(U)
    BY <2>1, <1>7 DEF StrictSubsetOrdering
  <2> QED BY <2>1, <2>2, <1>6
<1> QED BY <1>8

(* A set with 0, and with n + 1 for each n of it, has every number.        *)
LEMMA NatIsInductive ==
  ASSUME NEW S, 0 \in S, \A n \in Nat : n \in S => n + 1 \in S
  PROVE  Nat \subseteq S
<1> DEFINE T == Nat \ S
<1> SUFFICES ASSUME T # {} PROVE FALSE
  OBVIOUS
<1>1. PICK m \in T : \A k \in T : m <= k
  <2> T \in SUBSET Nat
    OBVIOUS
  <2> HIDE DEF T
  <2> QED BY LeastNat
<1>2. m \in Nat /\ m # 0 /\ m - 1 \in Nat /\ ~(m <= m - 1) /\ m = (m - 1) + 1
  OBVIOUS
<1>3. m - 1 \in S
  BY <1>1, <1>2
<1> QED BY <1>2, <1>3

(* A set with the empty sequence, and with Append(s, e) for each s of it,  *)
(* has every sequence.                                                     *)
LEMMA SeqIsInductive ==
  ASSUME NEW E, NEW S, <<>> \in S,
         \A s \in Seq(E), e \in E : s \in S => Append(s, e) \in S
  PROVE  Seq(E) \subseteq S
<1> DEFINE L == {n \in Nat : \A s \in Seq(E) : Len(s) = n => s \in S}
<1>1. 0 \in L
  BY EmptySeq
<1>2. ASSUME NEW n \in Nat, n \in L PROVE n + 1 \in L
  <2>1. SUFFICES ASSUME NEW s \in Seq(E), Len(s) = n + 1 PROVE s \in S
    OBVIOUS
  <2> DEFINE t == SubSeq(s, 1, n)
             e == s[n + 1]
  <2>2. e \in E /\ \A i \in 1 .. n : s[i] \in E
    BY <2>1
  <2>3. t \in Seq(E) /\ Len(t) = n /\ \A i \in 1 .. n : t[i] = s[i]
    BY <2>1, <2>2
  <2> HIDE DEF t, e
  <2>4. Append(t, e) \in Seq(E) /\ Len(Append(t, e)) = n + 1
        /\ \A i \in 1 .. n + 1 : Append(t, e)[i] = IF i = n + 1 THEN e ELSE t[i]
    BY <2>2, <2>3
  <2>5. Append(t, e) = s
    <3>1. \A i \in 1 .. n + 1 : Append(t, e)[i] = s[i]
      BY <2>3, <2>4 DEF e
    <3> QED BY <3>1, <2>4, <2>1, SeqEqual
  <2> QED BY <2>2, <2>3, <2>5, <1>2
<1>3. Nat \subseteq L
  <2> HIDE DEF L
  <2> QED BY <1>1, <1>2, NatIsInductive
<1> QED BY <1>3, LenProperties
-----------------------------------------------------------------------------
(* The folds.                                                              *)

(* One round of a fold over a log, with the exceptions of a replay or      *)
(* without them.                                                           *)
Round(strict, d, r) == IF strict THEN ReplayOne(d, r) ELSE Perform(d, r)

(* g is the function by which a fold over the first n records is defined.  *)
Unrolls(strict, file, n, g) ==
  g = [s \in SUBSET (1 .. n) |->
         IF s = {} THEN Empty ELSE Round(strict, g[s \ {Max(s)}], file[Max(s)])]

(* A fold over the first i records of a log.                               *)
Unrolled(strict, file) == CHOOSE g : Unrolls(strict, file, Len(file), g)
Rounds(strict, file, i) == Unrolled(strict, file)[1 .. i]

(* A fold takes the positions from the last one down.                      *)
LEMMA LastPosition ==
  ASSUME NEW n \in Nat, NEW s \in SUBSET (1 .. n), s # {}
  PROVE  /\ Max(s) \in s
         /\ n \in s => Max(s) = n
<1> DEFINE T == {n - i : i \in s}
<1>1. PICK m \in T : \A k \in T : m <= k
  <2>1. \A i \in 1 .. n : n - i \in Nat
    OBVIOUS
  <2>2. T \subseteq Nat /\ T # {}
    BY <2>1
  <2> HIDE DEF T
  <2> QED BY <2>2, LeastNat
<1>2. PICK x \in s : m = n - x
  OBVIOUS
<1>3. ASSUME NEW y \in s PROVE x >= y
  <2>1. n - y \in T /\ x \in 1 .. n /\ y \in 1 .. n
    OBVIOUS
  <2>2. n - x <= n - y
    BY <2>1, <1>1, <1>2
  <2> QED BY <2>1, <2>2
<1>4. Max(s) \in s /\ \A y \in s : Max(s) >= y
  BY <1>3 DEF Max
<1> HIDE DEF T
<1>5. ASSUME n \in s PROVE Max(s) = n
  <2>1. Max(s) \in 1 .. n /\ Max(s) >= n
    BY <1>4, <1>5
  <2> QED BY <2>1
<1> QED BY <1>4, <1>5

(* There is such a function: the one for n + 1 reads record n + 1 after    *)
(* the records that the one for n reads.                                   *)
LEMMA Unrolling ==
  ASSUME NEW strict, NEW file, NEW n \in Nat
  PROVE  \E g : Unrolls(strict, file, n, g)
<1> DEFINE S == {m \in Nat : \E g : Unrolls(strict, file, m, g)}
<1>1. 0 \in S
  <2> DEFINE g == [s \in SUBSET (1 .. 0) |-> Empty]
  <2>1. \A s \in SUBSET (1 .. 0) : s = {}
    OBVIOUS
  <2>2. Unrolls(strict, file, 0, g)
    BY <2>1 DEF Unrolls
  <2> QED BY <2>2
<1>2. ASSUME NEW m \in Nat, m \in S PROVE m + 1 \in S
  <2>1. PICK g : Unrolls(strict, file, m, g)
    BY <1>2
  <2> DEFINE h == [s \in SUBSET (1 .. m + 1) |->
                     IF m + 1 \in s THEN Round(strict, g[s \ {m + 1}], file[m + 1]) ELSE g[s]]
  <2>2. ASSUME NEW s \in SUBSET (1 .. m + 1), s # {}
        PROVE  h[s] = Round(strict, h[s \ {Max(s)}], file[Max(s)])
    <3>1. s \ {Max(s)} \in SUBSET (1 .. m + 1)
      OBVIOUS
    <3>2. CASE m + 1 \in s
      <4>1. Max(s) = m + 1
        BY <3>2, LastPosition
      <4>2. m + 1 \notin s \ {Max(s)}
        BY <4>1
      <4>3. h[s \ {Max(s)}] = g[s \ {m + 1}]
        BY <3>1, <4>1, <4>2
      <4>4. h[s] = Round(strict, g[s \ {m + 1}], file[m + 1])
        BY <3>2
      <4> QED BY <4>1, <4>3, <4>4
    <3>3. CASE m + 1 \notin s
      <4>1. s \in SUBSET (1 .. m)
        BY <3>3
      <4>2. h[s] = g[s] /\ h[s \ {Max(s)}] = g[s \ {Max(s)}]
        BY <3>3, <3>1
      <4>3. g[s] = Round(strict, g[s \ {Max(s)}], file[Max(s)])
        BY <4>1, <2>1, <2>2 DEF Unrolls
      <4> QED BY <4>2, <4>3
    <3> QED BY <3>2, <3>3
  <2>3. h[{}] = Empty
    BY <2>1 DEF Unrolls
  <2>4. Unrolls(strict, file, m + 1, h)
    <3>1. h = [s \in SUBSET (1 .. m + 1) |-> h[s]]
      OBVIOUS
    <3> HIDE DEF h
    <3> QED BY <2>2, <2>3, <3>1 DEF Unrolls
  <2> QED BY <2>4
<1>3. Nat \subseteq S
  <2> HIDE DEF S
  <2> QED BY <1>1, <1>2, NatIsInductive
<1> QED BY <1>3

(* Both folds start with the empty dictionary and read one record after    *)
(* the other.                                                              *)
LEMMA RoundByRound ==
  ASSUME NEW strict, NEW E, NEW file \in Seq(E)
  PROVE  /\ Rounds(strict, file, 0) = Empty
         /\ \A i \in 0 .. Len(file) - 1 :
              Rounds(strict, file, i + 1) = Round(strict, Rounds(strict, file, i), file[i + 1])
<1> DEFINE n == Len(file)
           g == Unrolled(strict, file)
<1>1. n \in Nat
  BY LenProperties
<1>2. Unrolls(strict, file, n, g)
  BY <1>1, Unrolling DEF Unrolled
<1> HIDE DEF g, n
<1>3. g[1 .. 0] = Empty
  <2>1. 1 .. 0 = {} /\ {} \in SUBSET (1 .. n)
    OBVIOUS
  <2> QED BY <1>2, <2>1 DEF Unrolls
<1>4. ASSUME NEW i \in 0 .. n - 1
      PROVE  g[1 .. i + 1] = Round(strict, g[1 .. i], file[i + 1])
  <2> DEFINE s == 1 .. i + 1
  <2>1. i + 1 \in Nat /\ s \subseteq 1 .. n /\ i + 1 \in s
    BY <1>1
  <2>2. s \ {i + 1} = 1 .. i
    BY <1>1
  <2> HIDE DEF s
  <2>3. Max(s) = i + 1
    <3>1. s \in SUBSET (1 .. i + 1) /\ s # {}
      BY <2>1 DEF s
    <3> QED BY <2>1, <3>1, LastPosition
  <2>4. g[s] = Round(strict, g[s \ {Max(s)}], file[Max(s)])
    BY <1>2, <2>1 DEF Unrolls
  <2> QED BY <2>2, <2>3, <2>4 DEF s
<1> QED BY <1>3, <1>4 DEF Rounds, g, n

LEMMA FoldsAreRounds ==
  ASSUME NEW E, NEW file \in Seq(E)
  PROVE  /\ Replay(file) = Rounds(TRUE, file, Len(file))
         /\ Outcome(file) = Rounds(FALSE, file, Len(file))
<1>1. DOMAIN file = 1 .. Len(file)
  BY LenProperties
<1>2. Replay(file) = Rounds(TRUE, file, Len(file))
  BY <1>1 DEF Replay, FoldLeft, MapThenFoldSet, Rounds, Unrolled, Unrolls, Round
<1>3. Outcome(file) = Rounds(FALSE, file, Len(file))
  BY <1>1 DEF Outcome, FoldLeft, MapThenFoldSet, Rounds, Unrolled, Unrolls, Round
<1> QED BY <1>2, <1>3

(* Appending a record does not change what the records before it give.     *)
LEMMA RoundsOfAppend ==
  ASSUME NEW strict, NEW E, NEW file \in Seq(E), NEW r \in E
  PROVE  \A i \in 0 .. Len(file) : Rounds(strict, Append(file, r), i) = Rounds(strict, file, i)
<1> DEFINE more == Append(file, r)
           S == {i \in Nat : i <= Len(file) => Rounds(strict, more, i) = Rounds(strict, file, i)}
<1>1. /\ more \in Seq(E) /\ Len(file) \in Nat /\ Len(more) = Len(file) + 1
      /\ \A i \in 1 .. Len(file) : more[i] = file[i]
  OBVIOUS
<1> HIDE DEF more
<1>2. 0 \in S
  BY <1>1, RoundByRound
<1>3. ASSUME NEW i \in Nat, i \in S PROVE i + 1 \in S
  <2>1. SUFFICES ASSUME i + 1 <= Len(file)
                 PROVE  Rounds(strict, more, i + 1) = Rounds(strict, file, i + 1)
    OBVIOUS
  <2>2. i \in 0 .. Len(file) - 1 /\ i \in 0 .. Len(more) - 1 /\ i + 1 \in 1 .. Len(file)
    BY <1>1, <2>1
  <2>3. Rounds(strict, more, i + 1) = Round(strict, Rounds(strict, more, i), more[i + 1])
    BY <1>1, <2>2, RoundByRound
  <2>4. Rounds(strict, file, i + 1) = Round(strict, Rounds(strict, file, i), file[i + 1])
    BY <2>2, RoundByRound
  <2>5. Rounds(strict, more, i) = Rounds(strict, file, i)
    BY <1>3, <1>1, <2>1
  <2> QED BY <2>2, <2>3, <2>4, <2>5, <1>1
<1>4. Nat \subseteq S
  <2> HIDE DEF S
  <2> QED BY <1>2, <1>3, NatIsInductive
<1> QED BY <1>1, <1>4 DEF more

(* ReplayWriteAheadLog and the plain outcome of a log, record by record.   *)
LEMMA EmptyLog == Replay(<<>>) = Empty /\ Outcome(<<>>) = Empty
<1>1. <<>> \in Seq(Logged) /\ Len(<<>>) = 0
  BY EmptySeq
<1> QED BY <1>1, FoldsAreRounds, RoundByRound

LEMMA OneMore ==
  ASSUME NEW E, NEW file \in Seq(E), NEW r \in E
  PROVE  /\ Replay(Append(file, r)) = ReplayOne(Replay(file), r)
         /\ Outcome(Append(file, r)) = Perform(Outcome(file), r)
<1> DEFINE more == Append(file, r)
           n == Len(file)
<1>1. /\ more \in Seq(E) /\ n \in Nat /\ Len(more) = n + 1 /\ more[n + 1] = r
  OBVIOUS
<1>2. ASSUME NEW strict
      PROVE  Rounds(strict, more, n + 1) = Round(strict, Rounds(strict, file, n), r)
  <2>1. n \in 0 .. Len(more) - 1 /\ n \in 0 .. Len(file)
    BY <1>1
  <2>2. Rounds(strict, more, n) = Rounds(strict, file, n)
    BY <2>1, RoundsOfAppend
  <2> HIDE DEF more, n
  <2> QED BY <1>1, <2>1, <2>2, RoundByRound
<1> HIDE DEF more, n
<1>3. Replay(more) = ReplayOne(Replay(file), r)
  BY <1>1, <1>2, FoldsAreRounds DEF Round, n
<1>4. Outcome(more) = Perform(Outcome(file), r)
  BY <1>1, <1>2, FoldsAreRounds DEF Round, n
<1> QED BY <1>3, <1>4 DEF more
-----------------------------------------------------------------------------
(* Records and dictionaries.                                               *)

(* The records of a log that no crash cut before the value.                *)
Whole == Logged \ {Cut}

LEMMA RecordSets ==
  /\ Record \subseteq Whole /\ Whole \subseteq Logged /\ Cut \in Logged /\ Cut \notin Whole
  /\ NoOp \notin Logged /\ NoFile \notin Seq(Logged)
<1>1. Cut \notin Record /\ NoOp \notin Logged
  <2>1. /\ Cut.act = "cut" /\ NoOp.act = "none"
        /\ \A r \in Record : r.act \in {"A", "U", "R"}
        /\ \A r \in Logged : r.act \in {"A", "U", "R", "cut"}
    BY DEF Cut, NoOp, Record, Logged
  <2> QED BY <2>1
<1>2. Record \subseteq Logged
  BY DEF Record, Logged
<1>3. NoFile \notin Seq(Logged)
  <2>1. Len(NoFile) = 1 /\ NoFile[1] = NoOp
    BY DEF NoFile
  <2> QED BY <2>1, <1>1, ElementOfSeq
<1> QED BY <1>1, <1>2, <1>3 DEF Whole, Logged

LEMMA Records ==
  /\ \A r \in Whole : r.key \in Keys /\ r.act \in {"A", "U", "R"}
  /\ \A r \in Whole : r.act # "R" => r.val \in Vals \union {Short} /\ [r EXCEPT !.val = Short] \in Whole
  /\ \A r \in Whole : r.act = "R" => r.val = Nothing
<1>1. ASSUME NEW r \in Whole
      PROVE  /\ r.key \in Keys /\ r.act \in {"A", "U", "R"}
             /\ r.act # "R" => r.val \in Vals \union {Short} /\ [r EXCEPT !.val = Short] \in Whole
             /\ r.act = "R" => r.val = Nothing
  <2>1. CASE r \in [act : {"A", "U"}, key : Keys, val : Vals \union {Short}]
    <3> DEFINE t == [r EXCEPT !.val = Short]
    <3>1. t \in [act : {"A", "U"}, key : Keys, val : Vals \union {Short}] /\ t.act \in {"A", "U"}
      BY <2>1
    <3>2. t # Cut
      BY <3>1 DEF Cut
    <3> QED BY <2>1, <3>1, <3>2 DEF Whole, Logged
  <2>2. CASE r \in [act : {"R"}, key : Keys, val : {Nothing}]
    BY <2>2
  <2> QED BY <2>1, <2>2 DEF Whole, Logged
<1> QED BY <1>1

LEMMA Dictionary ==
  /\ Broken \notin Dictionaries /\ Empty \in Dictionaries
  /\ \A k \in Keys : Empty[k] = Nothing
<1>1. \A d \in Dictionaries : DOMAIN d = Keys
  BY DEF Dictionaries
<1>2. DOMAIN Broken = {}
  BY DEF Broken
<1> QED BY <1>1, <1>2, PDAssumption DEF Dictionaries, Empty

(* An operation changes the value of its key at most.                      *)
LEMMA Performing ==
  ASSUME NEW d \in Dictionaries, NEW r \in Logged
  PROVE  /\ Perform(d, r) \in Dictionaries
         /\ r = Cut => Perform(d, r) = d
         /\ r # Cut => \A k \in Keys : k # r.key => Perform(d, r)[k] = d[k]
         /\ r # Cut => (Perform(d, r)[r.key] = IF r.act = "A" /\ d[r.key] # Nothing THEN d[r.key] ELSE r.val)
<1>1. CASE r = Cut
  BY <1>1 DEF Perform, Cut
<1>2. CASE r # Cut
  <2>1. r \in Whole
    BY <1>2 DEF Whole
  <2>2. /\ r.key \in Keys /\ r.act \in {"A", "U", "R"}
        /\ r.val \in Vals \union {Nothing, Short}
    BY <2>1, Records
  <2> QED BY <1>2, <2>2 DEF Perform, Dictionaries
<1> QED BY <1>1, <1>2

(* A round of a replay fails on an 'A' record for a key that is present.   *)
LEMMA Replaying ==
  ASSUME NEW d \in Dictionaries \union {Broken}, NEW r \in Logged
  PROVE  /\ ReplayOne(d, r) # Broken <=> d # Broken /\ ~(r.act = "A" /\ d[r.key] # Nothing)
         /\ ReplayOne(d, r) # Broken => ReplayOne(d, r) = Perform(d, r)
         /\ ReplayOne(d, r) \in Dictionaries \union {Broken}
  BY Performing, Dictionary DEF ReplayOne

(* The outcome of a log is a dictionary, and its replay the same unless an *)
(* exception ended it.                                                     *)
LEMMA Outcomes ==
  ASSUME NEW file \in Seq(Logged)
  PROVE  /\ Outcome(file) \in Dictionaries
         /\ Replay(file) \in Dictionaries \union {Broken}
         /\ Replay(file) # Broken => Replay(file) = Outcome(file)
<1> DEFINE P(s) == /\ Outcome(s) \in Dictionaries
                   /\ Replay(s) \in Dictionaries \union {Broken}
                   /\ Replay(s) # Broken => Replay(s) = Outcome(s)
           S == {s \in Seq(Logged) : P(s)}
<1>1. <<>> \in S
  BY EmptyLog, EmptySeq, Dictionary
<1>2. ASSUME NEW s \in Seq(Logged), NEW r \in Logged, s \in S PROVE Append(s, r) \in S
  <2>1. Replay(Append(s, r)) = ReplayOne(Replay(s), r) /\ Outcome(Append(s, r)) = Perform(Outcome(s), r)
    BY OneMore
  <2>2. P(s)
    BY <1>2
  <2>3. P(Append(s, r))
    <3>1. Perform(Outcome(s), r) \in Dictionaries
      BY <2>2, Performing
    <3>2. /\ ReplayOne(Replay(s), r) \in Dictionaries \union {Broken}
          /\ ReplayOne(Replay(s), r) # Broken => /\ Replay(s) # Broken
                                                /\ ReplayOne(Replay(s), r) = Perform(Replay(s), r)
      BY <2>2, Replaying
    <3> QED BY <2>1, <2>2, <3>1, <3>2
  <2> HIDE DEF P
  <2> QED BY <2>3
<1>3. Seq(Logged) \subseteq S
  <2> HIDE DEF S
  <2> QED BY <1>1, <1>2, SeqIsInductive
<1> QED BY <1>3

LEMMA Concatenations ==
  ASSUME NEW E, NEW a \in Seq(E), NEW w \in Seq(E), NEW r \in E
  PROVE  /\ a \o w \in Seq(E) /\ a \o <<>> = a /\ <<>> \o a = a
         /\ Append(w, r) \in Seq(E) /\ a \o Append(w, r) = Append(a \o w, r)
<1>1. a \o w \in Seq(E) /\ a \o <<>> = a /\ <<>> \o a = a /\ Append(w, r) \in Seq(E)
  BY ConcatProperties, ConcatEmptySeq
<1>2. a \o Append(w, r) = Append(a \o w, r)
  <2> DEFINE s == a \o Append(w, r)
             t == Append(a \o w, r)
  <2>1. /\ Len(a) \in Nat /\ Len(w) \in Nat
        /\ Append(w, r) \in Seq(E) /\ Len(Append(w, r)) = Len(w) + 1
        /\ \A i \in 1 .. Len(w) + 1 : Append(w, r)[i] = IF i = Len(w) + 1 THEN r ELSE w[i]
    OBVIOUS
  <2>2. /\ s \in Seq(E) /\ Len(s) = Len(a) + (Len(w) + 1)
        /\ \A i \in 1 .. Len(a) + (Len(w) + 1) : s[i] = IF i <= Len(a) THEN a[i] ELSE Append(w, r)[i - Len(a)]
    BY <2>1, ConcatProperties
  <2>3. /\ Len(a \o w) = Len(a) + Len(w)
        /\ \A i \in 1 .. Len(a) + Len(w) : (a \o w)[i] = IF i <= Len(a) THEN a[i] ELSE w[i - Len(a)]
    BY ConcatProperties
  <2>4. /\ t \in Seq(E) /\ Len(t) = Len(a) + Len(w) + 1
        /\ \A i \in 1 .. Len(a) + Len(w) + 1 : t[i] = IF i = Len(a) + Len(w) + 1 THEN r ELSE (a \o w)[i]
    BY <1>1, <2>1, <2>3
  <2> HIDE DEF s, t
  <2>5. Len(s) = Len(t)
    BY <2>1, <2>2, <2>4
  <2>6. ASSUME NEW i \in 1 .. Len(s) PROVE s[i] = t[i]
    <3>0. i \in Nat /\ i <= Len(a) + Len(w) + 1
      BY <2>1, <2>2
    <3>1. CASE i <= Len(a)
      <4>1. /\ i \in 1 .. Len(a) + Len(w) /\ i # Len(a) + Len(w) + 1
            /\ i \in 1 .. Len(a) + Len(w) + 1 /\ i \in 1 .. Len(a) + (Len(w) + 1)
        BY <3>1, <3>0, <2>1
      <4>2. s[i] = a[i]
        BY <3>1, <4>1, <2>2
      <4>3. t[i] = (a \o w)[i]
        BY <4>1, <2>4
      <4>4. (a \o w)[i] = a[i]
        BY <3>1, <4>1, <2>3
      <4> QED BY <4>2, <4>3, <4>4
    <3>2. CASE ~(i <= Len(a)) /\ i <= Len(a) + Len(w)
      <4>1. /\ i \in 1 .. Len(a) + Len(w) /\ i # Len(a) + Len(w) + 1
            /\ i \in 1 .. Len(a) + Len(w) + 1 /\ i \in 1 .. Len(a) + (Len(w) + 1)
            /\ i - Len(a) \in 1 .. Len(w) + 1 /\ i - Len(a) # Len(w) + 1
        BY <3>2, <3>0, <2>1
      <4>2. s[i] = Append(w, r)[i - Len(a)]
        BY <3>2, <4>1, <2>2
      <4>3. t[i] = (a \o w)[i]
        BY <4>1, <2>4
      <4>4. (a \o w)[i] = w[i - Len(a)]
        BY <3>2, <4>1, <2>3
      <4>5. Append(w, r)[i - Len(a)] = w[i - Len(a)]
        BY <4>1, <2>1
      <4> QED BY <4>2, <4>3, <4>4, <4>5
    <3>3. CASE i = Len(a) + Len(w) + 1
      <4>1. ~(i <= Len(a)) /\ i - Len(a) = Len(w) + 1 /\ Len(w) + 1 \in 1 .. Len(w) + 1
        BY <3>3, <2>1
      <4> QED BY <3>3, <4>1, <2>1, <2>2, <2>4
    <3> QED BY <3>1, <3>2, <3>3, <3>0, <2>1
  <2>7. s = t
    BY <2>2, <2>4, <2>5, <2>6, SeqEqual
  <2> QED BY <2>7 DEF s, t
<1> QED BY <1>1, <1>2

(* A replay that comes to its end has come to the end of every beginning.  *)
LEMMA ReplayOfPrefix ==
  ASSUME NEW a \in Seq(Logged), NEW w \in Seq(Logged), Replay(a \o w) # Broken
  PROVE  Replay(a) # Broken
<1> DEFINE S == {s \in Seq(Logged) : Replay(a \o s) # Broken => Replay(a) # Broken}
<1>1. <<>> \in S
  BY EmptySeq, ConcatEmptySeq
<1>2. ASSUME NEW s \in Seq(Logged), NEW r \in Logged, s \in S PROVE Append(s, r) \in S
  <2>1. /\ a \o s \in Seq(Logged) /\ Append(s, r) \in Seq(Logged)
        /\ a \o Append(s, r) = Append(a \o s, r)
    BY Concatenations
  <2>2. Replay(a \o Append(s, r)) = ReplayOne(Replay(a \o s), r)
    BY <2>1, OneMore
  <2>3. Replay(a \o Append(s, r)) # Broken => Replay(a \o s) # Broken
    BY <2>1, <2>2, Outcomes, Replaying
  <2> QED BY <1>2, <2>1, <2>3
<1>3. Seq(Logged) \subseteq S
  <2> HIDE DEF S
  <2> QED BY <1>1, <1>2, SeqIsInductive
<1> QED BY <1>3

(* Records for other keys leave a key alone.                               *)
Spares(w, k) == \A i \in 1 .. Len(w) : w[i] = Cut \/ w[i].key # k

LEMMA Untouched ==
  ASSUME NEW a \in Seq(Logged), NEW w \in Seq(Logged), NEW k \in Keys, Spares(w, k)
  PROVE  Outcome(a \o w)[k] = Outcome(a)[k]
<1> DEFINE S == {s \in Seq(Logged) : Spares(s, k) => Outcome(a \o s)[k] = Outcome(a)[k]}
<1>1. <<>> \in S
  BY EmptySeq, ConcatEmptySeq
<1>2. ASSUME NEW s \in Seq(Logged), NEW r \in Logged, s \in S PROVE Append(s, r) \in S
  <2>1. /\ a \o s \in Seq(Logged) /\ Append(s, r) \in Seq(Logged)
        /\ a \o Append(s, r) = Append(a \o s, r)
    BY Concatenations
  <2>2. SUFFICES ASSUME Spares(Append(s, r), k)
                 PROVE  Outcome(a \o Append(s, r))[k] = Outcome(a)[k]
    BY <2>1
  <2>3. Spares(s, k) /\ (r = Cut \/ r.key # k)
    <3>1. /\ Len(s) \in Nat /\ Len(Append(s, r)) = Len(s) + 1 /\ Append(s, r)[Len(s) + 1] = r
          /\ \A i \in 1 .. Len(s) : Append(s, r)[i] = s[i]
      OBVIOUS
    <3> QED BY <3>1, <2>2 DEF Spares
  <2>4. Outcome(a \o Append(s, r)) = Perform(Outcome(a \o s), r)
    BY <2>1, OneMore
  <2>5. Perform(Outcome(a \o s), r)[k] = Outcome(a \o s)[k]
    BY <2>1, <2>3, Outcomes, Performing
  <2> QED BY <1>2, <2>3, <2>4, <2>5
<1>3. Seq(Logged) \subseteq S
  <2> HIDE DEF S
  <2> QED BY <1>1, <1>2, SeqIsInductive
<1> QED BY <1>3
-----------------------------------------------------------------------------
(* Snapshots, and what a crash leaves of a write.                          *)

Present(d)   == {k \in Keys : d[k] # Nothing}
AddOf(d, k)  == [act |-> "A", key |-> k, val |-> d[k]]

(* A snapshot has one 'A' record for each key that is present.             *)
LEMMA SnapshotRecords ==
  ASSUME NEW d \in Dictionaries, NEW s \in Snapshots(d)
  PROVE  /\ s \in Seq(Whole)
         /\ \A i \in 1 .. Len(s) : s[i].key \in Present(d) /\ s[i] = AddOf(d, s[i].key)
         /\ \A i, j \in 1 .. Len(s) : i # j => s[i].key # s[j].key
         /\ \A k \in Present(d) : \E i \in 1 .. Len(s) : s[i].key = k
<1> DEFINE P == Present(d)
           R == {AddOf(d, k) : k \in P}
           n == Cardinality(R)
           f == [k \in P |-> AddOf(d, k)]
<1>1. IsFiniteSet(R) /\ n \in Nat
  <2>1. IsFiniteSet(P)
    BY PDAssumption, FS_Subset DEF Present
  <2>2. f \in Surjection(P, R)
    BY DEF Surjection
  <2>3. IsFiniteSet(R)
    <3> HIDE DEF P, R, f
    <3> QED BY <2>1, <2>2, FS_Surjection
  <2> HIDE DEF R
  <2> QED BY <2>3, FS_CardinalityType
<1>2. s \in [1 .. n -> R] /\ \A i, j \in 1 .. n : i # j => s[i] # s[j]
  BY DEF Snapshots, SetToSeqs, Present, AddOf
<1>3. R \subseteq Whole
  <2>1. ASSUME NEW k \in P PROVE AddOf(d, k) \in Whole
    <3>1. k \in Keys /\ d[k] \in Vals \union {Short}
      BY DEF Present, Dictionaries
    <3>2. AddOf(d, k) \in Logged /\ AddOf(d, k).act = "A"
      BY <3>1 DEF AddOf, Logged
    <3> QED BY <3>2 DEF Whole, Cut
  <2> QED BY <2>1
<1> HIDE DEF n
<1>4. s \in Seq(Whole) /\ Len(s) = n
  <2>1. s \in [1 .. n -> Whole]
    <3> HIDE DEF R
    <3> QED BY <1>2, <1>3
  <2> QED BY <1>1, <2>1
<1>5. \A i \in 1 .. n : s[i].key \in P /\ s[i] = AddOf(d, s[i].key)
  BY <1>2 DEF AddOf
<1>6. \A i, j \in 1 .. n : i # j => s[i].key # s[j].key
  BY <1>2, <1>5
<1>7. ASSUME NEW k \in P PROVE \E i \in 1 .. n : s[i].key = k
  <2>1. s \in Injection(1 .. n, R)
    BY <1>2 DEF Injection, IsInjective
  <2>2. Cardinality(1 .. n) = n /\ IsFiniteSet(1 .. n)
    BY <1>1, FS_Interval
  <2>3. s \in Surjection(1 .. n, R)
    <3> HIDE DEF R
    <3> QED BY <1>1, <2>1, <2>2, FS_Injection DEF n
  <2>4. PICK i \in 1 .. n : s[i] = AddOf(d, k)
    BY <2>3 DEF Surjection
  <2> QED BY <2>4 DEF AddOf
<1> QED BY <1>4, <1>5, <1>6, <1>7

(* What the replay of the first i records gives.                           *)
Replayed(file, i) == Rounds(TRUE, file, i)

(* The part of a dictionary that the first records of a snapshot give.     *)
Reached(d, s, i) == [k \in Keys |-> IF \E j \in 1 .. i : s[j].key = k THEN d[k] ELSE Nothing]

(* A snapshot, replayed, gives the dictionary it was taken of: after i     *)
(* records the dictionary has the keys of these records.                   *)
LEMMA SnapshotReplays ==
  ASSUME NEW d \in Dictionaries, NEW s \in Snapshots(d)
  PROVE  s \in Seq(Logged) /\ Replay(s) = d /\ Outcome(s) = d
<1> DEFINE S == {i \in Nat : i <= Len(s) => Replayed(s, i) = Reached(d, s, i)}
<1>1. s \in Seq(Logged)
  BY SnapshotRecords, RecordSets, SeqMonotonic
<1>2. Len(s) \in Nat
  BY <1>1, LenProperties
<1>3. 0 \in S
  <2>1. Reached(d, s, 0) = Empty
    BY DEF Empty, Reached
  <2> QED BY <1>1, <2>1, RoundByRound DEF Replayed
<1>4. ASSUME NEW i \in Nat, i \in S PROVE i + 1 \in S
  <2>1. SUFFICES ASSUME i + 1 <= Len(s) PROVE Replayed(s, i + 1) = Reached(d, s, i + 1)
    OBVIOUS
  <2>2. i \in 0 .. Len(s) - 1 /\ i + 1 \in 1 .. Len(s) /\ \A j \in 1 .. i : j \in 1 .. Len(s) /\ j # i + 1
    BY <1>2, <2>1
  <2>3. Replayed(s, i + 1) = ReplayOne(Replayed(s, i), s[i + 1])
    BY <1>1, <2>2, RoundByRound DEF Round, Replayed
  <2>4. Replayed(s, i) = Reached(d, s, i)
    BY <1>4, <1>2, <2>1
  <2> DEFINE k == s[i + 1].key
  <2>5. k \in Keys /\ s[i + 1] = AddOf(d, k)
    BY <2>2, SnapshotRecords DEF Present
  <2>6. \A j \in 1 .. i : s[j].key # k
    BY <2>2, SnapshotRecords
  <2>7. Reached(d, s, i)[k] = Nothing /\ Reached(d, s, i) \in Dictionaries
    BY <2>5, <2>6 DEF Dictionaries, Reached
  <2>8. Reached(d, s, i) # Broken
    BY <2>7, Dictionary
  <2> HIDE DEF k
  <2>9. ReplayOne(Reached(d, s, i), s[i + 1]) = [Reached(d, s, i) EXCEPT ![k] = d[k]]
    <3> QED BY <2>5, <2>7, <2>8 DEF ReplayOne, Perform, AddOf
  <2>10. [Reached(d, s, i) EXCEPT ![k] = d[k]] = Reached(d, s, i + 1)
    <3>1. \A j : j \in 1 .. i + 1 <=> j \in 1 .. i \/ j = i + 1
      OBVIOUS
    <3>2. ASSUME NEW q \in Keys
          PROVE  (\E j \in 1 .. i + 1 : s[j].key = q) <=> (\E j \in 1 .. i : s[j].key = q) \/ q = k
      BY <3>1 DEF k
    <3>3. ASSUME NEW q \in Keys PROVE [Reached(d, s, i) EXCEPT ![k] = d[k]][q] = Reached(d, s, i + 1)[q]
      BY <3>2, <2>5 DEF Reached
    <3> QED BY <3>3 DEF Reached
  <2> QED BY <2>3, <2>4, <2>9, <2>10
<1>5. Nat \subseteq S
  <2> HIDE DEF S
  <2> QED BY <1>3, <1>4, NatIsInductive
<1>6. Replay(s) = Reached(d, s, Len(s))
  <2>1. Replay(s) = Replayed(s, Len(s))
    BY <1>1, FoldsAreRounds DEF Replayed
  <2> QED BY <1>2, <1>5, <2>1
<1>7. Reached(d, s, Len(s)) = d
  <2>1. ASSUME NEW k \in Keys PROVE Reached(d, s, Len(s))[k] = d[k]
    BY SnapshotRecords DEF Present, Reached
  <2> QED BY <2>1 DEF Dictionaries, Reached
<1> QED BY <1>1, <1>6, <1>7, Dictionary, Outcomes

(* What reached the file of the records that a writer held back.           *)
LEMMA Beginnings ==
  ASSUME NEW b \in Seq(Whole), NEW n \in 0 .. Len(b)
  PROVE  /\ SubSeq(b, 1, n) \in Seq(Whole) /\ Len(SubSeq(b, 1, n)) = n
         /\ \A i \in 1 .. n : SubSeq(b, 1, n)[i] = b[i]
<1>1. \A i \in 1 .. n : b[i] \in Whole
  OBVIOUS
<1> QED BY <1>1

LEMMA TornRecords ==
  ASSUME NEW r \in Whole, NEW t \in Torn(r)
  PROVE  t \in Logged /\ (t = Cut \/ (t.act = r.act /\ t.key = r.key))
<1>1. CASE t = Cut
  BY <1>1, RecordSets
<1>2. CASE t # Cut
  <2>1. r.act # "R" /\ t = [r EXCEPT !.val = Short]
    BY <1>2 DEF Torn
  <2>2. r \in [act : {"A", "U"}, key : Keys, val : Vals \union {Short}]
    BY <2>1, Records DEF Whole, Logged
  <2>3. t \in Logged
    BY <2>1, <2>2 DEF Logged
  <2> QED BY <2>1, <2>2, <2>3
<1> QED BY <1>1, <1>2

LEMMA WrittenRecords ==
  ASSUME NEW b \in Seq(Whole), NEW w \in Written(b)
  PROVE  /\ w \in Seq(Logged)
         /\ \A k \in Keys : Spares(b, k) => Spares(w, k)
<1>1. CASE \E n \in 0 .. Len(b) : w = SubSeq(b, 1, n)
  <2>1. PICK n \in 0 .. Len(b) : w = SubSeq(b, 1, n)
    BY <1>1
  <2>2. w \in Seq(Whole) /\ Len(w) = n /\ \A i \in 1 .. n : w[i] = b[i] /\ i \in 1 .. Len(b)
    BY <2>1, Beginnings
  <2>3. w \in Seq(Logged)
    BY <2>2, RecordSets, SeqMonotonic
  <2> QED BY <2>2, <2>3 DEF Spares
<1>2. CASE \E n \in 0 .. Len(b) - 1 : \E t \in Torn(b[n + 1]) : w = Append(SubSeq(b, 1, n), t)
  <2>1. PICK n \in 0 .. Len(b) - 1 : \E t \in Torn(b[n + 1]) : w = Append(SubSeq(b, 1, n), t)
    BY <1>2
  <2>2. PICK t \in Torn(b[n + 1]) : w = Append(SubSeq(b, 1, n), t)
    BY <2>1
  <2> DEFINE p == SubSeq(b, 1, n)
  <2>3. n \in Nat /\ n + 1 \in 1 .. Len(b) /\ b[n + 1] \in Whole
    OBVIOUS
  <2>4. p \in Seq(Whole) /\ Len(p) = n /\ \A i \in 1 .. n : p[i] = b[i] /\ i \in 1 .. Len(b)
    BY Beginnings
  <2> HIDE DEF p
  <2>5. t \in Logged /\ (t = Cut \/ t.key = b[n + 1].key)
    BY <2>3, TornRecords
  <2>6. p \in Seq(Logged)
    BY <2>4, RecordSets, SeqMonotonic
  <2>7. w \in Seq(Logged) /\ Len(w) = n + 1 /\ \A i \in 1 .. n + 1 : w[i] = IF i = n + 1 THEN t ELSE p[i]
    BY <2>2, <2>4, <2>5, <2>6 DEF p
  <2>8. \A i \in 1 .. n + 1 : i = n + 1 \/ i \in 1 .. n
    BY <2>3
  <2>9. ASSUME NEW k \in Keys, Spares(b, k), NEW i \in 1 .. n + 1 PROVE w[i] = Cut \/ w[i].key # k
    <3>1. CASE i = n + 1
      <4>1. b[n + 1] # Cut /\ b[n + 1].key # k
        BY <2>3, <2>9 DEF Spares, Whole
      <4> QED BY <3>1, <4>1, <2>5, <2>7
    <3>2. CASE i # n + 1
      BY <3>2, <2>4, <2>7, <2>8, <2>9 DEF Spares
    <3> QED BY <3>1, <3>2
  <2> QED BY <2>7, <2>9 DEF Spares
<1> QED BY <1>1, <1>2 DEF Written

(* A log is the same however its parts are put together.                   *)
LEMMA Regroup ==
  ASSUME NEW a \in Seq(Logged), NEW p \in Seq(Logged), NEW q \in Seq(Logged)
  PROVE  a \o (p \o q) = (a \o p) \o q /\ a \o p \in Seq(Logged)
BY ConcatAssociative, ConcatProperties

(* If a log can be replayed with all of these records it can be replayed   *)
(* with what reached the file.                                             *)
LEMMA WrittenReplays ==
  ASSUME NEW a \in Seq(Logged), NEW b \in Seq(Whole), NEW w \in Written(b), Replay(a \o b) # Broken
  PROVE  Replay(a \o w) # Broken
<1>1. b \in Seq(Logged) /\ Len(b) \in Nat
  BY RecordSets, SeqMonotonic
<1>2. ASSUME NEW n \in 0 .. Len(b)
      PROVE  SubSeq(b, 1, n) \in Seq(Logged) /\ Replay(a \o SubSeq(b, 1, n)) # Broken
  <2> DEFINE p == SubSeq(b, 1, n)
             q == SubSeq(b, n + 1, Len(b))
  <2>1. p \in Seq(Logged)
    BY Beginnings, RecordSets, SeqMonotonic
  <2>2. q \in Seq(Logged)
    <3>1. n + 1 \in Int /\ Len(b) \in Int /\ \A i \in n + 1 .. Len(b) : b[i] \in Logged
      BY <1>1
    <3> QED BY <3>1, SubSeqProperties
  <2>3. p \o q = b
    <3>1. 1 \in 1 .. Len(b) + 1 /\ n \in 1 - 1 .. Len(b) /\ Len(b) \in n .. Len(b)
      BY <1>1
    <3>2. p \o q = SubSeq(b, 1, Len(b))
      BY <1>1, <3>1, ConcatAdjacentSubSeq
    <3> QED BY <3>2, <1>1, SubSeqFull
  <2> HIDE DEF p, q
  <2>4. a \o b = (a \o p) \o q /\ a \o p \in Seq(Logged)
    <3>1. a \o (p \o q) = (a \o p) \o q /\ a \o p \in Seq(Logged)
      BY <2>1, <2>2, Regroup, Zenon
    <3> QED BY <3>1, <2>3, Zenon
  <2>5. Replay(a \o p) # Broken
    BY <2>2, <2>4, ReplayOfPrefix
  <2> QED BY <2>1, <2>5 DEF p
<1>3. CASE \E n \in 0 .. Len(b) : w = SubSeq(b, 1, n)
  BY <1>2, <1>3
<1>4. ASSUME NEW n \in 0 .. Len(b) - 1, NEW t \in Torn(b[n + 1]), w = Append(SubSeq(b, 1, n), t)
      PROVE  Replay(a \o w) # Broken
  <2> DEFINE p == SubSeq(b, 1, n)
             D == Replay(a \o p)
             r == b[n + 1]
  <2>1. n \in Nat /\ n + 1 \in 1 .. Len(b) /\ n \in 0 .. Len(b) /\ n + 1 \in 0 .. Len(b) /\ r \in Whole
    BY <1>1
  <2>2. p \in Seq(Logged) /\ a \o p \in Seq(Logged) /\ r \in Logged
    BY <1>2, <2>1, Concatenations, RecordSets
  <2>3. SubSeq(b, 1, n + 1) = Append(p, r)
    BY <1>1, <2>1
  <2>4. t \in Logged /\ (t = Cut \/ (t.act = r.act /\ t.key = r.key))
    BY <2>1, TornRecords
  <2>5. Replay(Append(a \o p, r)) # Broken
    <3>1. Replay(a \o SubSeq(b, 1, n + 1)) # Broken
      BY <1>2, <2>1
    <3> HIDE DEF p, r
    <3>2. a \o Append(p, r) = Append(a \o p, r)
      BY <2>2, Concatenations
    <3> QED BY <2>3, <3>1, <3>2
  <2> HIDE DEF p, r
  <2>6. ReplayOne(D, r) # Broken /\ D \in Dictionaries \union {Broken}
    BY <2>2, <2>5, OneMore, Outcomes
  <2>7. D # Broken /\ ~(r.act = "A" /\ D[r.key] # Nothing)
    BY <2>2, <2>6, Replaying
  <2>8. ~(t.act = "A" /\ D[t.key] # Nothing)
    BY <2>4, <2>7 DEF Cut
  <2>9. ReplayOne(D, t) # Broken
    BY <2>4, <2>6, <2>7, <2>8, Replaying
  <2>10. a \o w = Append(a \o p, t)
    BY <1>4, <2>2, <2>4, Concatenations DEF p
  <2> QED BY <2>2, <2>4, <2>9, <2>10, OneMore
<1> QED BY <1>3, <1>4 DEF Written
-----------------------------------------------------------------------------
(* The invariant, step by step.                                            *)

(* What every step may assume of the sequences.                            *)
LEMMA Sequences ==
  ASSUME TypeInv
  PROVE  /\ mBuffer \in Seq(Whole) /\ mBuffer \in Seq(Logged)
         /\ log # NoFile => /\ log \in Seq(Logged) /\ log \o mBuffer \in Seq(Logged)
                            /\ log \o <<>> = log /\ Len(log) \in Nat
         /\ op # NoOp => op \in Record /\ op \in Logged /\ op # Cut /\ op.key \in Keys
         /\ missed # NoOp => missed \in Record /\ missed \in Logged /\ missed.key \in Keys
<1>1. mBuffer \in Seq(Whole) /\ mBuffer \in Seq(Logged)
  BY RecordSets, SeqMonotonic DEF TypeInv
<1>2. ASSUME log # NoFile
      PROVE  /\ log \in Seq(Logged) /\ log \o mBuffer \in Seq(Logged)
             /\ log \o <<>> = log /\ Len(log) \in Nat
  BY <1>1, <1>2, ConcatProperties, ConcatEmptySeq, LenProperties DEF TypeInv
<1>3. ASSUME NEW r \in Record PROVE r \in Logged /\ r # Cut /\ r.key \in Keys
  BY <1>3, RecordSets, Records
<1>4. op \in Record \union {NoOp} /\ missed \in Record \union {NoOp}
  BY DEF TypeInv
<1> QED BY <1>1, <1>2, <1>3, <1>4

(* The explanation of the dictionary, and what handing the buffer to the   *)
(* file does to it: nothing.                                               *)
Dropped == IF missed = NoOp THEN <<>> ELSE <<missed>>

LEMMA ExplanationIs ==
  ASSUME TypeInv, log # NoFile, snap <= Len(log)
  PROVE  LET a == SubSeq(log, 1, snap)
             b == SubSeq(log, snap + 1, Len(log))
         IN  /\ a \in Seq(Logged) /\ b \in Seq(Logged) /\ Dropped \in Seq(Logged)
             /\ a \o Dropped \in Seq(Logged) /\ (a \o Dropped) \o b \in Seq(Logged)
             /\ Explanation = ((a \o Dropped) \o b) \o mBuffer
             /\ Explanation \in Seq(Logged)
<1> DEFINE a == SubSeq(log, 1, snap)
           b == SubSeq(log, snap + 1, Len(log))
<1>1. log \in Seq(Logged) /\ Len(log) \in Nat /\ snap \in Nat /\ mBuffer \in Seq(Logged)
  BY Sequences DEF TypeInv
<1>2. a \in Seq(Logged)
  <2>1. 1 \in Int /\ snap \in Int /\ \A i \in 1 .. snap : log[i] \in Logged
    BY <1>1
  <2> QED BY <2>1, SubSeqProperties
<1>3. b \in Seq(Logged)
  <2>1. snap + 1 \in Int /\ Len(log) \in Int /\ \A i \in snap + 1 .. Len(log) : log[i] \in Logged
    BY <1>1
  <2> QED BY <2>1, SubSeqProperties
<1>4. Dropped \in Seq(Logged)
  <2>1. CASE missed = NoOp
    BY <2>1, EmptySeq DEF Dropped
  <2>2. CASE missed # NoOp
    BY <2>2, Sequences DEF Dropped
  <2> QED BY <2>1, <2>2
<1>5. Explanation = ((a \o Dropped) \o b) \o mBuffer
  BY DEF Explanation, Dropped
<1> HIDE DEF a, b
<1>6. a \o Dropped \in Seq(Logged)
  BY <1>2, <1>4, ConcatProperties
<1>7. (a \o Dropped) \o b \in Seq(Logged)
  BY <1>6, <1>3, ConcatProperties
<1>8. Explanation \in Seq(Logged)
  BY <1>1, <1>5, <1>7, ConcatProperties
<1> QED BY <1>2, <1>3, <1>4, <1>5, <1>6, <1>7, <1>8 DEF a, b

LEMMA FlushExplains ==
  ASSUME TypeInv, TypeInv', log # NoFile, snap <= Len(log), FlushNow, UNCHANGED <<snap, missed>>
  PROVE  snap' <= Len(log') /\ Explanation' = Explanation
<1> DEFINE n == Len(log)
           m == Len(mBuffer)
           a == SubSeq(log, 1, snap)
           b == SubSeq(log, snap + 1, n)
<1>1. /\ log \in Seq(Logged) /\ n \in Nat /\ snap \in Nat /\ snap <= n
      /\ mBuffer \in Seq(Logged) /\ m \in Nat
  BY Sequences, LenProperties DEF TypeInv
<1>2. log' = log \o mBuffer /\ log' \in Seq(Logged) /\ mBuffer' = <<>> /\ Len(log') = n + m
      /\ \A i \in 1 .. n + m : log'[i] = IF i <= n THEN log[i] ELSE mBuffer[i - n]
  BY <1>1, ConcatProperties DEF FlushNow
<1>3. SubSeq(log', 1, snap) = a
  <2>1. CASE snap = 0
    BY <2>1, SubSeqEmpty
  <2>2. CASE snap # 0
    <3>1. 1 \in 1 .. Len(log) /\ snap \in 1 .. Len(log)
      BY <2>2, <1>1
    <3> QED BY <3>1, <1>1, <1>2, SubSeqOfConcat1
  <2> QED BY <2>1, <2>2
<1>4. SubSeq(log', snap + 1, n + m) = b \o mBuffer
  <2> DEFINE p == SubSeq(log', snap + 1, n + m)
             q == b \o mBuffer
  <2>1. /\ b \in Seq(Logged) /\ Len(b) = n - snap
        /\ \A i \in 1 .. n - snap : b[i] = log[snap + i]
    <3>1. snap + 1 \in Int /\ n \in Int /\ \A i \in snap + 1 .. n : log[i] \in Logged
      BY <1>1
    <3>2. /\ b \in Seq(Logged) /\ Len(b) = IF snap + 1 <= n THEN n - (snap + 1) + 1 ELSE 0
          /\ \A i \in 1 .. n - (snap + 1) + 1 : b[i] = log[snap + 1 + i - 1]
      BY <3>1, SubSeqProperties
    <3> HIDE DEF b, n
    <3>3. Len(b) = n - snap /\ n - (snap + 1) + 1 = n - snap
      BY <3>2, <1>1
    <3>4. \A i \in 1 .. n - snap : snap + 1 + i - 1 = snap + i
      BY <1>1
    <3> QED BY <3>2, <3>3, <3>4
  <2>2. /\ p \in Seq(Logged) /\ Len(p) = n + m - snap
        /\ \A i \in 1 .. n + m - snap : p[i] = log'[snap + i]
    <3>1. snap + 1 \in Int /\ n + m \in Int /\ \A i \in snap + 1 .. n + m : log'[i] \in Logged
      <4>1. \A i \in snap + 1 .. n + m : i \in 1 .. n + m
        BY <1>1
      <4> QED BY <4>1, <1>1, <1>2, ElementOfSeq
    <3>2. /\ p \in Seq(Logged) /\ Len(p) = IF snap + 1 <= n + m THEN n + m - (snap + 1) + 1 ELSE 0
          /\ \A i \in 1 .. n + m - (snap + 1) + 1 : p[i] = log'[snap + 1 + i - 1]
      BY <3>1, SubSeqProperties
    <3> HIDE DEF p, n, m
    <3>3. Len(p) = n + m - snap /\ n + m - (snap + 1) + 1 = n + m - snap
      BY <3>2, <1>1
    <3>4. \A i \in 1 .. n + m - snap : snap + 1 + i - 1 = snap + i
      BY <1>1
    <3> QED BY <3>2, <3>3, <3>4
  <2>3. /\ q \in Seq(Logged) /\ Len(q) = n - snap + m
        /\ \A i \in 1 .. n - snap + m : q[i] = IF i <= n - snap THEN b[i] ELSE mBuffer[i - (n - snap)]
    <3> HIDE DEF b, n
    <3>1. /\ q \in Seq(Logged) /\ Len(q) = Len(b) + m
          /\ \A i \in 1 .. Len(b) + m : q[i] = IF i <= Len(b) THEN b[i] ELSE mBuffer[i - Len(b)]
      BY <2>1, <1>1, ConcatProperties
    <3> QED BY <2>1, <3>1
  <2> HIDE DEF p, q, b, n, m
  <2>4. Len(p) = Len(q)
    BY <1>1, <2>2, <2>3
  <2>5. ASSUME NEW i \in 1 .. Len(p) PROVE p[i] = q[i]
    <3>1. /\ i \in 1 .. n + m - snap /\ i \in 1 .. n - snap + m /\ snap + i \in 1 .. n + m
          /\ i <= n - snap <=> snap + i <= n
          /\ i <= n - snap => i \in 1 .. n - snap
          /\ i - (n - snap) = snap + i - n
      BY <1>1, <2>2
    <3>2. p[i] = IF snap + i <= n THEN log[snap + i] ELSE mBuffer[snap + i - n]
      <4>1. p[i] = log'[snap + i]
        BY <3>1, <2>2
      <4>2. log'[snap + i] = IF snap + i <= n THEN log[snap + i] ELSE mBuffer[snap + i - n]
        <5>1. \A j \in 1 .. n + m : log'[j] = IF j <= n THEN log[j] ELSE mBuffer[j - n]
          BY <1>2
        <5>2. PICK j \in 1 .. n + m : j = snap + i
          BY <3>1
        <5>3. log'[j] = IF j <= n THEN log[j] ELSE mBuffer[j - n]
          BY <5>1, <5>2
        <5> QED BY <5>2, <5>3, <1>1, <2>2
      <4> QED BY <4>1, <4>2
    <3>3. q[i] = IF i <= n - snap THEN b[i] ELSE mBuffer[i - (n - snap)]
      BY <3>1, <2>3
    <3> QED BY <3>1, <3>2, <3>3, <2>1
  <2>6. p = q
    BY <2>2, <2>3, <2>4, <2>5, SeqEqual
  <2> QED BY <2>6 DEF p, q
<1>5. snap' = snap /\ snap <= Len(log') /\ Dropped' = Dropped /\ log' # NoFile
  <2>1. log' # NoFile
    BY <1>2, RecordSets
  <2>2. snap <= Len(log')
    BY <1>1, <1>2
  <2> QED BY <2>1, <2>2 DEF Dropped
<1> HIDE DEF a, b, n, m
<1>6. Explanation = ((a \o Dropped) \o b) \o mBuffer
      /\ a \o Dropped \in Seq(Logged) /\ b \in Seq(Logged)
  BY ExplanationIs DEF a, b, n
<1>7. Explanation' = ((a \o Dropped) \o (b \o mBuffer)) \o <<>>
  <2>1. Explanation' = ((SubSeq(log', 1, snap') \o Dropped') \o SubSeq(log', snap' + 1, Len(log'))) \o mBuffer'
    BY DEF Explanation, Dropped
  <2> QED BY <2>1, <1>2, <1>3, <1>4, <1>5
<1>8. Explanation' = (a \o Dropped) \o (b \o mBuffer)
  BY <1>1, <1>6, <1>7, ConcatProperties, ConcatEmptySeq
<1>9. (a \o Dropped) \o (b \o mBuffer) = ((a \o Dropped) \o b) \o mBuffer
  <2> DEFINE c == a \o Dropped
  <2>1. c \in Seq(Logged) /\ b \in Seq(Logged) /\ mBuffer \in Seq(Logged)
    BY <1>1, <1>6
  <2> HIDE DEF c
  <2>2. (c \o b) \o mBuffer = c \o (b \o mBuffer)
    BY <2>1, ConcatAssociative
  <2> QED BY <2>2 DEF c
<1> QED BY <1>5, <1>6, <1>8, <1>9
-----------------------------------------------------------------------------
(* An operation gives a key the same value in any two dictionaries that    *)
(* agree on the key.                                                       *)
LEMMA PerformAgrees ==
  ASSUME NEW d \in Dictionaries, NEW e \in Dictionaries, NEW r \in Record, NEW k \in Keys, d[k] = e[k]
  PROVE  Perform(d, r)[k] = Perform(e, r)[k]
<1>1. r \in Logged /\ r # Cut /\ r.key \in Keys
  BY RecordSets, Records
<1>2. CASE k = r.key
  BY <1>1, <1>2, Performing
<1>3. CASE k # r.key
  BY <1>1, <1>3, Performing
<1> QED BY <1>2, <1>3

(* The operations that leave a key that was present present: all but a     *)
(* removal.                                                                *)
LEMMA PerformKeeps ==
  ASSUME NEW d \in Dictionaries, NEW r \in Record, NEW k \in Keys
  PROVE  /\ d[k] # Nothing /\ r.act # "R" => Perform(d, r)[k] # Nothing
         /\ r.act # "R" => Perform(d, r)[r.key] # Nothing
<1>1. r \in Logged /\ r # Cut /\ r.key \in Keys /\ (r.act # "R" => r.val \in Vals \union {Short})
  BY RecordSets, Records
<1>2. r.act # "R" => r.val # Nothing
  BY <1>1, PDAssumption
<1>3. r.act # "R" => Perform(d, r)[r.key] # Nothing
  BY <1>1, <1>2, Performing
<1>4. d[k] # Nothing /\ k # r.key => Perform(d, r)[k] # Nothing
  BY <1>1, Performing
<1> QED BY <1>3, <1>4

LEMMA NowIs ==
  ASSUME TypeInv
  PROVE  /\ Now \in Dictionaries
         /\ op = NoOp => Now = mDictionary
         /\ op # NoOp => /\ Now = Perform(mDictionary, op)
                         /\ \A k \in Keys : k # op.key => Now[k] = mDictionary[k]
<1>1. CASE op = NoOp
  BY <1>1 DEF Now, TypeInv
<1>2. CASE op # NoOp
  <2>1. op \in Logged /\ op # Cut /\ mDictionary \in Dictionaries
    BY <1>2, Sequences DEF TypeInv
  <2> QED BY <1>2, <2>1, Performing DEF Now
<1> QED BY <1>1, <1>2

(* A step that leaves the log and the dictionary's contents alone, and one *)
(* that hands the buffer to the file, keep what the log is known to hold.  *)
LEMMA LogKept ==
  ASSUME IInv, pc # "closed", UNCHANGED <<client, missed>>, Now' = Now,
         UNCHANGED <<log, mBuffer>> \/ (log # NoFile /\ FlushNow)
  PROVE  AgreeInv' /\ ReadInv'
<1>1. log' # NoFile => /\ log # NoFile
                       /\ log' \o mBuffer' = log \o mBuffer
  <2>1. CASE UNCHANGED <<log, mBuffer>>
    BY <2>1
  <2>2. CASE log # NoFile /\ FlushNow
    <3>1. log \o mBuffer \in Seq(Logged)
      BY <2>2, Sequences DEF IInv
    <3> QED BY <2>2, <3>1, ConcatEmptySeq DEF FlushNow
  <2> QED BY <2>1, <2>2
<1>2. AgreeInv'
  BY <1>1 DEF IInv, AgreeInv
<1>3. ReadInv'
  BY <1>1 DEF IInv, ReadInv
<1> QED BY <1>2, <1>3

LEMMA FlushTypes ==
  ASSUME TypeInv, log # NoFile, FlushNow
  PROVE  log' \in Seq(Logged) /\ log' # NoFile /\ mBuffer' = <<>> /\ mBuffer' \in Seq(Record)
<1>1. log' \in Seq(Logged)
  BY Sequences DEF FlushNow
<1> QED BY <1>1, RecordSets, EmptySeq DEF FlushNow
-----------------------------------------------------------------------------
LEMMA InitIInv == Init => IInv
<1> SUFFICES ASSUME Init PROVE IInv
  OBVIOUS
<1>1. TypeInv
  <2>1. mBuffer \in Seq(Record)
    BY EmptySeq DEF Init
  <2> QED BY <2>1, Dictionary, PDAssumption DEF Init, TypeInv
<1>2. ControlInv
  BY PDAssumption DEF Init, ControlInv, Shrinking
<1>3. FileInv /\ ExplainInv /\ AgreeInv /\ ReadInv /\ Survives
  BY Dictionary DEF Init, FileInv, ExplainInv, AgreeInv, ReadInv, Survives, Recovered, Unreadable
<1> QED BY <1>1, <1>2, <1>3 DEF IInv

(* The constructor: the dictionary is what the log gives, or empty.        *)
LEMMA OpenIInv == IInv /\ Open => IInv'
<1> SUFFICES ASSUME IInv, Open PROVE IInv'
  OBVIOUS
<1> USE DEF IInv
<1>1. /\ pc = "closed" /\ pc' = "deleteTemp" /\ after' = "idle"
      /\ op = NoOp /\ op' = NoOp /\ missed' = NoOp
      /\ mBuffer' = <<>> /\ UNCHANGED <<client, AutoFlush, log, temp>>
  BY DEF Open, Shrink, ControlInv, Shrinking, setup
<1>2. mDictionary' \in Dictionaries /\ (log = NoFile => mDictionary' = Empty)
      /\ (log # NoFile => /\ log' \o mBuffer' = log /\ Replay(log) # Broken
                          /\ mDictionary' = Replay(log) /\ mDictionary' = Outcome(log))
  <2>1. CASE log = NoFile
    BY <2>1, Dictionary DEF Open
  <2>2. CASE log # NoFile
    <3>1. log \in Seq(Logged) /\ log \o <<>> = log
      BY <2>2, Sequences
    <3>2. Replay(log) # Broken /\ mDictionary' = Replay(log)
      BY <2>2 DEF Open
    <3> QED BY <2>2, <3>1, <3>2, <1>1, Outcomes
  <2> QED BY <2>1, <2>2
<1>3. TypeInv'
  <2>1. mBuffer' \in Seq(Record)
    BY <1>1, EmptySeq
  <2> QED BY <1>1, <1>2, <2>1 DEF TypeInv, Open, Shrinking
<1>4. ControlInv'
  BY <1>1, PDAssumption DEF ControlInv, Shrinking, Open
<1>5. FileInv' /\ ExplainInv' /\ Survives'
  BY <1>1, <1>2 DEF FileInv, ExplainInv, Survives
<1>6. Now' = mDictionary'
  BY <1>1 DEF Now
<1>7. AgreeInv' /\ ReadInv'
  BY <1>1, <1>2, <1>6 DEF AgreeInv, ReadInv
<1> QED BY <1>3, <1>4, <1>5, <1>7

(* Add, Remove and the indexer: one record, one operation in progress.     *)
LEMMA CallIInv == ASSUME IInv, NEW r \in Record, Call(r) PROVE IInv'
<1> USE DEF IInv
<1>1. /\ pc = "idle" /\ pc' = "flush" /\ op = NoOp /\ op' = r /\ log # NoFile
      /\ mBuffer' = Append(mBuffer, r)
      /\ UNCHANGED <<client, AutoFlush, after, mDictionary, mVersion, log, temp, missed, snap, before, doubt, unrenamed>>
  BY DEF Call, ControlInv, FileInv, Shrinking, ghosts
<1>2. /\ r \in Logged /\ r # Cut /\ r # NoOp /\ r.key \in Keys
      /\ mBuffer \in Seq(Logged) /\ log \in Seq(Logged) /\ log \o mBuffer \in Seq(Logged)
  BY <1>1, RecordSets, Records, Sequences
<1>3. log' \o mBuffer' = Append(log \o mBuffer, r)
  BY <1>1, <1>2, Concatenations
<1>4. Now = mDictionary /\ mDictionary \in Dictionaries /\ Now' = Perform(mDictionary, r)
  BY <1>1, <1>2 DEF Now, TypeInv
<1>5. TypeInv'
  <2>1. mBuffer' \in Seq(Record)
    BY <1>1 DEF TypeInv
  <2> QED BY <1>1, <2>1 DEF TypeInv
<1>6. ControlInv' /\ FileInv' /\ Survives'
  BY <1>1, <1>2 DEF ControlInv, FileInv, Survives, Shrinking
<1>7. ExplainInv'
  <2>1. snap <= Len(log) /\ Outcome(Explanation) = mDictionary
    BY <1>1, <1>4 DEF ExplainInv
  <2> DEFINE x == (SubSeq(log, 1, snap) \o Dropped) \o SubSeq(log, snap + 1, Len(log))
  <2>2. x \in Seq(Logged) /\ Explanation = x \o mBuffer /\ Explanation \in Seq(Logged)
    BY <1>1, <2>1, ExplanationIs
  <2>3. Explanation' = x \o Append(mBuffer, r)
    BY <1>1 DEF Explanation, Dropped
  <2> HIDE DEF x
  <2>4. Explanation' = Append(Explanation, r)
    BY <1>2, <2>2, <2>3, Concatenations
  <2>5. Outcome(Explanation') = Perform(mDictionary, r)
    BY <1>2, <2>1, <2>2, <2>4, OneMore
  <2> QED BY <1>1, <1>4, <2>1, <2>5 DEF ExplainInv
<1> DEFINE f == log \o mBuffer
<1>8. /\ Outcome(f) \in Dictionaries /\ Replay(f) \in Dictionaries \union {Broken}
      /\ Outcome(Append(f, r)) = Perform(Outcome(f), r)
      /\ Replay(Append(f, r)) = ReplayOne(Replay(f), r)
  BY <1>2, Outcomes, OneMore
<1>9. AgreeInv'
  <2>1. SUFFICES ASSUME NEW k \in Keys, missed # NoOp => k # missed.key
                 PROVE  Perform(Outcome(f), r)[k] = Perform(mDictionary, r)[k]
    BY <1>1, <1>3, <1>4, <1>8 DEF AgreeInv
  <2>2. Outcome(f)[k] = mDictionary[k]
    BY <1>1, <1>4, <2>1 DEF AgreeInv
  <2> QED BY <1>4, <1>8, <2>2, PerformAgrees
<1>10. ReadInv'
  <2>1. SUFFICES ASSUME client = "benchmark", missed.act # "R"
                 PROVE  /\ ReplayOne(Replay(f), r) # Broken
                        /\ \A k \in Keys : ReplayOne(Replay(f), r)[k] # Nothing =>
                                             Perform(mDictionary, r)[k] # Nothing
    BY <1>1, <1>3, <1>4, <1>8 DEF ReadInv
  <2>2. Replay(f) # Broken /\ \A k \in Keys : Replay(f)[k] # Nothing => mDictionary[k] # Nothing
    BY <1>1, <1>4, <2>1 DEF ReadInv
  <2>3. r.act = "A" => mDictionary[r.key] = Nothing
    BY <2>1 DEF Call, Allows
  <2> HIDE DEF f
  <2>4. ReplayOne(Replay(f), r) # Broken /\ ReplayOne(Replay(f), r) = Perform(Replay(f), r)
    BY <1>2, <1>8, <2>2, <2>3, Replaying
  <2>5. ASSUME NEW k \in Keys, Perform(Replay(f), r)[k] # Nothing
        PROVE  Perform(mDictionary, r)[k] # Nothing
    <3>1. CASE k # r.key
      <4>1. Perform(Replay(f), r)[k] = Replay(f)[k] /\ Perform(mDictionary, r)[k] = mDictionary[k]
        BY <1>2, <1>4, <1>8, <2>2, <3>1, Performing
      <4> QED BY <4>1, <2>2, <2>5
    <3>2. CASE k = r.key /\ r.act # "R"
      BY <3>2, <1>4, PerformKeeps
    <3>3. CASE k = r.key /\ r.act = "R"
      <4>1. r.val = Nothing
        BY <3>3, RecordSets, Records
      <4>2. Perform(Replay(f), r)[k] = Nothing
        BY <1>2, <1>8, <2>2, <3>3, <4>1, Performing
      <4> QED BY <4>2, <2>5
    <3> QED BY <3>1, <3>2, <3>3
  <2> QED BY <2>4, <2>5
<1> QED BY <1>5, <1>6, <1>7, <1>9, <1>10

(* The rest of AppendWriteAheadLog: the writer may be flushed, and the log *)
(* may have to be shrunk before the operation goes on.                     *)
LEMMA AppendIInv == IInv /\ AppendWriteAheadLog => IInv'
<1> SUFFICES ASSUME IInv, AppendWriteAheadLog PROVE IInv'
  OBVIOUS
<1> USE DEF IInv
<1>1. /\ pc = "flush" /\ op # NoOp /\ log # NoFile /\ mVersion <= Interval
      /\ UNCHANGED <<client, AutoFlush, op, mDictionary, temp, missed, snap, before, doubt, unrenamed>>
      /\ mVersion' = mVersion + 1
  BY DEF AppendWriteAheadLog, ControlInv, FileInv, Shrinking, setup, ghosts
<1>2. \/ pc' = "deleteTemp" /\ after' = "apply"
      \/ pc' = "apply" /\ after' = after /\ mVersion' <= Interval
  BY <1>1, PDAssumption DEF AppendWriteAheadLog, Shrink, TypeInv
<1>3. UNCHANGED <<log, mBuffer>> \/ FlushNow
  BY DEF AppendWriteAheadLog
<1>4. log' \in Seq(Logged) /\ log' # NoFile /\ mBuffer' \in Seq(Record)
  BY <1>1, <1>3, FlushTypes, Sequences DEF TypeInv
<1>5. TypeInv'
  BY <1>1, <1>2, <1>4 DEF TypeInv, Shrinking
<1>6. ControlInv'
  <2>1. mVersion' <= Interval + 1
    BY <1>1, PDAssumption DEF TypeInv
  <2> QED BY <1>1, <1>2, <2>1, PDAssumption DEF ControlInv, Shrinking, TypeInv
<1>7. FileInv' /\ Survives'
  BY <1>1, <1>2, <1>4 DEF FileInv, Survives
<1>8. Now' = Now
  BY <1>1 DEF Now
<1>9. ExplainInv'
  <2>1. snap <= Len(log) /\ Outcome(Explanation) = Now
    BY <1>1 DEF ExplainInv
  <2>2. snap' <= Len(log') /\ Explanation' = Explanation
    <3>1. CASE UNCHANGED <<log, mBuffer>>
      BY <1>1, <2>1, <3>1 DEF Explanation
    <3>2. CASE FlushNow
      BY <1>1, <1>5, <2>1, <3>2, FlushExplains
    <3> QED BY <1>3, <3>1, <3>2
  <2> QED BY <1>8, <2>1, <2>2 DEF ExplainInv
<1>10. AgreeInv' /\ ReadInv'
  BY <1>1, <1>3, <1>8, LogKept
<1> QED BY <1>5, <1>6, <1>7, <1>9, <1>10

(* The operation on the dictionary: the log had it already.                *)
LEMMA ApplyIInv == IInv /\ Apply => IInv'
<1> SUFFICES ASSUME IInv, Apply PROVE IInv'
  OBVIOUS
<1> USE DEF IInv
<1>1. /\ pc = "apply" /\ pc' = "idle" /\ op # NoOp /\ op' = NoOp /\ log # NoFile
      /\ mDictionary' = Perform(mDictionary, op)
      /\ UNCHANGED <<client, AutoFlush, after, mVersion, mBuffer, log, temp, missed, snap, before, doubt, unrenamed>>
  BY DEF Apply, ControlInv, FileInv, Shrinking, setup, ghosts
<1>2. Now' = Now /\ mDictionary' \in Dictionaries
  BY <1>1, NowIs DEF Now
<1>3. TypeInv'
  BY <1>1, <1>2 DEF TypeInv
<1>4. ControlInv' /\ FileInv' /\ Survives'
  BY <1>1 DEF ControlInv, FileInv, Survives, Shrinking
<1>5. ExplainInv'
  <2>1. Explanation' = Explanation
    BY <1>1 DEF Explanation
  <2> QED BY <1>1, <1>2, <2>1 DEF ExplainInv
<1>6. AgreeInv' /\ ReadInv'
  BY <1>1, <1>2, LogKept
<1> QED BY <1>3, <1>4, <1>5, <1>6

LEMMA FlushIInv == IInv /\ Flush => IInv'
<1> SUFFICES ASSUME IInv, Flush PROVE IInv'
  OBVIOUS
<1> USE DEF IInv
<1>1. /\ pc = "idle" /\ log # NoFile /\ FlushNow
      /\ UNCHANGED <<client, AutoFlush, pc, after, op, mDictionary, mVersion, temp, missed, snap, before, doubt, unrenamed>>
  BY DEF Flush, FileInv, setup, ghosts
<1>2. log' \in Seq(Logged) /\ log' # NoFile /\ mBuffer' = <<>> /\ mBuffer' \in Seq(Record)
  BY <1>1, FlushTypes
<1>3. TypeInv'
  BY <1>1, <1>2 DEF TypeInv
<1>4. ControlInv' /\ FileInv' /\ Survives'
  BY <1>1, <1>2 DEF ControlInv, FileInv, Survives, Shrinking
<1>5. Now' = Now
  BY <1>1 DEF Now
<1>6. ExplainInv'
  <2>1. snap <= Len(log) /\ Outcome(Explanation) = Now
    BY <1>1 DEF ExplainInv
  <2>2. snap' <= Len(log') /\ Explanation' = Explanation
    BY <1>1, <1>3, <2>1, FlushExplains
  <2> QED BY <1>5, <2>1, <2>2 DEF ExplainInv
<1>7. AgreeInv' /\ ReadInv'
  BY <1>1, <1>5, LogKept
<1> QED BY <1>3, <1>4, <1>6, <1>7

LEMMA ShrinkCalledIInv == IInv /\ ShrinkCalled => IInv'
<1> SUFFICES ASSUME IInv, ShrinkCalled PROVE IInv'
  OBVIOUS
<1> USE DEF IInv
<1>1. /\ pc = "idle" /\ pc' = "deleteTemp" /\ after' \in {"idle", "closed"} /\ op = NoOp /\ log # NoFile
      /\ UNCHANGED <<client, AutoFlush, op, mDictionary, mVersion, mBuffer, log, temp, missed, snap, before, doubt, unrenamed>>
  BY DEF ShrinkCalled, Shrink, ControlInv, FileInv, Shrinking, setup, memory, ghosts
<1>2. TypeInv'
  BY <1>1 DEF TypeInv, Shrinking
<1>3. ControlInv' /\ FileInv' /\ ExplainInv' /\ Survives'
  BY <1>1 DEF ControlInv, FileInv, ExplainInv, Survives, Shrinking
<1>4. Now' = Now
  BY <1>1 DEF Now
<1>5. AgreeInv' /\ ReadInv'
  BY <1>1, <1>4, LogKept
<1> QED BY <1>2, <1>3, <1>5
-----------------------------------------------------------------------------
(* ShrinkWriteAheadLog.                                                    *)
LEMMA DeleteTempIInv == IInv /\ DeleteTemp => IInv'
<1> SUFFICES ASSUME IInv, DeleteTemp PROVE IInv'
  OBVIOUS
<1> USE DEF IInv
<1>1. /\ pc = "deleteTemp" /\ pc' = "writeTemp" /\ temp' = NoFile
      /\ UNCHANGED <<client, AutoFlush, after, op, mDictionary, mVersion, mBuffer, log, missed, snap, before, doubt, unrenamed>>
  BY DEF DeleteTemp, setup, memory, ghosts
<1>2. TypeInv'
  BY <1>1 DEF TypeInv, Shrinking
<1>3. ControlInv' /\ FileInv' /\ ExplainInv' /\ Survives'
  BY <1>1 DEF ControlInv, FileInv, ExplainInv, Survives, Shrinking
<1>4. Now' = Now
  BY <1>1 DEF Now
<1>5. AgreeInv' /\ ReadInv'
  BY <1>1, <1>4, LogKept
<1> QED BY <1>2, <1>3, <1>5

LEMMA WriteTempIInv == IInv /\ WriteTemp => IInv'
<1> SUFFICES ASSUME IInv, WriteTemp PROVE IInv'
  OBVIOUS
<1> USE DEF IInv
<1>1. /\ pc = "writeTemp" /\ pc' = "closeLog" /\ temp' \in Snapshots(mDictionary)
      /\ UNCHANGED <<client, AutoFlush, after, op, mDictionary, mVersion, mBuffer, log, missed, snap, before, doubt, unrenamed>>
  BY DEF WriteTemp, setup, memory, ghosts
<1>2. temp' \in Seq(Logged)
  BY <1>1, SnapshotReplays DEF TypeInv
<1>3. TypeInv'
  BY <1>1, <1>2 DEF TypeInv, Shrinking
<1>4. ControlInv' /\ FileInv' /\ ExplainInv' /\ Survives'
  BY <1>1 DEF ControlInv, FileInv, ExplainInv, Survives, Shrinking
<1>5. Now' = Now
  BY <1>1 DEF Now
<1>6. AgreeInv' /\ ReadInv'
  BY <1>1, <1>5, LogKept
<1> QED BY <1>3, <1>4, <1>6

(* The writer is disposed of, and what it held back goes to the old log.   *)
LEMMA CloseLogIInv == IInv /\ CloseLog => IInv'
<1> SUFFICES ASSUME IInv, CloseLog PROVE IInv'
  OBVIOUS
<1> USE DEF IInv
<1>1. /\ pc = "closeLog" /\ pc' = "deleteLog" /\ mBuffer' = <<>>
      /\ UNCHANGED <<client, AutoFlush, after, op, mDictionary, mVersion, temp, missed, snap, before, doubt, unrenamed>>
  BY DEF CloseLog, setup, ghosts
<1>2. UNCHANGED <<log, mBuffer>> \/ (log # NoFile /\ FlushNow)
  BY DEF CloseLog, FlushNow, FileInv
<1>3. /\ log' \in Seq(Logged) \union {NoFile} /\ (log' = NoFile <=> log = NoFile)
      /\ mBuffer' \in Seq(Record)
  BY <1>1, <1>2, FlushTypes, EmptySeq DEF TypeInv
<1>4. TypeInv'
  BY <1>1, <1>3 DEF TypeInv, Shrinking
<1>5. ControlInv' /\ FileInv' /\ ExplainInv' /\ Survives'
  BY <1>1, <1>3 DEF ControlInv, FileInv, ExplainInv, Survives, Shrinking
<1>6. Now' = Now
  BY <1>1 DEF Now
<1>7. AgreeInv' /\ ReadInv'
  BY <1>1, <1>2, <1>6, LogKept
<1> QED BY <1>4, <1>5, <1>7

LEMMA DeleteLogIInv == IInv /\ DeleteLog => IInv'
<1> SUFFICES ASSUME IInv, DeleteLog PROVE IInv'
  OBVIOUS
<1> USE DEF IInv
<1>1. /\ pc = "deleteLog" /\ pc' = "move" /\ log' = NoFile
      /\ UNCHANGED <<client, AutoFlush, after, op, mDictionary, mVersion, mBuffer, temp, missed, snap, before, doubt, unrenamed>>
  BY DEF DeleteLog, setup, memory, ghosts
<1>2. mBuffer = <<>>
  BY <1>1 DEF ControlInv
<1>3. TypeInv'
  BY <1>1 DEF TypeInv, Shrinking
<1>4. ControlInv' /\ FileInv'
  BY <1>1, <1>2 DEF ControlInv, FileInv, Shrinking
<1>5. ExplainInv' /\ AgreeInv' /\ ReadInv' /\ Survives'
  BY <1>1 DEF ExplainInv, AgreeInv, ReadInv, Survives
<1> QED BY <1>3, <1>4, <1>5

(* The snapshot becomes the log; an operation in progress, which the old   *)
(* log had, is missed from here on.                                        *)
LEMMA MoveIInv == IInv /\ Move => IInv'
<1> SUFFICES ASSUME IInv, Move PROVE IInv'
  OBVIOUS
<1> USE DEF IInv
<1>1. /\ pc = "move" /\ pc' = "openLog" /\ log' = temp /\ temp' = NoFile
      /\ mBuffer = <<>> /\ temp \in Snapshots(mDictionary) /\ missed' = op /\ snap' = Len(temp)
      /\ UNCHANGED <<client, AutoFlush, after, op, mDictionary, mVersion, mBuffer, before, doubt, unrenamed>>
  BY DEF Move, ControlInv, FileInv, Shrinking, setup, memory
<1>2. temp \in Seq(Logged) /\ temp # NoFile /\ Replay(temp) = mDictionary /\ Outcome(temp) = mDictionary
  BY <1>1, SnapshotReplays, RecordSets DEF TypeInv
<1>3. log' \o mBuffer' = temp
  BY <1>1, <1>2, ConcatEmptySeq
<1>4. TypeInv'
  BY <1>1, <1>2, LenProperties DEF TypeInv, Shrinking
<1>5. ControlInv' /\ FileInv' /\ ExplainInv' /\ Survives'
  BY <1>1, <1>2 DEF ControlInv, FileInv, ExplainInv, Survives, Shrinking
<1>6. Now' = Now
  BY <1>1 DEF Now
<1>7. AgreeInv'
  BY <1>1, <1>2, <1>3, <1>6, NowIs DEF AgreeInv
<1>8. ReadInv'
  <2>1. ASSUME op.act # "R", NEW k \in Keys, mDictionary[k] # Nothing PROVE Now[k] # Nothing
    <3>1. CASE op = NoOp
      BY <2>1, <3>1, NowIs
    <3>2. CASE op # NoOp
      BY <2>1, <3>2, NowIs, PerformKeeps, Sequences DEF TypeInv
    <3> QED BY <3>1, <3>2
  <2>2. mDictionary # Broken
    BY Dictionary DEF TypeInv
  <2> QED BY <1>1, <1>2, <1>3, <1>6, <2>1, <2>2 DEF ReadInv
<1> QED BY <1>4, <1>5, <1>7, <1>8

(* The log is the snapshot, and explains the dictionary with what the      *)
(* shrinking dropped; after Dispose it is all there is to open again.      *)
LEMMA OpenLogIInv == IInv /\ OpenLog => IInv'
<1> SUFFICES ASSUME IInv, OpenLog PROVE IInv'
  OBVIOUS
<1> USE DEF IInv
<1>1. /\ pc = "openLog" /\ pc' = after /\ log # NoFile /\ mBuffer = <<>>
      /\ log \in Snapshots(mDictionary) /\ snap = Len(log) /\ missed = op
      /\ op # NoOp <=> after = "apply"
      /\ UNCHANGED <<client, AutoFlush, after, op, mDictionary, mBuffer, log, temp, missed, snap>>
  BY DEF OpenLog, ControlInv, FileInv, Shrinking, setup
<1>2. after \in {"idle", "closed", "apply"} /\ mDictionary \in Dictionaries
  BY DEF TypeInv
<1>3. log \in Seq(Logged) /\ Replay(log) = mDictionary /\ Outcome(log) = mDictionary
  BY <1>1, <1>2, SnapshotReplays
<1>4. TypeInv'
  <2>1. mVersion' \in Nat /\ before' \in Dictionaries /\ doubt' \in SUBSET Keys /\ unrenamed' \in BOOLEAN
    BY <1>2 DEF OpenLog, TypeInv
  <2>2. log' \in Seq(Logged) \union {NoFile} /\ temp' \in Seq(Logged) \union {NoFile} /\ mBuffer' \in Seq(Record)
    BY <1>1 DEF TypeInv
  <2>3. pc' \in {"closed", "idle", "flush", "apply"} \union Shrinking
    BY <1>1, <1>2
  <2> QED BY <1>1, <1>2, <2>1, <2>2, <2>3 DEF TypeInv
<1>5. ControlInv'
  <2>1. mVersion' <= Interval
    <3>1. CASE after = "apply"
      BY <3>1, PDAssumption DEF OpenLog
    <3>2. CASE after # "apply"
      BY <3>2 DEF OpenLog, ControlInv
    <3> QED BY <3>1, <3>2
  <2>2. op' # NoOp <=> pc' \in {"flush", "apply"} \/ (pc' \in Shrinking /\ after' = "apply")
    BY <1>1, <1>2 DEF Shrinking
  <2>3. pc' \notin Shrinking
    BY <1>1, <1>2 DEF Shrinking
  <2> QED BY <1>1, <2>1, <2>2, <2>3 DEF ControlInv
<1>6. FileInv'
  BY <1>1, <1>2 DEF FileInv
<1>7. Now' = Now
  BY <1>1 DEF Now
<1>8. ExplainInv'
  <2>1. Explanation = log \o Dropped /\ Dropped \in Seq(Logged)
    <3>1. Len(log) \in Nat
      BY <1>3, LenProperties
    <3>2. SubSeq(log, 1, snap) = log
      BY <1>1, <1>3, SubSeqFull
    <3>3. SubSeq(log, snap + 1, Len(log)) = <<>>
      BY <1>1, <3>1, SubSeqEmpty
    <3>4. Dropped \in Seq(Logged) /\ snap <= Len(log)
      BY <1>1, <3>1, ExplanationIs
    <3>5. Explanation = ((log \o Dropped) \o <<>>) \o <<>>
      BY <1>1, <3>2, <3>3 DEF Explanation, Dropped
    <3>6. log \o Dropped \in Seq(Logged)
      BY <1>3, <3>4, ConcatProperties
    <3> QED BY <3>4, <3>5, <3>6, ConcatEmptySeq
  <2>2. Outcome(Explanation) = Now
    <3>1. CASE op = NoOp
      BY <1>1, <1>3, <2>1, <3>1, NowIs, ConcatEmptySeq DEF Dropped
    <3>2. CASE op # NoOp
      <4>1. log \o <<op>> = Append(log, op) /\ op \in Logged
        BY <1>3, <3>2, Sequences
      <4>2. Outcome(Append(log, op)) = Perform(mDictionary, op)
        BY <1>3, <4>1, OneMore
      <4> QED BY <1>1, <2>1, <3>2, <4>1, <4>2, NowIs DEF Dropped
    <3> QED BY <3>1, <3>2
  <2>3. snap' <= Len(log') /\ Explanation' = Explanation
    BY <1>1, <1>3, LenProperties DEF Explanation
  <2> QED BY <1>7, <2>2, <2>3 DEF ExplainInv
<1>9. AgreeInv' /\ ReadInv'
  BY <1>1, <1>7, LogKept
<1>10. Survives'
  <2>1. SUFFICES ASSUME after = "closed" PROVE Survives'
    BY <1>1 DEF Survives
  <2>2. before' = mDictionary
    BY <2>1 DEF OpenLog
  <2>3. mDictionary # Broken
    BY <1>2, Dictionary
  <2> QED BY <1>1, <1>3, <2>2, <2>3 DEF Survives, Recovered
<1> QED BY <1>4, <1>5, <1>6, <1>8, <1>9, <1>10
-----------------------------------------------------------------------------
(* The process is killed.                                                  *)

(* What a record in progress or in the buffer is about is in doubt.        *)
LEMMA Doubted ==
  ASSUME TypeInv, NEW k \in Keys, k \notin KeysOf(mBuffer)
  PROVE  /\ Spares(mBuffer, k)
         /\ op # NoOp => k # op.key
         /\ missed # NoOp => k # missed.key
<1>1. mBuffer \in Seq(Whole)
  BY Sequences
<1>2. \A q \in Range(mBuffer) \union {op, missed} : q \in {NoOp, Cut} \/ k # q.key
  BY DEF KeysOf
<1>3. ASSUME NEW i \in 1 .. Len(mBuffer) PROVE mBuffer[i] = Cut \/ k # mBuffer[i].key
  <2>1. mBuffer[i] \in Whole /\ mBuffer[i] \in Range(mBuffer)
    BY <1>1 DEF Range
  <2> QED BY <1>2, <2>1, RecordSets DEF Whole
<1>4. op # NoOp => op # Cut
  BY Sequences
<1>5. missed # NoOp => missed # Cut
  BY Sequences, RecordSets
<1> QED BY <1>2, <1>3, <1>4, <1>5 DEF Spares

(* The log after a crash: it can still be replayed if it could be with all *)
(* that was handed to the writer, and only what is in doubt has changed.   *)
LEMMA CrashedLog ==
  ASSUME IInv, Crash, log # NoFile
  PROVE  /\ log' \in Seq(Logged) /\ log' # NoFile
         /\ Replay(log \o mBuffer) # Broken => Replay(log') # Broken
         /\ \A k \in Keys \ KeysOf(mBuffer) : Outcome(log')[k] = mDictionary[k]
<1> USE DEF IInv
<1>1. pc # "closed" /\ log \in Seq(Logged) /\ mBuffer \in Seq(Whole) /\ mBuffer \in Seq(Logged)
      /\ log \o <<>> = log
  BY Sequences DEF Crash
<1>2. \E w \in Seq(Logged) : /\ log' = log \o w
                             /\ Replay(log \o mBuffer) # Broken => Replay(log \o w) # Broken
                             /\ \A k \in Keys : Spares(mBuffer, k) => Spares(w, k)
  <2>1. CASE mBuffer = <<>>
    BY <1>1, <2>1 DEF Crash
  <2>2. CASE mBuffer # <<>>
    <3>1. PICK w \in Written(mBuffer) : log' = log \o w
      BY <2>2 DEF Crash
    <3> QED BY <1>1, <3>1, WrittenRecords, WrittenReplays
  <2> QED BY <2>1, <2>2
<1>3. PICK w \in Seq(Logged) : /\ log' = log \o w
                               /\ Replay(log \o mBuffer) # Broken => Replay(log \o w) # Broken
                               /\ \A k \in Keys : Spares(mBuffer, k) => Spares(w, k)
  BY <1>2
<1>4. log' \in Seq(Logged) /\ log' # NoFile
  BY <1>1, <1>3, ConcatProperties, RecordSets
<1>5. ASSUME NEW k \in Keys \ KeysOf(mBuffer) PROVE Outcome(log')[k] = mDictionary[k]
  <2>1. Spares(mBuffer, k) /\ Spares(w, k) /\ (op # NoOp => k # op.key) /\ (missed # NoOp => k # missed.key)
    BY <1>3, Doubted
  <2>2. Outcome(log \o w)[k] = Outcome(log)[k] /\ Outcome(log \o mBuffer)[k] = Outcome(log)[k]
    BY <1>1, <2>1, Untouched
  <2>3. Outcome(log \o mBuffer)[k] = Now[k]
    BY <1>1, <2>1 DEF AgreeInv
  <2>4. Now[k] = mDictionary[k]
    BY <2>1, NowIs
  <2> QED BY <1>3, <2>2, <2>3, <2>4
<1> QED BY <1>3, <1>4, <1>5

LEMMA CrashIInv == IInv /\ Crash => IInv'
<1> SUFFICES ASSUME IInv, Crash PROVE IInv'
  OBVIOUS
<1> USE DEF IInv
<1>1. /\ pc # "closed" /\ pc' = "closed" /\ op' = NoOp /\ mBuffer' = <<>>
      /\ mDictionary' = Empty /\ mVersion' = 0
      /\ before' = mDictionary /\ doubt' = KeysOf(mBuffer)
      /\ UNCHANGED <<client, AutoFlush, after, missed, snap>>
  BY DEF Crash
<1>2. log = NoFile => log' = NoFile
  BY DEF Crash, FileInv
<1>3. log # NoFile => log' \in Seq(Logged) /\ log' # NoFile
  BY CrashedLog
<1>4. temp' \in Seq(Logged) \union {NoFile}
  <2>1. CASE pc = "writeTemp" /\ temp' # NoFile
    <3>1. PICK s \in Snapshots(mDictionary) : temp' \in Written(s)
      BY <2>1 DEF Crash
    <3>2. s \in Seq(Whole)
      BY SnapshotRecords DEF TypeInv
    <3> QED BY <3>1, <3>2, WrittenRecords
  <2>2. CASE pc # "writeTemp"
    BY <2>2 DEF Crash, TypeInv
  <2> QED BY <2>1, <2>2
<1>5. KeysOf(mBuffer) \in SUBSET Keys
  <2>1. ASSUME NEW q \in Range(mBuffer) \union {op, missed}, q \notin {NoOp, Cut} PROVE q.key \in Keys
    <3>1. CASE q \in Range(mBuffer)
      <4>1. q \in Whole
        BY <3>1, Sequences, LenProperties DEF Range
      <4> QED BY <4>1, Records
    <3>2. CASE q \in {op, missed}
      BY <2>1, <3>2, Sequences
    <3> QED BY <3>1, <3>2
  <2> QED BY <2>1 DEF KeysOf
<1>6. TypeInv'
  <2>1. mBuffer' \in Seq(Record)
    BY <1>1, EmptySeq
  <2>2. unrenamed' \in BOOLEAN
    BY DEF Crash
  <2>3. before' \in Dictionaries /\ mDictionary' \in Dictionaries /\ doubt' \in SUBSET Keys
    BY <1>1, <1>5, Dictionary DEF TypeInv
  <2>4. log' \in Seq(Logged) \union {NoFile}
    BY <1>2, <1>3
  <2>5. op' \in Record \union {NoOp} /\ mVersion' \in Nat /\ snap' \in Nat /\ missed' \in Record \union {NoOp}
    BY <1>1 DEF TypeInv
  <2>6. /\ client' \in {"benchmark", "console"} /\ AutoFlush' \in BOOLEAN
        /\ pc' \in {"closed", "idle", "flush", "apply"} \union Shrinking
        /\ after' \in {"idle", "closed", "apply"}
    BY <1>1 DEF TypeInv
  <2> QED BY <1>4, <2>1, <2>2, <2>3, <2>4, <2>5, <2>6 DEF TypeInv
<1>7. ControlInv' /\ FileInv' /\ ExplainInv' /\ AgreeInv'
  BY <1>1, <1>2, PDAssumption DEF ControlInv, FileInv, ExplainInv, AgreeInv, Shrinking
<1>8. ReadInv'
  <2>1. SUFFICES ASSUME client = "benchmark", missed.act # "R", log' # NoFile
                 PROVE  Replay(log' \o mBuffer') # Broken
    BY <1>1 DEF ReadInv
  <2>2. log # NoFile
    BY <1>2, <2>1
  <2>3. log' \o mBuffer' = log'
    BY <1>1, <1>3, <2>2, ConcatEmptySeq
  <2>4. Replay(log \o mBuffer) # Broken
    BY <2>1, <2>2 DEF ReadInv
  <2> QED BY <2>2, <2>3, <2>4, CrashedLog
<1>9. Survives'
  <2>1. SUFFICES ASSUME pc # "move", ~Unreadable'
                 PROVE  Recovered' # Broken /\ \A k \in Keys \ KeysOf(mBuffer) : Recovered'[k] = mDictionary[k]
    BY <1>1 DEF Survives, Crash
  <2>2. CASE log # NoFile
    <3>1. Recovered' = Replay(log')
      BY <1>3, <2>2 DEF Recovered
    <3>2. Replay(log') # Broken
      <4>1. client' = "benchmark" /\ missed'.act # "R" => Replay(log') # Broken
        <5>1. log' \o mBuffer' = log'
          BY <1>1, <1>3, <2>2, ConcatEmptySeq
        <5> QED BY <1>3, <1>8, <2>2, <5>1 DEF ReadInv
      <4>2. client' \in {"benchmark", "console"}
        BY <1>6 DEF TypeInv
      <4> QED BY <2>1, <3>1, <4>1, <4>2 DEF Unreadable
    <3>3. Replay(log') = Outcome(log')
      BY <1>3, <2>2, <3>2, Outcomes
    <3> QED BY <2>2, <3>1, <3>2, <3>3, CrashedLog
  <2>3. CASE log = NoFile
    <3>1. mDictionary = Empty
      BY <1>1, <2>1, <2>3 DEF FileInv
    <3>2. Recovered' = Empty
      BY <1>2, <2>3 DEF Recovered
    <3> QED BY <3>1, <3>2, Dictionary DEF TypeInv
  <2> QED BY <2>2, <2>3
<1> QED BY <1>6, <1>7, <1>8, <1>9
-----------------------------------------------------------------------------
(* Every step keeps the invariant.                                         *)
THEOREM Inductive == Spec => []IInv
<1>1. IInv /\ [Next]_vars => IInv'
  <2> SUFFICES ASSUME IInv, [Next]_vars PROVE IInv'
    OBVIOUS
  <2>1. CASE Step
    BY <2>1, OpenIInv, AppendIInv, ApplyIInv, DeleteTempIInv, WriteTempIInv, CloseLogIInv,
       DeleteLogIInv, MoveIInv, OpenLogIInv DEF Step
  <2>2. CASE Flush \/ ShrinkCalled \/ Crash
    BY <2>2, FlushIInv, ShrinkCalledIInv, CrashIInv
  <2>3. ASSUME NEW r \in Record, Call(r) PROVE IInv'
    BY <2>3, CallIInv
  <2>4. CASE UNCHANGED vars
    <3>1. /\ UNCHANGED <<client, AutoFlush, pc, after, op, mDictionary, mVersion, mBuffer, log, temp>>
          /\ UNCHANGED <<missed, snap, before, doubt, unrenamed>>
      BY <2>4 DEF vars, setup, memory, ghosts
    <3> QED BY <3>1 DEF IInv, TypeInv, ControlInv, FileInv, ExplainInv, AgreeInv, ReadInv,
                        Survives, Recovered, Unreadable, Explanation, Now
  <2> QED BY <2>1, <2>2, <2>3, <2>4 DEF Next
<1> QED BY <1>1, InitIInv, PTL DEF Spec

(* The state keeps its types, and mVersion never goes past the interval by *)
(* more than the operation that shrinks the log.                           *)
THEOREM PersistentDictionaryTypeOK == Spec => []TypeOK
<1>1. IInv => TypeOK
  BY PDAssumption DEF IInv, TypeInv, ControlInv, TypeOK
<1> QED BY <1>1, Inductive, PTL

(* While the dictionary is open, replaying the log, what the writer holds  *)
(* back and the record that a shrinking dropped gives the dictionary.      *)
THEOREM PersistentDictionaryLogExplains == Spec => []LogExplains
<1>1. IInv => LogExplains
  BY DEF IInv, ExplainInv, LogExplains, Outcome, Now
<1> QED BY <1>1, Inductive, PTL

(* Whenever the process is killed the log can be replayed, for a client    *)
(* that adds only what is absent, unless a shrinking dropped a removal.    *)
THEOREM PersistentDictionaryOpenable == Spec => []Openable
<1>1. ASSUME IInv PROVE Openable
  <2>1. SUFFICES ASSUME client = "benchmark", missed.act # "R", log # NoFile PROVE Replay(log) # Broken
    BY DEF Openable
  <2>2. log \in Seq(Logged) /\ mBuffer \in Seq(Logged) /\ Replay(log \o mBuffer) # Broken
    BY <1>1, <2>1, Sequences DEF IInv, ReadInv
  <2> QED BY <2>2, ReplayOfPrefix
<1> QED BY <1>1, Inductive, PTL

(* What a dictionary had when it was closed, or its process killed, is     *)
(* what the next start reads from the log, except for the keys the crash   *)
(* put in doubt, and in the two cases that Survives names.                 *)
THEOREM PersistentDictionarySurvives == Spec => []Survives
<1>1. IInv => Survives
  BY DEF IInv
<1> QED BY <1>1, Inductive, PTL
=============================================================================
