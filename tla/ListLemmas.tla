----------------------------- MODULE ListLemmas -----------------------------
(***************************************************************************)
(* Facts about lists of rules and of commands that are left to run: a      *)
(* "delete" command takes the first match out of a list, and a thread runs *)
(* the command at the head of what it has left.                            *)
(***************************************************************************)
EXTENDS SequencesExt, SequenceTheorems, WellFoundedInduction, TLAPS

\* What is in a list, by position.
LEMMA InList ==
    ASSUME NEW S, NEW s \in Seq(S), NEW e
    PROVE  e \in ToSet(s) <=> \E i \in 1 .. Len(s) : s[i] = e
BY DEF ToSet

\* One that holds nothing is empty.
LEMMA EmptyList ==
    ASSUME NEW S, NEW s \in Seq(S)
    PROVE  ToSet(s) = {} <=> s = <<>>
BY EmptySeq, LenProperties DEF ToSet

\* The command at the head is run, the others are left.
LEMMA HeadAndTail ==
    ASSUME NEW S, NEW s \in Seq(S), s # <<>>
    PROVE  /\ Head(s) \in S /\ Tail(s) \in Seq(S)
           /\ Len(Tail(s)) = Len(s) - 1
           /\ ToSet(s) = {Head(s)} \cup ToSet(Tail(s))
<1>1. /\ Len(s) \in Nat /\ Len(s) # 0
      /\ Head(s) = s[1] /\ Head(s) \in S
      /\ Tail(s) \in Seq(S) /\ Len(Tail(s)) = Len(s) - 1
      /\ \A i \in 1 .. Len(s) - 1 : Tail(s)[i] = s[i + 1]
  BY HeadTailProperties, LenProperties, EmptySeq
<1>2. ASSUME NEW e PROVE e \in ToSet(s) <=> e = Head(s) \/ e \in ToSet(Tail(s))
  <2>1. e \in ToSet(s) <=> \E i \in 1 .. Len(s) : s[i] = e
    BY InList
  <2>2. e \in ToSet(Tail(s)) <=> \E i \in 1 .. Len(s) - 1 : Tail(s)[i] = e
    <3>1. Tail(s) \in Seq(S) /\ Len(Tail(s)) = Len(s) - 1
      BY <1>1
    <3>2. e \in ToSet(Tail(s)) <=> \E i \in 1 .. Len(Tail(s)) : Tail(s)[i] = e
      BY ONLY <3>1, InList
    <3>q. QED
      BY <3>1, <3>2
  <2>3. ASSUME NEW i \in 1 .. Len(s), s[i] = e, e # Head(s) PROVE e \in ToSet(Tail(s))
    <3>1. i - 1 \in 1 .. Len(s) - 1 /\ (i - 1) + 1 = i
      BY <1>1, <2>3
    <3>2. Tail(s)[i - 1] = s[i]
      BY <1>1, <3>1
    <3>q. QED
      BY <2>2, <2>3, <3>1, <3>2
  <2>4. ASSUME NEW i \in 1 .. Len(s) - 1, Tail(s)[i] = e PROVE e \in ToSet(s)
    <3>1. i + 1 \in 1 .. Len(s) /\ s[i + 1] = e
      BY <1>1, <2>4
    <3>q. QED
      BY <2>1, <3>1
  <2>5. 1 \in 1 .. Len(s)
    BY <1>1
  <2>6. e = Head(s) => e \in ToSet(s)
    BY <1>1, <2>1, <2>5
  <2>q. QED
    BY <2>1, <2>2, <2>3, <2>4, <2>6
<1>q. QED
  BY <1>1, <1>2

\* In a list without repetitions the command that is run is not left as well.
LEMMA TailIsInjective ==
    ASSUME NEW S, NEW s \in Seq(S), s # <<>>, IsInjective(s)
    PROVE  IsInjective(Tail(s)) /\ Head(s) \notin ToSet(Tail(s))
<1>1. /\ Len(s) \in Nat /\ Len(s) # 0 /\ DOMAIN s = 1 .. Len(s)
      /\ Head(s) = s[1]
      /\ Tail(s) \in Seq(S) /\ Len(Tail(s)) = Len(s) - 1
      /\ DOMAIN Tail(s) = 1 .. Len(s) - 1
      /\ \A i \in 1 .. Len(s) - 1 : Tail(s)[i] = s[i + 1]
  BY HeadTailProperties, LenProperties, EmptySeq
<1>2. \A i, j \in 1 .. Len(s) : s[i] = s[j] => i = j
  BY <1>1 DEF IsInjective
<1>3. ASSUME NEW i \in 1 .. Len(s) - 1, NEW j \in 1 .. Len(s) - 1, Tail(s)[i] = Tail(s)[j]
      PROVE  i = j
  <2>1. i + 1 \in 1 .. Len(s) /\ j + 1 \in 1 .. Len(s) /\ s[i + 1] = s[j + 1]
    BY <1>1, <1>3
  <2>2. i + 1 = j + 1
    BY <1>2, <2>1
  <2>q. QED
    BY <2>2
<1>4. ASSUME NEW i \in 1 .. Len(s) - 1 PROVE Tail(s)[i] # Head(s)
  <2>1. i + 1 \in 1 .. Len(s) /\ 1 \in 1 .. Len(s) /\ i + 1 # 1
    BY <1>1
  <2>q. QED
    BY <1>1, <1>2, <2>1
<1>5. Head(s) \notin ToSet(Tail(s))
  BY <1>1, <1>4 DEF ToSet
<1>6. IsInjective(Tail(s))
  BY <1>1, <1>3 DEF IsInjective
<1>q. QED
  BY <1>5, <1>6

-----------------------------------------------------------------------------
LEMMA RemoveAtProperties ==
    ASSUME NEW S, NEW s \in Seq(S), NEW i \in 1 .. Len(s)
    PROVE  /\ RemoveAt(s, i) \in Seq(S)
           /\ Len(RemoveAt(s, i)) = Len(s) - 1
           /\ \A j \in 1 .. Len(s) - 1 :
                  RemoveAt(s, i)[j] = IF j < i THEN s[j] ELSE s[j + 1]
<1> DEFINE front == SubSeq(s, 1, i - 1)
           back  == SubSeq(s, i + 1, Len(s))
<1>1. Len(s) \in Nat /\ \A j \in 1 .. Len(s) : s[j] \in S
  BY LenProperties
<1>2. /\ front \in Seq(S) /\ Len(front) = i - 1
      /\ \A j \in 1 .. i - 1 : front[j] = s[j]
  <2>1. 1 \in Int /\ i - 1 \in Int /\ \A j \in 1 .. i - 1 : s[j] \in S
    BY <1>1
  <2>q. QED
    BY <1>1, <2>1, SubSeqProperties
<1>3. /\ back \in Seq(S) /\ Len(back) = Len(s) - i
      /\ \A j \in 1 .. Len(s) - i : back[j] = s[i + j]
  <2>1. i + 1 \in Int /\ Len(s) \in Int /\ \A j \in i + 1 .. Len(s) : s[j] \in S
    BY <1>1
  <2>q. QED
    BY <1>1, <2>1, SubSeqProperties
<1>4. RemoveAt(s, i) = front \o back
  BY DEF RemoveAt
<1> HIDE DEF front, back
<1>5. /\ front \o back \in Seq(S) /\ Len(front \o back) = Len(s) - 1
      /\ \A j \in 1 .. Len(s) - 1 :
             (front \o back)[j] = IF j <= i - 1 THEN front[j] ELSE back[j - (i - 1)]
  BY <1>1, <1>2, <1>3, ConcatProperties
<1>6. ASSUME NEW j \in 1 .. Len(s) - 1
      PROVE  (front \o back)[j] = IF j < i THEN s[j] ELSE s[j + 1]
  <2>1. CASE j < i
    BY <1>1, <1>2, <1>5, <2>1
  <2>2. CASE ~(j < i)
    <3>1. j - (i - 1) \in 1 .. Len(s) - i /\ i + (j - (i - 1)) = j + 1 /\ ~(j <= i - 1)
      BY <1>1, <2>2
    <3>q. QED
      BY <1>3, <1>5, <2>2, <3>1
  <2>q. QED
    BY <2>1, <2>2
<1>q. QED
  BY <1>4, <1>5, <1>6

\* A command that deletes what is not there changes nothing.
LEMMA RemoveFirstAbsent ==
    ASSUME NEW S, NEW s \in Seq(S), NEW e, e \notin ToSet(s)
    PROVE  RemoveFirst(s, e) = s
BY InList DEF RemoveFirst

\* One that deletes what is there takes away one copy, and leaves the rest.
LEMMA RemoveFirstPresent ==
    ASSUME NEW S, NEW s \in Seq(S), NEW e, e \in ToSet(s)
    PROVE  \E i \in 1 .. Len(s) : s[i] = e /\ RemoveFirst(s, e) = RemoveAt(s, i)
<1> DEFINE hits == {i \in 1 .. Len(s) : s[i] = e}
<1>1. hits # {} /\ hits \in SUBSET Nat
  BY InList, LenProperties
<1>2. \E i \in hits : \A j \in hits : i <= j
  <2>1. \E i \in hits : \A j \in hits : ~(<<j, i>> \in OpToRel(<, Nat))
    BY <1>1, NatLessThanWellFounded, WFMin
  <2>2. PICK i \in hits : \A j \in hits : ~(<<j, i>> \in OpToRel(<, Nat))
    BY <2>1
  <2>3. ASSUME NEW j \in hits PROVE i <= j
    <3>1. j \in Nat /\ i \in Nat
      BY <1>1
    <3>2. ~(j < i)
      BY <2>2, <3>1 DEF OpToRel
    <3>q. QED
      BY <3>1, <3>2
  <2>q. QED
    BY <2>3
<1>3. Min(hits) \in hits
  BY <1>2 DEF Min
<1>4. RemoveFirst(s, e) = RemoveAt(s, Min(hits))
  BY <1>1 DEF RemoveFirst, SelectInSeq
<1>q. QED
  BY <1>3, <1>4

\* Both cases, for the length of a chain.
LEMMA RemoveFirstLength ==
    ASSUME NEW S, NEW s \in Seq(S), NEW e
    PROVE  /\ RemoveFirst(s, e) \in Seq(S)
           /\ Len(RemoveFirst(s, e)) = IF e \in ToSet(s) THEN Len(s) - 1 ELSE Len(s)
<1>1. CASE e \in ToSet(s)
  <2>1. PICK i \in 1 .. Len(s) : RemoveFirst(s, e) = RemoveAt(s, i)
    BY <1>1, RemoveFirstPresent
  <2>q. QED
    BY <1>1, <2>1, RemoveAtProperties
<1>2. CASE e \notin ToSet(s)
  BY <1>2, RemoveFirstAbsent
<1>q. QED
  BY <1>1, <1>2

\* No command adds anything, and only copies of e go.
LEMMA RemoveFirstContent ==
    ASSUME NEW S, NEW s \in Seq(S), NEW e
    PROVE  /\ ToSet(RemoveFirst(s, e)) \subseteq ToSet(s)
           /\ ToSet(s) \subseteq ToSet(RemoveFirst(s, e)) \cup {e}
<1>1. CASE e \in ToSet(s)
  <2>0. Len(s) \in Nat
    BY LenProperties
  <2>1. PICK i \in 1 .. Len(s) : s[i] = e /\ RemoveFirst(s, e) = RemoveAt(s, i)
    BY <1>1, RemoveFirstPresent
  <2> DEFINE t == RemoveFirst(s, e)
  <2>2. /\ t \in Seq(S) /\ Len(t) = Len(s) - 1
        /\ \A j \in 1 .. Len(s) - 1 : t[j] = IF j < i THEN s[j] ELSE s[j + 1]
    BY <2>1, RemoveAtProperties
  <2> HIDE DEF t
  <2>3. ASSUME NEW x, x \in ToSet(t) PROVE x \in ToSet(s)
    <3>1. PICK j \in 1 .. Len(s) - 1 : t[j] = x
      BY <2>2, <2>3, InList
    <3>2. x = s[j] \/ x = s[j + 1]
      BY <2>2, <3>1
    <3>3. j \in 1 .. Len(s) /\ j + 1 \in 1 .. Len(s)
      BY <2>0
    <3>q. QED
      BY <3>2, <3>3, InList
  <2>4. ASSUME NEW x, x \in ToSet(s), x # e PROVE x \in ToSet(t)
    <3>1. PICK j \in 1 .. Len(s) : s[j] = x
      BY <2>4, InList
    <3>2. CASE j < i
      <4>1. j \in 1 .. Len(s) - 1 /\ t[j] = x
        BY <2>0, <2>2, <3>1, <3>2
      <4>q. QED
        BY <2>2, <4>1, InList
    <3>3. CASE ~(j < i)
      <4>1. j # i
        BY <2>1, <2>4, <3>1
      <4>2. j - 1 \in 1 .. Len(s) - 1 /\ ~(j - 1 < i)
        BY <2>0, <3>3, <4>1
      <4>3. t[j - 1] = s[(j - 1) + 1]
        BY <2>2, <4>2
      <4>4. t[j - 1] = x
        BY <3>1, <4>3
      <4>q. QED
        BY <2>2, <4>2, <4>4, InList
    <3>q. QED
      BY <3>2, <3>3
  <2>q. QED
    BY <2>3, <2>4 DEF t
<1>2. CASE e \notin ToSet(s)
  BY <1>2, RemoveFirstAbsent
<1>q. QED
  BY <1>1, <1>2

\* In a list without copies, what is deleted is gone, and only that.
LEMMA RemoveFirstInjective ==
    ASSUME NEW S, NEW s \in Seq(S), NEW e, IsInjective(s)
    PROVE  /\ RemoveFirst(s, e) \in Seq(S) /\ IsInjective(RemoveFirst(s, e))
           /\ ToSet(RemoveFirst(s, e)) = ToSet(s) \ {e}
<1>1. CASE e \in ToSet(s)
  <2>0. Len(s) \in Nat /\ \A i, j \in 1 .. Len(s) : s[i] = s[j] => i = j
    BY LenProperties DEF IsInjective
  <2>1. PICK i \in 1 .. Len(s) : s[i] = e /\ RemoveFirst(s, e) = RemoveAt(s, i)
    BY <1>1, RemoveFirstPresent
  <2> DEFINE t == RemoveFirst(s, e)
  <2>2. /\ t \in Seq(S) /\ Len(t) = Len(s) - 1
        /\ \A j \in 1 .. Len(s) - 1 : t[j] = IF j < i THEN s[j] ELSE s[j + 1]
    BY <2>1, RemoveAtProperties
  <2> HIDE DEF t
  <2>3. ASSUME NEW j \in 1 .. Len(s) - 1, NEW k \in 1 .. Len(s) - 1, t[j] = t[k]
        PROVE  j = k
    <3>1. j \in 1 .. Len(s) /\ j + 1 \in 1 .. Len(s) /\ k \in 1 .. Len(s) /\ k + 1 \in 1 .. Len(s)
      BY <2>0
    <3>2. CASE j < i /\ k < i
      BY <2>0, <2>2, <2>3, <3>1, <3>2
    <3>3. CASE j < i /\ ~(k < i)
      <4>1. j = k + 1
        BY <2>0, <2>2, <2>3, <3>1, <3>3
      <4>q. QED
        BY <3>1, <3>3, <4>1
    <3>4. CASE ~(j < i) /\ k < i
      <4>1. k = j + 1
        BY <2>0, <2>2, <2>3, <3>1, <3>4
      <4>q. QED
        BY <3>1, <3>4, <4>1
    <3>5. CASE ~(j < i) /\ ~(k < i)
      <4>1. j + 1 = k + 1
        BY <2>0, <2>2, <2>3, <3>1, <3>5
      <4>q. QED
        BY <3>1, <4>1
    <3>q. QED
      BY <3>2, <3>3, <3>4, <3>5
  <2>4. IsInjective(t)
    BY <2>2, <2>3, LenProperties DEF IsInjective
  <2>5. e \notin ToSet(t)
    <3>1. SUFFICES ASSUME NEW j \in 1 .. Len(s) - 1, t[j] = e PROVE FALSE
      BY <2>2, InList
    <3>2. j \in 1 .. Len(s) /\ j + 1 \in 1 .. Len(s)
      BY <2>0
    <3>3. CASE j < i
      BY <2>0, <2>1, <2>2, <3>1, <3>2, <3>3
    <3>4. CASE ~(j < i)
      <4>1. j + 1 = i
        BY <2>0, <2>1, <2>2, <3>1, <3>2, <3>4
      <4>q. QED
        BY <3>2, <3>4, <4>1
    <3>q. QED
      BY <3>3, <3>4
  <2>6. ToSet(t) \subseteq ToSet(s) /\ ToSet(s) \subseteq ToSet(t) \cup {e}
    BY RemoveFirstContent DEF t
  <2>q. QED
    BY <2>2, <2>4, <2>5, <2>6 DEF t
<1>2. CASE e \notin ToSet(s)
  BY <1>2, RemoveFirstAbsent
<1>q. QED
  BY <1>1, <1>2

\* One more in front.
LEMMA InFront ==
    ASSUME NEW S, NEW s \in Seq(S), NEW e \in S
    PROVE  /\ <<e>> \o s \in Seq(S)
           /\ Len(<<e>> \o s) = Len(s) + 1
           /\ ToSet(<<e>> \o s) = {e} \cup ToSet(s)
           /\ IsInjective(s) /\ e \notin ToSet(s) => IsInjective(<<e>> \o s)
<1> DEFINE t == <<e>> \o s
<1>1. Len(s) \in Nat /\ <<e>> \in Seq(S) /\ Len(<<e>>) = 1 /\ <<e>>[1] = e
  BY LenProperties
<1>2. /\ t \in Seq(S) /\ Len(t) = Len(s) + 1
      /\ t[1] = e /\ \A i \in 2 .. Len(s) + 1 : t[i] = s[i - 1]
  BY <1>1, ConcatProperties
<1> HIDE DEF t
<1>3. ASSUME NEW x PROVE x \in ToSet(t) <=> x = e \/ x \in ToSet(s)
  <2>1. ASSUME x \in ToSet(t) PROVE x = e \/ x \in ToSet(s)
    <3>1. PICK i \in 1 .. Len(s) + 1 : t[i] = x
      BY <1>2, <2>1, InList
    <3>2. CASE i = 1
      BY <1>2, <3>1, <3>2
    <3>3. CASE i # 1
      <4>1. i - 1 \in 1 .. Len(s) /\ s[i - 1] = x
        BY <1>1, <1>2, <3>1, <3>3
      <4>q. QED
        BY <4>1, InList
    <3>q. QED
      BY <3>2, <3>3
  <2>2. e \in ToSet(t)
    <3>1. 1 \in 1 .. Len(t)
      BY <1>1, <1>2
    <3>q. QED
      BY <1>2, <3>1, InList
  <2>3. ASSUME x \in ToSet(s) PROVE x \in ToSet(t)
    <3>1. PICK i \in 1 .. Len(s) : s[i] = x
      BY <2>3, InList
    <3>2. i + 1 \in 1 .. Len(t) /\ t[i + 1] = x
      BY <1>1, <1>2, <3>1
    <3>q. QED
      BY <1>2, <3>2, InList
  <2>q. QED
    BY <2>1, <2>2, <2>3
<1>4. ASSUME IsInjective(s), e \notin ToSet(s),
             NEW i \in 1 .. Len(s) + 1, NEW j \in 1 .. Len(s) + 1, t[i] = t[j]
      PROVE  i = j
  <2>1. \A k, l \in 1 .. Len(s) : s[k] = s[l] => k = l
    BY <1>4, LenProperties DEF IsInjective
  <2>2. \A k \in 1 .. Len(s) : s[k] # e
    BY <1>4, InList
  <2>3. CASE i # 1 /\ j # 1
    <3>1. i - 1 \in 1 .. Len(s) /\ j - 1 \in 1 .. Len(s) /\ s[i - 1] = s[j - 1]
      BY <1>1, <1>2, <1>4, <2>3
    <3>2. i - 1 = j - 1
      BY <2>1, <3>1
    <3>q. QED
      BY <3>2
  <2>4. CASE i = 1 /\ j # 1
    BY <1>1, <1>2, <1>4, <2>2, <2>4
  <2>5. CASE i # 1 /\ j = 1
    BY <1>1, <1>2, <1>4, <2>2, <2>5
  <2>q. QED
    BY <2>3, <2>4, <2>5
<1>5. IsInjective(s) /\ e \notin ToSet(s) => IsInjective(t)
  BY <1>2, <1>4, LenProperties DEF IsInjective
<1>q. QED
  BY <1>2, <1>3, <1>5 DEF t

\* Two lists in one, by position.
LEMMA JoinedAt ==
    ASSUME NEW S, NEW s \in Seq(S), NEW t \in Seq(S), NEW u \in Seq(S),
           Len(u) = Len(s) + Len(t),
           \A i \in 1 .. Len(s) : u[i] = s[i],
           \A i \in 1 .. Len(t) : u[Len(s) + i] = t[i]
    PROVE  s \o t = u
<1>1. /\ Len(s) \in Nat /\ Len(t) \in Nat /\ s \o t \in Seq(S) /\ Len(s \o t) = Len(s) + Len(t)
      /\ \A i \in 1 .. Len(s) + Len(t) :
             (s \o t)[i] = IF i <= Len(s) THEN s[i] ELSE t[i - Len(s)]
  BY LenProperties, ConcatProperties
<1>2. ASSUME NEW i \in 1 .. Len(s) + Len(t) PROVE (s \o t)[i] = u[i]
  <2>1. CASE i <= Len(s)
    BY <1>1, <2>1
  <2>2. CASE ~(i <= Len(s))
    <3>1. i - Len(s) \in 1 .. Len(t) /\ Len(s) + (i - Len(s)) = i
      BY <1>1, <2>2
    <3>q. QED
      BY <1>1, <2>2, <3>1
  <2>q. QED
    BY <2>1, <2>2
<1>q. QED
  BY <1>1, <1>2, SeqEqual

\* Short lists of commands, put together.
LEMMA Join11 ==
    ASSUME NEW a, NEW b
    PROVE  << a >> \o << b >> = << a, b >>
<1>1. \E S : << a >> \in Seq(S) /\ << b >> \in Seq(S) /\ << a, b >> \in Seq(S)
  <2>1. WITNESS {a, b}
  <2>q. QED
    OBVIOUS
<1>2. /\ Len(<< a, b >>) = Len(<< a >>) + Len(<< b >>)
      /\ \A i \in 1 .. Len(<< a >>) : << a, b >>[i] = << a >>[i]
  OBVIOUS
<1>3. << a, b >>[1 + 1] = << b >>[1]
  OBVIOUS
<1>4. \A i \in 1 .. Len(<< b >>) : << a, b >>[Len(<< a >>) + i] = << b >>[i]
  <2>1. \A i \in 1 .. Len(<< b >>) : i = 1
    OBVIOUS
  <2>2. Len(<< a >>) = 1
    OBVIOUS
  <2>q. QED
    BY <1>3, <2>1, <2>2
<1>q. QED
  BY <1>1, <1>2, <1>4, JoinedAt

LEMMA Join12 ==
    ASSUME NEW a, NEW b, NEW c
    PROVE  << a >> \o << b, c >> = << a, b, c >>
<1>1. \E S : << a >> \in Seq(S) /\ << b, c >> \in Seq(S) /\ << a, b, c >> \in Seq(S)
  <2>1. WITNESS {a, b, c}
  <2>q. QED
    OBVIOUS
<1>2. /\ Len(<< a, b, c >>) = Len(<< a >>) + Len(<< b, c >>)
      /\ \A i \in 1 .. Len(<< a >>) : << a, b, c >>[i] = << a >>[i]
      /\ \A i \in 1 .. Len(<< b, c >>) : << a, b, c >>[Len(<< a >>) + i] = << b, c >>[i]
  OBVIOUS
<1>q. QED
  BY <1>1, <1>2, JoinedAt

LEMMA Join22 ==
    ASSUME NEW a, NEW b, NEW c, NEW d
    PROVE  << a, b >> \o << c, d >> = << a, b, c, d >>
<1>1. \E S : << a, b >> \in Seq(S) /\ << c, d >> \in Seq(S) /\ << a, b, c, d >> \in Seq(S)
  <2>1. WITNESS {a, b, c, d}
  <2>q. QED
    OBVIOUS
<1>2. /\ Len(<< a, b, c, d >>) = Len(<< a, b >>) + Len(<< c, d >>)
      /\ \A i \in 1 .. Len(<< a, b >>) : << a, b, c, d >>[i] = << a, b >>[i]
      /\ \A i \in 1 .. Len(<< c, d >>) : << a, b, c, d >>[Len(<< a, b >>) + i] = << c, d >>[i]
  OBVIOUS
<1>q. QED
  BY <1>1, <1>2, JoinedAt

LEMMA Join32 ==
    ASSUME NEW a, NEW b, NEW c, NEW d, NEW e
    PROVE  << a, b, c >> \o << d, e >> = << a, b, c, d, e >>
<1>1. \E S : << a, b, c >> \in Seq(S) /\ << d, e >> \in Seq(S) /\ << a, b, c, d, e >> \in Seq(S)
  <2>1. WITNESS {a, b, c, d, e}
  <2>q. QED
    OBVIOUS
<1>2. /\ Len(<< a, b, c, d, e >>) = Len(<< a, b, c >>) + Len(<< d, e >>)
      /\ \A i \in 1 .. Len(<< a, b, c >>) : << a, b, c, d, e >>[i] = << a, b, c >>[i]
      /\ \A i \in 1 .. Len(<< d, e >>) : << a, b, c, d, e >>[Len(<< a, b, c >>) + i] = << d, e >>[i]
  OBVIOUS
<1>q. QED
  BY <1>1, <1>2, JoinedAt

LEMMA Join43 ==
    ASSUME NEW a, NEW b, NEW c, NEW d, NEW e, NEW f, NEW g
    PROVE  << a, b, c, d >> \o << e, f, g >> = << a, b, c, d, e, f, g >>
<1>1. \E S : << a, b, c, d >> \in Seq(S) /\ << e, f, g >> \in Seq(S) /\ << a, b, c, d, e, f, g >> \in Seq(S)
  <2>1. WITNESS {a, b, c, d, e, f, g}
  <2>q. QED
    OBVIOUS
<1>2. /\ Len(<< a, b, c, d, e, f, g >>) = Len(<< a, b, c, d >>) + Len(<< e, f, g >>)
      /\ \A i \in 1 .. Len(<< a, b, c, d >>) : << a, b, c, d, e, f, g >>[i] = << a, b, c, d >>[i]
      /\ \A i \in 1 .. Len(<< e, f, g >>) : << a, b, c, d, e, f, g >>[Len(<< a, b, c, d >>) + i] = << e, f, g >>[i]
  OBVIOUS
<1>q. QED
  BY <1>1, <1>2, JoinedAt

LEMMA Join30 ==
    ASSUME NEW a, NEW b, NEW c
    PROVE  << a, b, c >> \o <<>> = << a, b, c >>
<1>1. << a, b, c >> \in Seq({a, b, c})
  OBVIOUS
<1>q. QED
  BY <1>1, ConcatEmptySeq

LEMMA Join40 ==
    ASSUME NEW a, NEW b, NEW c, NEW d
    PROVE  << a, b, c, d >> \o <<>> = << a, b, c, d >>
<1>1. << a, b, c, d >> \in Seq({a, b, c, d})
  OBVIOUS
<1>q. QED
  BY <1>1, ConcatEmptySeq

=============================================================================
