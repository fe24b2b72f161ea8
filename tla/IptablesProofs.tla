--------------------------- MODULE IptablesProofs ---------------------------
(* Theorems about Iptables, for any processes, chains, ports and faults.   *)
EXTENDS Iptables, TLAPS, FiniteSetTheorems, SequenceTheorems,
        WellFoundedInduction

-----------------------------------------------------------------------------
(* What the commands do to one chain.                                      *)

\* -A: the rules keep their places, the new one is last.
LEMMA AppendFacts ==
  ASSUME NEW S, NEW s \in Seq(S), NEW e \in S
  PROVE  /\ Append(s, e) \in Seq(S)
         /\ Len(Append(s, e)) = Len(s) + 1
         /\ \A i \in 1..Len(s) : Append(s, e)[i] = s[i]
         /\ Append(s, e)[Len(s) + 1] = e
         /\ \A x : Contains(Append(s, e), x) <=> Contains(s, x) \/ x = e
  <1>1. Len(s) \in Nat
    BY LenProperties
  <1>2. /\ Append(s, e) \in Seq(S)
        /\ Len(Append(s, e)) = Len(s) + 1
        /\ \A i \in 1..Len(s) : Append(s, e)[i] = s[i]
        /\ Append(s, e)[Len(s) + 1] = e
    BY AppendProperties
  <1>3. ASSUME NEW x PROVE Contains(Append(s, e), x) <=> Contains(s, x) \/ x = e
    BY <1>1, <1>2 DEF Contains
  <1>4. QED
    BY <1>2, <1>3

\* -I: the new rule is first, the others move down by one.
LEMMA PushFacts ==
  ASSUME NEW S, NEW s \in Seq(S), NEW e \in S
  PROVE  /\ <<e>> \o s \in Seq(S)
         /\ Len(<<e>> \o s) = Len(s) + 1
         /\ (<<e>> \o s)[1] = e
         /\ \A i \in 1..Len(s) : (<<e>> \o s)[i + 1] = s[i]
         /\ \A x : Contains(<<e>> \o s, x) <=> Contains(s, x) \/ x = e
  <1> DEFINE r == <<e>> \o s
  <1>1. <<e>> \in Seq(S) /\ Len(<<e>>) = 1 /\ <<e>>[1] = e
    OBVIOUS
  <1>2. Len(s) \in Nat
    BY LenProperties
  <1>3. /\ r \in Seq(S) /\ Len(r) = 1 + Len(s)
        /\ \A i \in 1..(1 + Len(s)) :
             r[i] = IF i <= 1 THEN <<e>>[i] ELSE s[i - 1]
    BY <1>1, ConcatProperties
  <1> HIDE DEF r
  <1>4. /\ Len(r) = Len(s) + 1
        /\ r[1] = e
        /\ \A i \in 1..Len(s) : r[i + 1] = s[i]
    BY <1>1, <1>2, <1>3
  <1>5. ASSUME NEW x, Contains(r, x) PROVE Contains(s, x) \/ x = e
    <2>1. PICK i \in 1..Len(r) : r[i] = x
      BY <1>5 DEF Contains
    <2>2. CASE i = 1
      BY <2>1, <2>2, <1>4
    <2>3. CASE i # 1
      <3>1. i - 1 \in 1..Len(s) /\ (i - 1) + 1 = i
        BY <2>1, <2>3, <1>2, <1>4
      <3>2. s[i - 1] = x
        BY <2>1, <3>1, <1>4
      <3>3. QED
        BY <3>1, <3>2 DEF Contains
    <2>4. QED
      BY <2>2, <2>3
  <1>6. ASSUME NEW x, Contains(s, x) \/ x = e PROVE Contains(r, x)
    <2>1. CASE x = e
      BY <2>1, <1>2, <1>4 DEF Contains
    <2>2. CASE Contains(s, x)
      <3>1. PICK i \in 1..Len(s) : s[i] = x
        BY <2>2 DEF Contains
      <3>2. r[i + 1] = x /\ i + 1 \in 1..Len(r)
        BY <3>1, <1>2, <1>4
      <3>3. QED
        BY <3>2 DEF Contains
    <2>3. QED
      BY <1>6, <2>1, <2>2
  <1>7. QED
    BY <1>3, <1>4, <1>5, <1>6 DEF r

\* A nonempty set of natural numbers has a least element, which is its Min.
LEMMA MinFacts ==
  ASSUME NEW I \in SUBSET Nat, I # {}
  PROVE  Min(I) \in I /\ \A i \in I : Min(I) <= i
  <1> DEFINE T == {1..i : i \in I}
  <1>1. T \subseteq FiniteSubsetsOf(Nat) /\ T # {}
    <2>1. \A i \in I : IsFiniteSet(1..i) /\ 1..i \in SUBSET Nat
      BY FS_Interval
    <2>2. QED
      BY <2>1 DEF FiniteSubsetsOf
  <1>2. PICK m \in I :
          \A y \in T : ~(<<y, 1..m>> \in StrictSubsetOrdering(Nat))
    <2>1. \E x \in T : \A y \in T : ~(<<y, x>> \in StrictSubsetOrdering(Nat))
      BY <1>1, FS_StrictSubsetOrderingWellFounded, WFMin
    <2>2. QED
      BY <2>1
  <1>3. ASSUME NEW i \in I, i < m PROVE FALSE
    <2>1. 1..i \in SUBSET Nat /\ 1..m \in SUBSET Nat
      OBVIOUS
    <2>2. 1..i \subseteq 1..m /\ 1..i # 1..m
      <3>1. m \in 1..m /\ m \notin 1..i
        BY <1>3
      <3>2. QED
        BY <3>1, <1>3
    <2>3. <<1..i, 1..m>> \in StrictSubsetOrdering(Nat)
      BY <2>1, <2>2 DEF StrictSubsetOrdering
    <2>4. QED
      BY <1>2, <2>3
  <1>4. \A i \in I : m <= i
    BY <1>3
  <1>5. QED
    BY <1>4 DEF Min

\* -D: one copy of the rule, the first, goes, and the others keep their order.
LEMMA RemoveFirstFacts ==
  ASSUME NEW S, NEW s \in Seq(S), NEW e, Contains(s, e)
  PROVE  /\ RemoveFirst(s, e) \in Seq(S)
         /\ Len(RemoveFirst(s, e)) = Len(s) - 1
         /\ \E k \in 1..Len(s) :
              /\ s[k] = e
              /\ \A i \in 1..(Len(s) - 1) :
                   RemoveFirst(s, e)[i] = IF i < k THEN s[i] ELSE s[i + 1]
         /\ \A x : Contains(RemoveFirst(s, e), x) => Contains(s, x)
         /\ \A x : Contains(s, x) /\ x # e => Contains(RemoveFirst(s, e), x)
  <1> DEFINE I == {i \in 1..Len(s) : s[i] = e}
             k == Min(I)
             a == SubSeq(s, 1, k - 1)
             b == SubSeq(s, k + 1, Len(s))
             r == RemoveFirst(s, e)
  <1>1. Len(s) \in Nat /\ \A i \in 1..Len(s) : s[i] \in S
    BY LenProperties, ElementOfSeq
  <1>2. k \in I
    <2>1. I # {} /\ I \in SUBSET Nat
      BY <1>1 DEF Contains
    <2>2. QED
      BY <2>1, MinFacts
  <1>3. r = a \o b
    <2>1. \E i \in 1..Len(s) : s[i] = e
      BY DEF Contains
    <2>2. RemoveFirst(s, e) = RemoveAt(s, k)
      BY <2>1, <1>2 DEF RemoveFirst, SelectInSeq
    <2>3. QED
      BY <2>2 DEF RemoveAt
  <1> HIDE DEF k
  <1>4. k \in 1..Len(s) /\ s[k] = e
    BY <1>2
  <1>5. /\ a \in Seq(S) /\ Len(a) = k - 1
        /\ \A i \in 1..(k - 1) : a[i] = s[i]
    <2>1. \A i \in 1..(k - 1) : s[i] \in S
      BY <1>1, <1>4
    <2>2. QED
      BY <2>1, <1>1, <1>4, SubSeqProperties
  <1>6. /\ b \in Seq(S) /\ Len(b) = Len(s) - k
        /\ \A i \in 1..(Len(s) - k) : b[i] = s[k + i]
    <2>1. \A i \in (k + 1)..Len(s) : s[i] \in S
      BY <1>1, <1>4
    <2>2. QED
      BY <2>1, <1>1, <1>4, SubSeqProperties
  <1> HIDE DEF a, b, r
  <1>7. /\ r \in Seq(S) /\ Len(r) = Len(s) - 1
        /\ \A i \in 1..(Len(s) - 1) : r[i] = IF i < k THEN s[i] ELSE s[i + 1]
    <2>1. /\ r \in Seq(S) /\ Len(r) = Len(a) + Len(b)
          /\ \A i \in 1..(Len(a) + Len(b)) :
               r[i] = IF i <= Len(a) THEN a[i] ELSE b[i - Len(a)]
      <3>1. /\ a \o b \in Seq(S) /\ Len(a \o b) = Len(a) + Len(b)
            /\ \A i \in 1..(Len(a) + Len(b)) :
                 (a \o b)[i] = IF i <= Len(a) THEN a[i] ELSE b[i - Len(a)]
        BY <1>5, <1>6, ConcatProperties
      <3>2. QED
        BY <3>1, <1>3
    <2>2. Len(a) = k - 1 /\ Len(b) = Len(s) - k /\ Len(a) + Len(b) = Len(s) - 1
      BY <1>1, <1>4, <1>5, <1>6
    <2>3. ASSUME NEW i \in 1..(Len(s) - 1)
          PROVE  r[i] = IF i < k THEN s[i] ELSE s[i + 1]
      <3>1. CASE i < k
        <4>1. i \in 1..(k - 1) /\ i <= Len(a) /\ i \in 1..(Len(a) + Len(b))
          BY <3>1, <2>2, <1>1, <1>4
        <4>2. r[i] = a[i]
          BY <4>1, <2>1
        <4>3. QED
          BY <4>1, <4>2, <3>1, <1>5
      <3>2. CASE i >= k
        <4>1. i - (k - 1) \in 1..(Len(s) - k) /\ k + (i - (k - 1)) = i + 1
          BY <3>2, <1>1, <1>4
        <4>2. i \in 1..(Len(a) + Len(b)) /\ ~(i <= Len(a)) /\ ~(i < k)
          BY <3>2, <2>2, <1>1, <1>4
        <4>3. r[i] = b[i - (k - 1)]
          BY <4>2, <2>1, <2>2
        <4>4. QED
          BY <4>1, <4>2, <4>3, <1>6
      <3>3. QED
        BY <3>1, <3>2, <1>1, <1>4
    <2>4. QED
      BY <2>1, <2>2, <2>3
  <1>8. ASSUME NEW x, Contains(r, x) PROVE Contains(s, x)
    <2>1. PICK i \in 1..(Len(s) - 1) : r[i] = x
      BY <1>7, <1>8 DEF Contains
    <2>2. i \in 1..Len(s) /\ i + 1 \in 1..Len(s)
      BY <1>1
    <2>3. QED
      BY <1>7, <2>1, <2>2 DEF Contains
  <1>9. ASSUME NEW x, Contains(s, x), x # e PROVE Contains(r, x)
    <2>1. PICK i \in 1..Len(s) : s[i] = x
      BY <1>9 DEF Contains
    <2>2. CASE i < k
      <3>1. i \in 1..(Len(s) - 1) /\ r[i] = x
        BY <1>1, <1>4, <1>7, <2>1, <2>2
      <3>2. QED
        BY <3>1, <1>7 DEF Contains
    <2>3. CASE i > k
      <3>1. i - 1 \in 1..(Len(s) - 1) /\ r[i - 1] = x
        BY <1>1, <1>4, <1>7, <2>1, <2>3
      <3>2. QED
        BY <3>1, <1>7 DEF Contains
    <2>4. QED
      BY <1>1, <1>4, <1>9, <2>1, <2>2, <2>3
  <1>10. QED
    BY <1>4, <1>7, <1>8, <1>9 DEF r

-----------------------------------------------------------------------------
(* What the commands do to the tables of the firewall.                     *)

Sound(t) == TableOK(t) /\ Hooked(t) /\ Ordered(t)

InOrder(s) ==
  \A i, j \in DOMAIN s : s[i] \in Ports /\ s[j] = Return => i < j

\* What no command of the code removes.
Kept(t, u) ==
  \A c \in Chains :
    /\ Contains(t.rules[c], Return) => Contains(u.rules[c], Return)
    /\ Contains(t.rules[Input], c) => Contains(u.rules[Input], c)

\* Replacing the rules of a chain that INPUT jumps to, or that has no port
\* rule, keeps a table sound.
LEMMA RewriteChain ==
  ASSUME NEW t, Sound(t), NEW c \in Chains, c \in t.chains,
         NEW s \in Seq(Ports \cup {Return}), InOrder(s),
         \A x \in Ports : Contains(s, x) => Contains(t.rules[Input], c),
         Contains(t.rules[c], Return) => Contains(s, Return)
  PROVE  LET u == Rewrite(t, c, s) IN
         /\ Sound(u) /\ Kept(t, u)
         /\ u.rules[c] = s
         /\ \A d \in AllChains \ {c} : u.rules[d] = t.rules[d]
  <1> DEFINE u == Rewrite(t, c, s)
  <1>1. /\ t.rules \in [AllChains -> Seq(Targets)]
        /\ t.chains \in SUBSET Chains
    BY DEF Sound, TableOK, Tables
  <1>2. c \in AllChains /\ c # Input
    BY NamesAssumption DEF AllChains
  <1>3. s \in Seq(Targets)
    BY SeqMonotonic DEF Targets
  <1>4. /\ u.chains = t.chains
        /\ u.rules = [t.rules EXCEPT ![c] = s]
        /\ u = [chains |-> u.chains, rules |-> u.rules]
    BY DEF Rewrite
  <1>5. u \in Tables
    BY <1>1, <1>3, <1>4 DEF Tables
  <1>6. u.rules[c] = s /\ \A d \in AllChains \ {c} : u.rules[d] = t.rules[d]
    BY <1>1, <1>2, <1>4
  <1>7. Input \in AllChains /\ Chains \subseteq AllChains
    BY DEF AllChains
  <1> HIDE DEF u
  <1>8. TableOK(u)
    BY <1>2, <1>4, <1>5, <1>6, <1>7 DEF Sound, TableOK
  <1>9. Hooked(u)
    BY <1>2, <1>6, <1>7 DEF Sound, Hooked
  <1>10. Ordered(u)
    BY <1>2, <1>6, <1>7 DEF Sound, Ordered, InOrder
  <1>11. Kept(t, u)
    BY <1>2, <1>6, <1>7 DEF Kept
  <1>12. QED
    BY <1>6, <1>8, <1>9, <1>10, <1>11 DEF Sound, u

\* The type of what a sound table holds.
LEMMA TableFacts ==
  ASSUME NEW t, Sound(t)
  PROVE  /\ t.chains \in SUBSET Chains
         /\ t.rules[Input] \in Seq(t.chains)
         /\ \A c \in Chains : /\ t.rules[c] \in Seq(Ports \cup {Return})
                              /\ c \notin t.chains => t.rules[c] = <<>>
                              /\ \A i, j \in 1..Len(t.rules[c]) :
                                   t.rules[c][i] \in Ports /\ t.rules[c][j] = Return
                                     => i < j
                              /\ DOMAIN t.rules[c] = 1..Len(t.rules[c])
                              /\ Len(t.rules[c]) \in Nat
  BY LenProperties DEF Sound, TableOK, Tables, Ordered

\* -N keeps a table sound, and adds no rule.
LEMMA NewChainSound ==
  ASSUME NEW t, Sound(t), NEW c \in Chains
  PROVE  LET u == NewChain(t, c).table
         IN  Sound(u) /\ Kept(t, u) /\ u.rules = t.rules
  <1> DEFINE u == NewChain(t, c).table
  <1>1. CASE c \in t.chains
    <2>1. u = t
      BY <1>1 DEF NewChain, Reply
    <2>2. QED
      BY <2>1 DEF Kept
  <1>2. CASE c \notin t.chains
    <2>1. /\ t.rules \in [AllChains -> Seq(Targets)]
          /\ t.chains \in SUBSET Chains
      BY DEF Sound, TableOK, Tables
    <2>2. u = [chains |-> t.chains \cup {c}, rules |-> t.rules]
      BY <1>2 DEF NewChain, Reply
    <2>3. /\ u.chains = t.chains \cup {c} /\ u.rules = t.rules
          /\ u = [chains |-> u.chains, rules |-> u.rules]
      BY <2>2
    <2> HIDE DEF u
    <2>4. u.rules[Input] \in Seq(u.chains)
      BY <2>3, TableFacts, SeqMonotonic
    <2>5. TableOK(u)
      BY <2>1, <2>3, <2>4 DEF Sound, TableOK, Tables
    <2>6. Hooked(u) /\ Ordered(u) /\ Kept(t, u)
      BY <2>3 DEF Sound, Hooked, Ordered, Kept
    <2>7. QED
      BY <2>3, <2>5, <2>6 DEF Sound, u
  <1>3. QED
    BY <1>1, <1>2

\* -A of the RETURN rule keeps a table sound; the port rules stay the same.
LEMMA AddReturnSound ==
  ASSUME NEW t, Sound(t), NEW c \in Chains
  PROVE  LET a == AppendRule(t, Rule(c, Return))
             u == a.table
         IN  /\ Sound(u) /\ Kept(t, u)
             /\ \A d \in Chains, x \in Ports :
                  Contains(u.rules[d], x) <=> Contains(t.rules[d], x)
             /\ a.exit \in {0, 1}
             /\ a.exit = 0 => Contains(u.rules[c], Return)
  <1> DEFINE a == AppendRule(t, Rule(c, Return))
             u == a.table
             s == Append(t.rules[c], Return)
  <1>0. Return \notin Chains /\ c # Input /\ Return \notin Ports
    BY NamesAssumption
  <1>1. CASE c \in t.chains
    <2>1. CanHold(t, Rule(c, Return))
      BY <1>0, <1>1 DEF CanHold, Rule
    <2>2. a.exit = 0 /\ u = Rewrite(t, c, s)
      BY <2>1 DEF AppendRule, Reply, Rule
    <2>3. /\ s \in Seq(Ports \cup {Return})
          /\ Len(s) = Len(t.rules[c]) + 1
          /\ \A i \in 1..Len(t.rules[c]) : s[i] = t.rules[c][i]
          /\ s[Len(t.rules[c]) + 1] = Return
          /\ \A x : Contains(s, x) <=> Contains(t.rules[c], x) \/ x = Return
      BY TableFacts, AppendFacts
    <2> HIDE DEF s
    <2>4. InOrder(s)
      <3>1. DOMAIN s = 1..Len(s)
        BY <2>3, LenProperties
      <3>2. SUFFICES ASSUME NEW i \in 1..Len(s), NEW j \in 1..Len(s),
                            s[i] \in Ports, s[j] = Return
                     PROVE  i < j
        BY <3>1 DEF InOrder
      <3>3. Len(t.rules[c]) \in Nat
        BY TableFacts
      <3>4. i \in 1..Len(t.rules[c])
        BY <3>2, <3>3, <2>3, <1>0
      <3>5. CASE j = Len(t.rules[c]) + 1
        BY <3>3, <3>4, <3>5
      <3>6. CASE j # Len(t.rules[c]) + 1
        <4>1. j \in 1..Len(t.rules[c]) /\ t.rules[c][j] = Return
          BY <3>2, <3>3, <3>6, <2>3
        <4>2. t.rules[c][i] \in Ports
          BY <3>2, <3>4, <2>3
        <4>3. QED
          BY <3>4, <4>1, <4>2, TableFacts
      <3>7. QED
        BY <3>5, <3>6
    <2>5. \A x \in Ports : Contains(s, x) => Contains(t.rules[Input], c)
      BY <1>0, <2>3 DEF Sound, Hooked
    <2>6. Contains(t.rules[c], Return) => Contains(s, Return)
      BY <2>3
    <2> HIDE DEF a, u
    <2>7. /\ Sound(u) /\ Kept(t, u) /\ u.rules[c] = s
          /\ \A d \in AllChains \ {c} : u.rules[d] = t.rules[d]
      BY <1>1, <2>2, <2>3, <2>4, <2>5, <2>6, RewriteChain
    <2>8. \A d \in Chains, x \in Ports :
            Contains(u.rules[d], x) <=> Contains(t.rules[d], x)
      BY <1>0, <2>3, <2>7 DEF AllChains
    <2>9. QED
      BY <2>2, <2>3, <2>7, <2>8 DEF a, u
  <1>2. CASE c \notin t.chains
    <2>1. a = Reply(1, t)
      BY <1>0, <1>2 DEF AppendRule, CanHold, Rule
    <2>2. QED
      BY <2>1 DEF Kept, Reply
  <1>3. QED
    BY <1>1, <1>2

\* -I of a port rule keeps a table sound in which INPUT jumps to the chain,
\* and adds that port rule only.
LEMMA InsertPortSound ==
  ASSUME NEW t, Sound(t), NEW c \in Chains, NEW x \in Ports,
         Contains(t.rules[Input], c)
  PROVE  LET u == InsertRule(t, Rule(c, x)).table
         IN  /\ Sound(u) /\ Kept(t, u)
             /\ \/ u = t
                \/ \A d \in Chains, y \in Ports :
                     Contains(u.rules[d], y) <=>
                       Contains(t.rules[d], y) \/ (d = c /\ y = x)
  <1> DEFINE u == InsertRule(t, Rule(c, x)).table
             s == <<x>> \o t.rules[c]
  <1>0. c # Input /\ x # Return /\ x \notin Chains
    BY NamesAssumption
  <1>1. CASE c \in t.chains
    <2>1. CanHold(t, Rule(c, x))
      BY <1>0, <1>1 DEF CanHold, Rule
    <2>2. u = Rewrite(t, c, s)
      BY <2>1 DEF InsertRule, Reply, Rule
    <2>3. /\ s \in Seq(Ports \cup {Return})
          /\ Len(s) = Len(t.rules[c]) + 1
          /\ s[1] = x
          /\ \A i \in 1..Len(t.rules[c]) : s[i + 1] = t.rules[c][i]
          /\ \A y : Contains(s, y) <=> Contains(t.rules[c], y) \/ y = x
      BY TableFacts, PushFacts
    <2> HIDE DEF s
    <2>4. InOrder(s)
      <3>1. DOMAIN s = 1..Len(s)
        BY <2>3, LenProperties
      <3>2. SUFFICES ASSUME NEW i \in 1..Len(s), NEW j \in 1..Len(s),
                            s[i] \in Ports, s[j] = Return
                     PROVE  i < j
        BY <3>1 DEF InOrder
      <3>3. Len(t.rules[c]) \in Nat
        BY TableFacts
      <3>4. j # 1
        BY <3>2, <2>3, <1>0
      <3>5. CASE i = 1
        BY <3>4, <3>5
      <3>6. CASE i # 1
        <4>1. /\ i - 1 \in 1..Len(t.rules[c]) /\ s[i] = t.rules[c][i - 1]
              /\ j - 1 \in 1..Len(t.rules[c]) /\ s[j] = t.rules[c][j - 1]
          BY <3>3, <3>4, <3>6, <2>3
        <4>2. i - 1 < j - 1
          BY <4>1, <3>2, TableFacts
        <4>3. QED
          BY <4>2
      <3>7. QED
        BY <3>5, <3>6
    <2>5. Contains(t.rules[c], Return) => Contains(s, Return)
      BY <2>3
    <2> HIDE DEF u
    <2>6. /\ Sound(u) /\ Kept(t, u) /\ u.rules[c] = s
          /\ \A d \in AllChains \ {c} : u.rules[d] = t.rules[d]
      BY <1>1, <2>2, <2>3, <2>4, <2>5, RewriteChain
    <2>7. \A d \in Chains, y \in Ports :
            Contains(u.rules[d], y) <=>
              Contains(t.rules[d], y) \/ (d = c /\ y = x)
      BY <2>3, <2>6 DEF AllChains
    <2>8. QED
      BY <2>6, <2>7 DEF u
  <1>2. CASE c \notin t.chains
    <2>1. u = t
      BY <1>0, <1>2 DEF InsertRule, CanHold, Rule, Reply
    <2>2. QED
      BY <2>1 DEF Kept
  <1>3. QED
    BY <1>1, <1>2
\* -D of a port rule keeps a table sound; it may remove that port rule, and
\* no other.
LEMMA DeletePortSound ==
  ASSUME NEW t, Sound(t), NEW c \in Chains, NEW x \in Ports
  PROVE  LET u == DeleteRule(t, Rule(c, x)).table
         IN  /\ Sound(u) /\ Kept(t, u)
             /\ \A d \in Chains, y \in Ports :
                  /\ Contains(u.rules[d], y) => Contains(t.rules[d], y)
                  /\ Contains(t.rules[d], y) /\ ~(d = c /\ y = x)
                       => Contains(u.rules[d], y)
  <1> DEFINE u == DeleteRule(t, Rule(c, x)).table
             s == RemoveFirst(t.rules[c], x)
  <1>0. c # Input /\ x # Return /\ x \notin Chains
    BY NamesAssumption
  <1>1. CASE Contains(t.rules[c], x)
    <2>1. u = Rewrite(t, c, s)
      BY <1>1 DEF DeleteRule, HasRule, Reply, Rule
    <2>2. /\ s \in Seq(Ports \cup {Return})
          /\ Len(s) = Len(t.rules[c]) - 1
          /\ \E k \in 1..Len(t.rules[c]) :
               /\ t.rules[c][k] = x
               /\ \A i \in 1..(Len(t.rules[c]) - 1) :
                    s[i] = IF i < k THEN t.rules[c][i] ELSE t.rules[c][i + 1]
          /\ \A y : Contains(s, y) => Contains(t.rules[c], y)
          /\ \A y : Contains(t.rules[c], y) /\ y # x => Contains(s, y)
      <3> DEFINE r == t.rules[c]
      <3>1. r \in Seq(Ports \cup {Return}) /\ Contains(r, x)
        BY <1>1, TableFacts
      <3> HIDE DEF r
      <3>2. /\ RemoveFirst(r, x) \in Seq(Ports \cup {Return})
            /\ Len(RemoveFirst(r, x)) = Len(r) - 1
            /\ \E k \in 1..Len(r) :
                 /\ r[k] = x
                 /\ \A i \in 1..(Len(r) - 1) :
                      RemoveFirst(r, x)[i] = IF i < k THEN r[i] ELSE r[i + 1]
            /\ \A y : Contains(RemoveFirst(r, x), y) => Contains(r, y)
            /\ \A y : Contains(r, y) /\ y # x => Contains(RemoveFirst(r, x), y)
        BY <3>1, RemoveFirstFacts
      <3>3. QED
        BY <3>2 DEF r
    <2> HIDE DEF s
    <2>3. InOrder(s)
      <3>1. DOMAIN s = 1..Len(s)
        BY <2>2, LenProperties
      <3>2. SUFFICES ASSUME NEW i \in 1..Len(s), NEW j \in 1..Len(s),
                            s[i] \in Ports, s[j] = Return
                     PROVE  i < j
        BY <3>1 DEF InOrder
      <3> DEFINE r == t.rules[c]
      <3>3. /\ Len(r) \in Nat
            /\ \A m, n \in 1..Len(r) : r[m] \in Ports /\ r[n] = Return => m < n
        BY TableFacts
      <3>4. PICK k \in 1..Len(r) :
              \A m \in 1..(Len(r) - 1) : s[m] = IF m < k THEN r[m] ELSE r[m + 1]
        BY <2>2
      <3>5. Len(s) = Len(r) - 1
        BY <2>2
      <3> HIDE DEF r
      <3> DEFINE old(m) == IF m < k THEN m ELSE m + 1
      <3>6. /\ old(i) \in 1..Len(r) /\ r[old(i)] = s[i]
            /\ old(j) \in 1..Len(r) /\ r[old(j)] = s[j]
        BY <3>3, <3>4, <3>5
      <3>7. old(i) < old(j)
        BY <3>2, <3>3, <3>6
      <3>8. QED
        BY <3>3, <3>5, <3>7
    <2>4. c \in t.chains
      <3>1. Len(<<>>) = 0
        OBVIOUS
      <3>2. t.rules[c] # <<>>
        BY <1>1, <3>1 DEF Contains
      <3>3. QED
        BY <3>2, TableFacts
    <2>5. \A y \in Ports : Contains(s, y) => Contains(t.rules[Input], c)
      BY <2>2 DEF Sound, Hooked
    <2>6. Contains(t.rules[c], Return) => Contains(s, Return)
      BY <1>0, <2>2
    <2> HIDE DEF u
    <2>7. /\ Sound(u) /\ Kept(t, u) /\ u.rules[c] = s
          /\ \A d \in AllChains \ {c} : u.rules[d] = t.rules[d]
      BY <2>1, <2>2, <2>3, <2>4, <2>5, <2>6, RewriteChain
    <2>8. ASSUME NEW d \in Chains, NEW y \in Ports
          PROVE  /\ Contains(u.rules[d], y) => Contains(t.rules[d], y)
                 /\ Contains(t.rules[d], y) /\ ~(d = c /\ y = x)
                      => Contains(u.rules[d], y)
      BY <2>2, <2>7 DEF AllChains
    <2>9. QED
      BY <2>7, <2>8 DEF u
  <1>2. CASE ~Contains(t.rules[c], x)
    <2>1. u = t
      BY <1>2 DEF DeleteRule, HasRule, Rule, Reply
    <2>2. QED
      BY <2>1 DEF Kept
  <1>3. QED
    BY <1>1, <1>2

\* -I of a jump keeps a table sound and the rules of the other chains.
LEMMA InsertJumpSound ==
  ASSUME NEW t, Sound(t), NEW c \in Chains
  PROVE  LET a == InsertRule(t, Rule(Input, c))
             u == a.table
         IN  /\ Sound(u) /\ Kept(t, u)
             /\ \A d \in Chains : u.rules[d] = t.rules[d]
             /\ a.exit \in {0, 1}
             /\ a.exit = 0 => Contains(u.rules[Input], c)
  <1> DEFINE a == InsertRule(t, Rule(Input, c))
             u == a.table
             s == <<c>> \o t.rules[Input]
  <1>1. CASE c \in t.chains
    <2>1. a.exit = 0 /\ u = Rewrite(t, Input, s)
      BY <1>1 DEF InsertRule, CanHold, Reply, Rule
    <2>2. /\ t.rules \in [AllChains -> Seq(Targets)]
          /\ t.chains \in SUBSET Chains
          /\ Input \in AllChains /\ Chains \subseteq AllChains
      BY DEF Sound, TableOK, Tables, AllChains
    <2>3. /\ s \in Seq(t.chains)
          /\ \A y : Contains(s, y) <=> Contains(t.rules[Input], y) \/ y = c
      <3> DEFINE S == t.chains
                 r == t.rules[Input]
      <3>1. r \in Seq(S) /\ c \in S
        BY <1>1, TableFacts
      <3> HIDE DEF r, S
      <3>2. /\ <<c>> \o r \in Seq(S)
            /\ \A y : Contains(<<c>> \o r, y) <=> Contains(r, y) \/ y = c
        BY <3>1, PushFacts
      <3>3. QED
        BY <3>2 DEF r, S
    <2>4. s \in Seq(Targets)
      BY <2>2, <2>3, SeqMonotonic DEF Targets
    <2> HIDE DEF s, a
    <2>5. /\ u.chains = t.chains
          /\ u.rules = [t.rules EXCEPT ![Input] = s]
          /\ u = [chains |-> u.chains, rules |-> u.rules]
      BY <2>1 DEF Rewrite
    <2> HIDE DEF u
    <2>6. /\ u \in Tables
          /\ u.rules[Input] = s
          /\ \A d \in Chains : u.rules[d] = t.rules[d]
      BY <2>2, <2>4, <2>5, NamesAssumption DEF Tables
    <2>7. TableOK(u)
      BY <2>3, <2>5, <2>6 DEF Sound, TableOK
    <2>8. Hooked(u) /\ Ordered(u) /\ Kept(t, u)
      BY <2>3, <2>6 DEF Sound, Hooked, Ordered, Kept
    <2>9. QED
      BY <2>1, <2>3, <2>6, <2>7, <2>8 DEF Sound, a, u
  <1>2. CASE c \notin t.chains
    <2>1. a = Reply(1, t)
      BY <1>2 DEF InsertRule, CanHold, Rule
    <2>2. QED
      BY <2>1 DEF Kept, Reply
  <1>3. QED
    BY <1>1, <1>2
-----------------------------------------------------------------------------
(* What the outcome of a command tells.                                    *)

\* A command that fails for no visible cause may or may not have its effect,
\* and its code is never 0; any other command does what it replies.
LEMMA OutcomeFacts ==
  ASSUME NEW r, r.exit \in {0, 1}, faults \in 0..MaxFaults,
         NEW o \in Outcomes(r)
  PROVE  /\ o.table \in {live, r.table}
         /\ o.exit \in ExitCodes
         /\ o.fault \in BOOLEAN
         /\ o.exit = 0 => ~o.fault
         /\ ~o.fault => o.exit = r.exit /\ o.table = r.table
         /\ faults + (IF o.fault THEN 1 ELSE 0) \in 0..MaxFaults
  <1>1. MaxFaults \in Nat /\ FaultCodes \subseteq ExitCodes \ {0}
    BY FaultsAssumption
  <1>2. CASE o = [exit |-> r.exit, table |-> r.table, fault |-> FALSE]
    <2>1. o.exit = r.exit /\ o.table = r.table /\ o.fault = FALSE
      BY <1>2
    <2>2. /\ o.exit \in ExitCodes /\ o.table \in {live, r.table}
          /\ o.fault \in BOOLEAN
      BY <2>1 DEF ExitCodes
    <2>3. faults + (IF o.fault THEN 1 ELSE 0) \in 0..MaxFaults
      BY <1>1, <2>1
    <2>4. QED
      BY <2>1, <2>2, <2>3
  <1>3. CASE o \in [exit : IF faults < MaxFaults THEN FaultCodes ELSE {},
                    table : {live, r.table}, fault : {TRUE}]
    <2>1. /\ o.exit \in FaultCodes /\ faults < MaxFaults
          /\ o.table \in {live, r.table} /\ o.fault = TRUE
      BY <1>3
    <2>2. o.exit \in ExitCodes /\ o.exit # 0 /\ o.fault \in BOOLEAN
      BY <1>1, <2>1
    <2>3. faults + (IF o.fault THEN 1 ELSE 0) \in 0..MaxFaults
      <3>1. faults + 1 \in 0..MaxFaults
        BY <1>1, <2>1
      <3>2. QED
        BY <2>1, <3>1
    <2>4. QED
      BY <2>1, <2>2, <2>3
  <1>4. QED
    BY <1>2, <1>3 DEF Outcomes

\* run_command(..., expected_ret_code=0) returns for the code 0 only.
LEMMA SucceedsFacts ==
  \A exit \in ExitCodes : Succeeds(exit) <=> exit = 0
  BY DEF Succeeds, Raises, ExitCodes, NoCode, AnyCode

\* has_iptables_rule answers with one of three words, "yes" for the code 0.
LEMMA HasRuleFacts ==
  \A exit \in ExitCodes :
            /\ HasIptablesRule(exit) \in {"yes", "no", "raises"}
            /\ HasIptablesRule(exit) = "yes" => exit = 0
  BY DEF HasIptablesRule, Raises, IsFatalIptablesCode, ExitCodes, NoCode, AnyCode

\* -C changes nothing, and answers 0 when the rule is there.
LEMMA CheckFacts ==
  ASSUME NEW r
  PROVE  LET c == CheckRule(live, r)
         IN  /\ c.exit \in {0, 1} /\ c.table = live
             /\ c.exit = 0 => Contains(live.rules[r.chain], r.target)
  BY DEF CheckRule, Reply, HasRule

-----------------------------------------------------------------------------
(* The inductive invariant.                                                *)

\* The part of TypeOK that is not about tables.
ControlOK ==
  /\ pc \in [Procs -> PCs]
  /\ call \in [Procs -> Calls]
  /\ result \in [Procs -> {"none", "ok", "error"}]
  /\ snap \in [Procs -> Tables]
  /\ faults \in 0..MaxFaults
  /\ hit \in [Procs -> BOOLEAN]
  /\ owed \in BOOLEAN
  /\ users \in [Accesses -> SUBSET Procs]

\* The invariant IInv, arranged as the proofs use it.
LEMMA IInvParts ==
  IInv <=> /\ ControlOK
           /\ Sound(live) /\ Sound(saved)
           /\ \A p \in Procs : Sound(snap[p])
           /\ \A p \in Procs : Established(p)
  BY DEF IInv, TypeOK, ControlOK, Sound

LEMMA CallFacts ==
  ASSUME ControlOK, NEW p \in Procs
  PROVE  /\ call[p].open \in BOOLEAN
         /\ call[p].chain \in Chains
         /\ call[p].port \in Ports
  BY DEF ControlOK, Calls

LEMMA NoTableSound == Sound(NoTable)
  <1>1. /\ NoTable.chains = {}
        /\ \A c \in AllChains : NoTable.rules[c] = <<>>
        /\ NoTable.rules \in [AllChains -> Seq(Targets)]
        /\ NoTable = [chains |-> NoTable.chains, rules |-> NoTable.rules]
    BY EmptySeq DEF NoTable
  <1>2. NoTable \in Tables
    BY <1>1 DEF Tables
  <1>3. Input \in AllChains /\ Chains \subseteq AllChains
    BY DEF AllChains
  <1>4. \A S : <<>> \in Seq(S)
    BY EmptySeq
  <1>5. Len(<<>>) = 0 /\ DOMAIN <<>> = {}
    OBVIOUS
  <1>6. TableOK(NoTable)
    BY <1>1, <1>2, <1>3, <1>4 DEF TableOK
  <1>7. Hooked(NoTable) /\ Ordered(NoTable)
    BY <1>1, <1>3, <1>5 DEF Hooked, Ordered, Contains
  <1>8. QED
    BY <1>6, <1>7 DEF Sound

\* The invariant survives a command that keeps the tables sound, if what its
\* process then goes on to was established.
LEMMA CommandStep ==
  ASSUME IInv, NEW p \in Procs,
         NEW r, r.exit \in {0, 1}, Sound(r.table), Kept(live, r.table),
         NEW o \in Outcomes(r), Take(p, o),
         \/ Finish(p)
         \/ Raise(p)
         \/ \E label \in PCs :
              Goto(p, label) /\ Ready(p, label, live')
  PROVE  IInv'
  <1>1. /\ ControlOK /\ Sound(live) /\ Sound(saved)
        /\ \A q \in Procs : Sound(snap[q])
        /\ \A q \in Procs : Established(q)
    BY IInvParts
  <1>2. /\ o.table \in {live, r.table} /\ o.fault \in BOOLEAN
        /\ faults + (IF o.fault THEN 1 ELSE 0) \in 0..MaxFaults
    BY <1>1, OutcomeFacts DEF ControlOK
  <1>3. Sound(live') /\ Kept(live, live')
    BY <1>1, <1>2 DEF Take, Kept
  <1>4. Sound(saved')
    BY <1>1 DEF Take
  <1>5. faults' \in 0..MaxFaults /\ hit' \in [Procs -> BOOLEAN]
        /\ call' = call /\ call' \in [Procs -> Calls]
    BY <1>1, <1>2 DEF Take, Suffer, ControlOK
  <1>6. CASE Finish(p) \/ Raise(p)
    <2>1. /\ pc' = [pc EXCEPT ![p] = "idle"]
          /\ \E a \in {"ok", "error"} : result' = [result EXCEPT ![p] = a]
          /\ snap' = [snap EXCEPT ![p] = NoTable]
          /\ owed' \in BOOLEAN /\ users' = users
      BY <1>1, <1>6 DEF Finish, Raise, Leave, ControlOK
    <2>2. NoTable \in Tables
      BY NoTableSound DEF Sound, TableOK
    <2>3. ControlOK'
      BY <1>1, <1>5, <2>1, <2>2 DEF ControlOK, PCs
    <2>4. \A q \in Procs : Sound(snap[q])'
      BY <1>1, <2>1, NoTableSound DEF ControlOK
    <2>5. \A q \in Procs : Established(q)'
      BY <1>1, <1>3, <1>5, <2>1, CallFacts DEF ControlOK, Established, Ready, Kept, Opening
    <2>6. QED
      BY <1>3, <1>4, <2>3, <2>4, <2>5 DEF IInv, TypeOK, ControlOK, Sound
  <1>7. CASE \E label \in PCs :
               Goto(p, label) /\ Ready(p, label, live')
    <2>1. PICK label \in PCs :
               Goto(p, label) /\ Ready(p, label, live')
      BY <1>7
    <2>2. ControlOK'
      BY <1>1, <1>5, <2>1 DEF ControlOK, Goto
    <2>3. \A q \in Procs : Sound(snap[q])'
      BY <1>1, <2>1 DEF Goto
    <2>4. \A q \in Procs : Established(q)'
      BY <1>1, <1>3, <1>5, <2>1, CallFacts DEF ControlOK, Established, Ready, Kept, Goto, Opening
    <2>5. QED
      BY <1>3, <1>4, <2>2, <2>3, <2>4 DEF IInv, TypeOK, ControlOK, Sound
  <1>8. QED
    BY <1>6, <1>7
\* A command that looks a rule up leaves the tables alone.
LEMMA CheckOutcome ==
  ASSUME IInv, NEW r, NEW o \in Outcomes(CheckRule(live, r))
  PROVE  /\ CheckRule(live, r).exit \in {0, 1}
         /\ CheckRule(live, r).table = live
         /\ o.table = live /\ o.exit \in ExitCodes
         /\ HasIptablesRule(o.exit) = "yes" =>
              Contains(live.rules[r.chain], r.target)
  <1> DEFINE c == CheckRule(live, r)
  <1>1. /\ c.exit \in {0, 1} /\ c.table = live
        /\ c.exit = 0 => Contains(live.rules[r.chain], r.target)
    BY CheckFacts
  <1>2. faults \in 0..MaxFaults
    BY DEF IInv, TypeOK
  <1> HIDE DEF c
  <1>3. /\ o.table \in {live, c.table} /\ o.exit \in ExitCodes
        /\ o.exit = 0 => c.exit = 0
    <2>1. o \in Outcomes(c)
      BY DEF c
    <2>2. QED
      BY <1>1, <1>2, <2>1, OutcomeFacts
  <1>4. QED
    BY <1>1, <1>3, HasRuleFacts DEF c

\* What IInv says of a process at a label.
LEMMA ReadyFacts ==
  ASSUME IInv, NEW p \in Procs
  PROVE  /\ pc[p] \in Opening => call[p].open
         /\ pc[p] = "delete" => ~call[p].open
         /\ pc[p] \in {"check_jump", "insert_jump", "insert"} =>
              Contains(live.rules[call[p].chain], Return)
         /\ pc[p] = "insert" => Contains(live.rules[Input], call[p].chain)
  BY DEF IInv, Established, Ready

LEMMA KeptItself == \A t : Kept(t, t)
  BY DEF Kept

LEMMA BeginStep ==
  ASSUME IInv, NEW p \in Procs, Begin(p)
  PROVE  IInv'
  <1>1. /\ ControlOK /\ Sound(live) /\ Sound(saved)
        /\ \A q \in Procs : Sound(snap[q])
        /\ \A q \in Procs : Established(q)
    BY IInvParts
  <1>2. PICK c \in Calls : call' = [call EXCEPT ![p] = c]
    BY DEF Begin
  <1>3. pc' = [pc EXCEPT ![p] = "check"]
    BY DEF Begin
  <1>4. ControlOK'
    <2>1. users' \in [Accesses -> SUBSET Procs]
      <3>1. PICK a \in Accesses :
              users' = [users EXCEPT ![a] = {p} \cup (IF Raced(a) THEN @ ELSE Busy(a))]
        BY DEF Begin, Calls, Accesses
      <3>2. Busy(a) \in SUBSET Procs /\ users[a] \in SUBSET Procs
        BY <1>1 DEF Busy, ControlOK
      <3>3. {p} \cup (IF Raced(a) THEN users[a] ELSE Busy(a)) \in SUBSET Procs
        BY <3>2
      <3>4. QED
        BY <1>1, <3>1, <3>3 DEF ControlOK
    <2>2. QED
      BY <1>1, <1>2, <1>3, <2>1 DEF Begin, ControlOK, PCs
  <1>5. /\ Sound(live)' /\ Sound(saved)'
        /\ \A q \in Procs : Sound(snap[q])'
    BY <1>1 DEF Begin
  <1>6. ASSUME NEW q \in Procs PROVE Established(q)'
    BY <1>1, <1>2, <1>3 DEF Begin, ControlOK, Established, Ready, Opening
  <1>7. QED
    BY <1>4, <1>5, <1>6 DEF IInv, TypeOK, ControlOK, Sound

LEMMA CheckPortStep ==
  ASSUME IInv, NEW p \in Procs, CheckPort(p)
  PROVE  IInv'
  <1> DEFINE r == CheckRule(live, PortRule(p))
  <1>1. PICK o \in Outcomes(r) :
          /\ Take(p, o)
          /\ Raise(p) \/ Finish(p)
               \/ Goto(p, IF call[p].open THEN "new_chain" ELSE "delete")
    BY DEF CheckPort
  <1>2. r.exit \in {0, 1} /\ r.table = live
    BY CheckFacts
  <1>3. Sound(r.table) /\ Kept(live, r.table)
    BY <1>2, KeptItself, IInvParts
  <1> HIDE DEF r
  <1>4. CASE Raise(p) \/ Finish(p)
    BY <1>1, <1>2, <1>3, <1>4, CommandStep
  <1>5. CASE Goto(p, IF call[p].open THEN "new_chain" ELSE "delete")
    BY <1>1, <1>2, <1>3, <1>5, CommandStep DEF PCs, Ready, Opening
  <1>6. QED
    BY <1>1, <1>4, <1>5

LEMMA CreateChainStep ==
  ASSUME IInv, NEW p \in Procs, CreateChain(p)
  PROVE  IInv'
  <1> DEFINE r == NewChain(live, call[p].chain)
  <1>1. PICK o \in Outcomes(r) :
          Take(p, o) /\ (Raise(p) \/ Goto(p, "check_return"))
    BY DEF CreateChain
  <1>2. Sound(live) /\ call[p].chain \in Chains
    BY IInvParts, CallFacts
  <1>3. Sound(r.table) /\ Kept(live, r.table)
    BY <1>2, NewChainSound
  <1>4. r.exit \in {0, 1}
    BY DEF NewChain, Reply
  <1>8. call[p].open
    BY ReadyFacts DEF CreateChain, Opening
  <1> HIDE DEF r
  <1>5. CASE Raise(p)
    BY <1>1, <1>3, <1>4, <1>5, CommandStep
  <1>6. CASE Goto(p, "check_return")
    BY <1>1, <1>3, <1>4, <1>6, <1>8, CommandStep DEF PCs, Ready, Opening
  <1>7. QED
    BY <1>1, <1>5, <1>6

LEMMA CheckReturnStep ==
  ASSUME IInv, NEW p \in Procs, CheckReturn(p)
  PROVE  IInv'
  <1> DEFINE r == CheckRule(live, ReturnRule(p))
  <1>1. PICK o \in Outcomes(r) :
          /\ Take(p, o)
          /\ \/ Raise(p)
             \/ Goto(p, "add_return")
             \/ HasIptablesRule(o.exit) = "yes" /\ Goto(p, "check_jump")
    BY DEF CheckReturn, CheckSetup
  <1>2. /\ r.exit \in {0, 1} /\ r.table = live /\ o.table = live
        /\ HasIptablesRule(o.exit) = "yes" =>
             Contains(live.rules[call[p].chain], Return)
    BY CheckOutcome DEF ReturnRule, Rule
  <1>3. Sound(r.table) /\ Kept(live, r.table) /\ live' = live
    BY <1>1, <1>2, KeptItself, IInvParts DEF Take
  <1>7. call[p].open
    BY ReadyFacts DEF CheckReturn, CheckSetup, Opening
  <1> HIDE DEF r
  <1>4. CASE Raise(p) \/ Goto(p, "add_return")
    BY <1>1, <1>2, <1>3, <1>4, <1>7, CommandStep DEF PCs, Ready, Opening
  <1>5. CASE HasIptablesRule(o.exit) = "yes" /\ Goto(p, "check_jump")
    BY <1>1, <1>2, <1>3, <1>5, <1>7, CommandStep DEF PCs, Ready, Opening
  <1>6. QED
    BY <1>1, <1>4, <1>5

LEMMA CheckJumpStep ==
  ASSUME IInv, NEW p \in Procs, CheckJump(p)
  PROVE  IInv'
  <1> DEFINE r == CheckRule(live, JumpRule(p))
  <1>1. PICK o \in Outcomes(r) :
          /\ Take(p, o)
          /\ \/ Raise(p)
             \/ Goto(p, "insert_jump")
             \/ HasIptablesRule(o.exit) = "yes" /\ Goto(p, "insert")
    BY DEF CheckJump, CheckSetup
  <1>2. /\ r.exit \in {0, 1} /\ r.table = live /\ o.table = live
        /\ HasIptablesRule(o.exit) = "yes" =>
             Contains(live.rules[Input], call[p].chain)
    BY CheckOutcome DEF JumpRule, Rule
  <1>3. Sound(r.table) /\ Kept(live, r.table) /\ live' = live
    BY <1>1, <1>2, KeptItself, IInvParts DEF Take
  <1>4. Contains(live.rules[call[p].chain], Return) /\ call[p].open
    BY ReadyFacts DEF CheckJump, CheckSetup, Opening
  <1> HIDE DEF r
  <1>5. CASE Raise(p) \/ Goto(p, "insert_jump")
    BY <1>1, <1>2, <1>3, <1>4, <1>5, CommandStep DEF PCs, Ready, Opening
  <1>6. CASE HasIptablesRule(o.exit) = "yes" /\ Goto(p, "insert")
    BY <1>1, <1>2, <1>3, <1>4, <1>6, CommandStep DEF PCs, Ready, Opening
  <1>7. QED
    BY <1>1, <1>5, <1>6

\* What RunTo goes on to, it goes on to after a command that succeeded.
LEMMA RunToFacts ==
  ASSUME IInv, NEW p \in Procs, NEW r, r.exit \in {0, 1}, NEW at, NEW next,
         RunTo(p, at, r, next)
  PROVE  /\ pc[p] = at
         /\ \E o \in Outcomes(r) :
              /\ Take(p, o)
              /\ \/ Raise(p)
                 \/ Goto(p, next) /\ r.exit = 0 /\ live' = r.table
  <1>1. PICK o \in Outcomes(r) :
          Take(p, o) /\ IF Succeeds(o.exit) THEN Goto(p, next) ELSE Raise(p)
    BY DEF RunTo
  <1>2. faults \in 0..MaxFaults
    BY DEF IInv, TypeOK
  <1>3. /\ o.exit \in ExitCodes
        /\ o.exit = 0 => r.exit = 0 /\ o.table = r.table
    BY <1>2, OutcomeFacts
  <1>4. Succeeds(o.exit) => r.exit = 0 /\ live' = r.table
    BY <1>1, <1>3, SucceedsFacts DEF Take
  <1>5. QED
    BY <1>1, <1>4 DEF RunTo

LEMMA AddReturnStep ==
  ASSUME IInv, NEW p \in Procs, AddReturn(p)
  PROVE  IInv'
  <1> DEFINE c == call[p].chain
             r == AppendRule(live, Rule(c, Return))
  <1>1. Sound(live) /\ c \in Chains
    BY IInvParts, CallFacts
  <1>2. /\ Sound(r.table) /\ Kept(live, r.table) /\ r.exit \in {0, 1}
        /\ r.exit = 0 => Contains(r.table.rules[c], Return)
    BY <1>1, AddReturnSound
  <1>7. call[p].open
    BY ReadyFacts DEF AddReturn, RunTo, Opening
  <1> HIDE DEF r
  <1>3. PICK o \in Outcomes(r) :
          /\ Take(p, o)
          /\ \/ Raise(p)
             \/ Goto(p, "check_jump") /\ r.exit = 0 /\ live' = r.table
    <2>1. RunTo(p, "add_return", r, "check_jump")
      BY DEF AddReturn, ReturnRule, r
    <2>2. QED
      BY <1>2, <2>1, RunToFacts
  <1>4. CASE Raise(p)
    BY <1>2, <1>3, <1>4, CommandStep
  <1>5. CASE Goto(p, "check_jump") /\ r.exit = 0 /\ live' = r.table
    BY <1>2, <1>3, <1>5, <1>7, CommandStep DEF PCs, Ready, Opening
  <1>6. QED
    BY <1>3, <1>4, <1>5

LEMMA InsertJumpStep ==
  ASSUME IInv, NEW p \in Procs, InsertJump(p)
  PROVE  IInv'
  <1> DEFINE c == call[p].chain
             r == InsertRule(live, Rule(Input, c))
  <1>1. Sound(live) /\ c \in Chains
    BY IInvParts, CallFacts
  <1>2. /\ Sound(r.table) /\ Kept(live, r.table) /\ r.exit \in {0, 1}
        /\ r.exit = 0 => Contains(r.table.rules[Input], c)
    BY <1>1, InsertJumpSound
  <1>3. Contains(live.rules[c], Return) /\ call[p].open
    BY ReadyFacts DEF InsertJump, RunTo, Opening
  <1> HIDE DEF r
  <1>4. PICK o \in Outcomes(r) :
          /\ Take(p, o)
          /\ \/ Raise(p)
             \/ Goto(p, "insert") /\ r.exit = 0 /\ live' = r.table
    <2>1. RunTo(p, "insert_jump", r, "insert")
      BY DEF InsertJump, JumpRule, r
    <2>2. QED
      BY <1>2, <2>1, RunToFacts
  <1>5. CASE Raise(p)
    BY <1>2, <1>4, <1>5, CommandStep
  <1>6. CASE Goto(p, "insert") /\ r.exit = 0 /\ live' = r.table
    <2>1. Contains(live'.rules[c], Return) /\ Contains(live'.rules[Input], c)
      BY <1>1, <1>2, <1>3, <1>6 DEF Kept
    <2>2. QED
      BY <1>2, <1>4, <1>6, <2>1, <1>3, CommandStep DEF PCs, Ready, Opening
  <1>7. QED
    BY <1>4, <1>5, <1>6

LEMMA InsertPortStep ==
  ASSUME IInv, NEW p \in Procs, InsertPort(p)
  PROVE  IInv'
  <1> DEFINE r == InsertRule(live, PortRule(p))
  <1>1. /\ Sound(live) /\ call[p].chain \in Chains /\ call[p].port \in Ports
        /\ Contains(live.rules[Input], call[p].chain)
    BY IInvParts, CallFacts, ReadyFacts DEF InsertPort, RunTo
  <1>2. Sound(r.table) /\ Kept(live, r.table)
    BY <1>1, InsertPortSound DEF PortRule
  <1>3. r.exit \in {0, 1}
    BY DEF InsertRule, Reply
  <1> HIDE DEF r
  <1>4. PICK o \in Outcomes(r) : Take(p, o) /\ (Raise(p) \/ Goto(p, "save"))
    <2>1. RunTo(p, "insert", r, "save")
      BY DEF InsertPort, r
    <2>2. QED
      BY <1>3, <2>1, RunToFacts
  <1>5. QED
    BY <1>2, <1>3, <1>4, CommandStep DEF PCs, Ready, Opening

LEMMA DeletePortStep ==
  ASSUME IInv, NEW p \in Procs, DeletePort(p)
  PROVE  IInv'
  <1> DEFINE r == DeleteRule(live, PortRule(p))
  <1>1. Sound(live) /\ call[p].chain \in Chains /\ call[p].port \in Ports
    BY IInvParts, CallFacts
  <1>2. Sound(r.table) /\ Kept(live, r.table)
    BY <1>1, DeletePortSound DEF PortRule
  <1>3. r.exit \in {0, 1}
    BY DEF DeleteRule, Reply
  <1> HIDE DEF r
  <1>4. PICK o \in Outcomes(r) : Take(p, o) /\ (Raise(p) \/ Goto(p, "save"))
    <2>1. RunTo(p, "delete", r, "save")
      BY DEF DeletePort, r
    <2>2. QED
      BY <1>3, <2>1, RunToFacts
  <1>5. QED
    BY <1>2, <1>3, <1>4, CommandStep DEF PCs, Ready, Opening
\* Any other step of one process: the tables it leaves are tables there
\* were, and it ends the call or goes on to "saving".
LEMMA QuietStep ==
  ASSUME IInv, NEW p \in Procs,
         UNCHANGED <<live, call>>,
         saved' \in {saved, snap[p]},
         \E label \in {"idle", "saving"} : pc' = [pc EXCEPT ![p] = label],
         \E table \in {live, NoTable} : snap' = [snap EXCEPT ![p] = table],
         \/ result' = result
         \/ \E a \in {"none", "ok", "error"} : result' = [result EXCEPT ![p] = a],
         faults' \in 0..MaxFaults,
         hit' \in [Procs -> BOOLEAN],
         owed' \in BOOLEAN,
         users' = users
  PROVE  IInv'
  <1>1. /\ ControlOK /\ Sound(live) /\ Sound(saved)
        /\ \A q \in Procs : Sound(snap[q])
        /\ \A q \in Procs : Established(q)
    BY IInvParts
  <1>2. live \in Tables /\ NoTable \in Tables
    BY <1>1, NoTableSound DEF Sound, TableOK
  <1>3. ControlOK'
    <2>1. pc' \in [Procs -> PCs]
      BY <1>1 DEF ControlOK, PCs
    <2>2. snap' \in [Procs -> Tables]
      BY <1>1, <1>2 DEF ControlOK
    <2>3. result' \in [Procs -> {"none", "ok", "error"}]
      BY <1>1 DEF ControlOK
    <2>4. QED
      BY <1>1, <2>1, <2>2, <2>3 DEF ControlOK
  <1>4. Sound(live') /\ Sound(saved')
    BY <1>1
  <1>5. \A q \in Procs : Sound(snap'[q])
    BY <1>1, NoTableSound DEF ControlOK
  <1>6. \A q \in Procs : Established(q)'
    BY <1>1 DEF ControlOK, Established, Ready, Opening
  <1>7. QED
    BY <1>3, <1>4, <1>5, <1>6 DEF IInv, TypeOK, ControlOK, Sound

\* One more fault is within the bound.
LEMMA SufferFacts ==
  ASSUME ControlOK, NEW p \in Procs, faults < MaxFaults, Suffer(p, 1)
  PROVE  faults' \in 0..MaxFaults /\ hit' \in [Procs -> BOOLEAN]
  <1>1. faults' \in 0..MaxFaults
    BY FaultsAssumption DEF ControlOK, Suffer
  <1>2. hit' \in [Procs -> BOOLEAN]
    BY DEF ControlOK, Suffer
  <1>3. QED
    BY <1>1, <1>2

LEMMA SaveStartStep ==
  ASSUME IInv, NEW p \in Procs, SaveStart(p)
  PROVE  IInv'
  <1>1. ControlOK
    BY IInvParts
  <1>2. CASE /\ snap' = [snap EXCEPT ![p] = live]
             /\ pc' = [pc EXCEPT ![p] = "saving"]
             /\ UNCHANGED <<live, saved, call, result, faults, hit, owed, users>>
    BY <1>1, <1>2, QuietStep DEF ControlOK
  <1>3. CASE /\ faults < MaxFaults /\ FaultCodes # {}
             /\ Suffer(p, 1)
             /\ UNCHANGED <<live, saved, call>>
             /\ Raise(p)
    <2>1. faults' \in 0..MaxFaults /\ hit' \in [Procs -> BOOLEAN]
      BY <1>1, <1>3, SufferFacts
    <2>2. owed' \in BOOLEAN
      BY <1>1, <1>3 DEF ControlOK, Raise
    <2>3. QED
      BY <1>3, <2>1, <2>2, QuietStep DEF Raise, Leave
  <1>4. QED
    BY <1>2, <1>3 DEF SaveStart

LEMMA SaveEndStep ==
  ASSUME IInv, NEW p \in Procs, SaveEnd(p)
  PROVE  IInv'
  <1>1. ControlOK
    BY IInvParts
  <1>2. CASE /\ saved' = snap[p]
             /\ Leave(p, "ok")
             /\ owed' = (owed /\ saved' # live)
             /\ UNCHANGED <<live, call, faults, hit>>
    <2>1. owed' \in BOOLEAN
      BY <1>1, <1>2 DEF ControlOK
    <2>2. QED
      BY <1>1, <1>2, <2>1, QuietStep DEF ControlOK, Leave
  <1>3. CASE /\ faults < MaxFaults /\ FaultCodes # {}
             /\ saved' \in {saved, snap[p]}
             /\ Suffer(p, 1)
             /\ UNCHANGED <<live, call>>
             /\ Raise(p)
    <2>1. faults' \in 0..MaxFaults /\ hit' \in [Procs -> BOOLEAN]
      BY <1>1, <1>3, SufferFacts
    <2>2. owed' \in BOOLEAN
      BY <1>1, <1>3 DEF ControlOK, Raise
    <2>3. QED
      BY <1>3, <2>1, <2>2, QuietStep DEF Raise, Leave
  <1>4. QED
    BY <1>2, <1>3 DEF SaveEnd

LEMMA CrashStep ==
  ASSUME IInv, NEW p \in Procs, Crash(p)
  PROVE  IInv'
  <1>1. ControlOK
    BY IInvParts
  <1>2. faults' \in 0..MaxFaults /\ hit' \in [Procs -> BOOLEAN]
    BY <1>1, SufferFacts DEF Crash
  <1>3. owed' \in BOOLEAN
    BY <1>1 DEF ControlOK, Crash
  <1>4. QED
    BY <1>2, <1>3, QuietStep DEF Crash, Leave

LEMMA RebootStep ==
  ASSUME IInv, Reboot
  PROVE  IInv'
  <1>1. /\ ControlOK /\ Sound(live) /\ Sound(saved)
        /\ \A q \in Procs : Sound(snap[q])
    BY IInvParts
  <1>2. Sound(live') /\ Sound(saved')
    BY <1>1 DEF Reboot
  <1>3. \A q \in Procs : Sound(snap'[q])
    BY NoTableSound DEF Reboot
  <1>4. ControlOK'
    <2>1. faults' \in 0..MaxFaults
      BY <1>1, FaultsAssumption DEF ControlOK, Reboot
    <2>2. NoTable \in Tables
      BY NoTableSound DEF Sound, TableOK
    <2>3. QED
      BY <1>1, <2>1, <2>2 DEF ControlOK, Reboot, PCs
  <1>5. \A q \in Procs : Established(q)'
    BY DEF Reboot, Established, Ready, Opening
  <1>6. QED
    BY <1>2, <1>3, <1>4, <1>5 DEF IInv, TypeOK, ControlOK, Sound

\* A host on which no port was opened yet is sound, and lists no port rule.
LEMMA InitialTableFacts ==
  ASSUME NEW existing \in SUBSET Chains,
         NEW ended \in SUBSET existing, NEW hooked \in SUBSET existing,
         NEW jumps \in SetToSeqs(hooked)
  PROVE  LET t == InitialTable(existing, ended, jumps)
         IN  /\ Sound(t)
             /\ \A c \in Chains, x \in Ports : ~Contains(t.rules[c], x)
  <1> DEFINE t == InitialTable(existing, ended, jumps)
  <1>1. jumps \in Seq(hooked)
    <2>1. Cardinality(hooked) \in Nat
      BY FiniteAssumption, FS_Subset, FS_CardinalityType
    <2>2. jumps \in [1..Cardinality(hooked) -> hooked]
      BY DEF SetToSeqs
    <2>3. QED
      BY <2>1, <2>2, SeqDef
  <1>2. jumps \in Seq(existing) /\ jumps \in Seq(Targets)
    BY <1>1, SeqMonotonic DEF Targets
  <1>3. /\ t.chains = existing
        /\ t.rules = [c \in AllChains |->
                        IF c = Input THEN jumps
                        ELSE IF c \in ended THEN <<Return>> ELSE <<>>]
        /\ t = [chains |-> t.chains, rules |-> t.rules]
    BY DEF InitialTable
  <1> HIDE DEF t
  <1>4. Input \in AllChains /\ Chains \subseteq AllChains /\ Input \notin Chains
        /\ Return \notin Ports
    BY NamesAssumption DEF AllChains
  <1>5. /\ t.rules[Input] = jumps
        /\ \A c \in Chains : t.rules[c] = IF c \in ended THEN <<Return>> ELSE <<>>
    BY <1>3, <1>4
  <1>6. /\ <<Return>> \in Seq(Targets) /\ <<>> \in Seq(Targets)
        /\ <<Return>> \in Seq(Ports \cup {Return})
        /\ <<>> \in Seq(Ports \cup {Return})
        /\ Len(<<Return>>) = 1 /\ <<Return>>[1] = Return /\ Len(<<>>) = 0
        /\ DOMAIN <<Return>> = 1..1 /\ DOMAIN <<>> = {}
    BY DEF Targets
  <1>7. TableOK(t)
    <2>1. t.rules \in [AllChains -> Seq(Targets)]
      BY <1>2, <1>3, <1>6
    <2>2. t \in Tables
      BY <1>3, <2>1 DEF Tables
    <2>3. QED
      BY <1>2, <1>3, <1>5, <1>6, <2>2 DEF TableOK
  <1>8. \A c \in Chains, x \in Ports : ~Contains(t.rules[c], x)
    BY <1>4, <1>5, <1>6 DEF Contains
  <1>9. Hooked(t)
    BY <1>8 DEF Hooked
  <1>10. Ordered(t)
    BY <1>4, <1>5, <1>6 DEF Ordered
  <1>11. QED
    BY <1>7, <1>8, <1>9, <1>10 DEF Sound, t

LEMMA InitHolds ==
  ASSUME Init
  PROVE  IInv
  <1>1. Sound(live)
    BY InitialTableFacts DEF Init
  <1>2. NoTable \in Tables
    BY NoTableSound DEF Sound, TableOK
  <1>3. ControlOK
    <2>1. faults \in 0..MaxFaults
      BY FaultsAssumption DEF Init
    <2>2. QED
      BY <1>2, <2>1 DEF Init, ControlOK, PCs
  <1>4. Sound(saved) /\ \A p \in Procs : Sound(snap[p])
    BY <1>1, NoTableSound DEF Init
  <1>5. \A p \in Procs : Established(p)
    BY DEF Init, Established, Ready, Opening
  <1>6. QED
    BY <1>1, <1>3, <1>4, <1>5, IInvParts

LEMMA StepHolds ==
  ASSUME IInv, [Next]_vars
  PROVE  IInv'
  <1>1. ASSUME NEW p \in Procs, Begin(p) PROVE IInv'
    BY <1>1, BeginStep
  <1>2. ASSUME NEW p \in Procs, CheckPort(p) PROVE IInv'
    BY <1>2, CheckPortStep
  <1>3. ASSUME NEW p \in Procs, CreateChain(p) PROVE IInv'
    BY <1>3, CreateChainStep
  <1>4. ASSUME NEW p \in Procs, CheckReturn(p) PROVE IInv'
    BY <1>4, CheckReturnStep
  <1>5. ASSUME NEW p \in Procs, AddReturn(p) PROVE IInv'
    BY <1>5, AddReturnStep
  <1>6. ASSUME NEW p \in Procs, CheckJump(p) PROVE IInv'
    BY <1>6, CheckJumpStep
  <1>7. ASSUME NEW p \in Procs, InsertJump(p) PROVE IInv'
    BY <1>7, InsertJumpStep
  <1>8. ASSUME NEW p \in Procs, InsertPort(p) PROVE IInv'
    BY <1>8, InsertPortStep
  <1>9. ASSUME NEW p \in Procs, DeletePort(p) PROVE IInv'
    BY <1>9, DeletePortStep
  <1>10. ASSUME NEW p \in Procs, SaveStart(p) PROVE IInv'
    BY <1>10, SaveStartStep
  <1>11. ASSUME NEW p \in Procs, SaveEnd(p) PROVE IInv'
    BY <1>11, SaveEndStep
  <1>12. ASSUME NEW p \in Procs, Crash(p) PROVE IInv'
    BY <1>12, CrashStep
  <1>13. CASE Reboot
    BY <1>13, RebootStep
  <1>14. CASE UNCHANGED vars
    BY <1>14 DEF vars, IInv, TypeOK, Established, Ready
  <1>15. QED
    BY <1>1, <1>2, <1>3, <1>4, <1>5, <1>6, <1>7, <1>8, <1>9, <1>10, <1>11,
       <1>12, <1>13, <1>14 DEF Next, Step

\* Whatever the processes, chains and ports, and wherever commands fail and
\* processes die, the tables stay well formed, every chain with a port rule
\* is hooked into INPUT, no RETURN shadows a port rule, and a process that
\* adds a port rule has set the chain up before.
THEOREM Inductive == Spec => []IInv
  <1>1. Init => IInv
    BY InitHolds
  <1>2. IInv /\ [Next]_vars => IInv'
    BY StepHolds
  <1>3. QED
    BY <1>1, <1>2, PTL DEF Spec

\* Type correctness.
THEOREM TypeCorrect == Spec => []TypeOK
  <1>1. IInv => TypeOK
    BY DEF IInv
  <1>2. QED
    BY <1>1, Inductive, PTL

\* In a sound table a packet meets every copy of a port rule.
LEMMA MetFacts ==
  ASSUME NEW t, Sound(t), NEW a \in Accesses
  PROVE  Met(t, a) = {i \in DOMAIN t.rules[a.chain] : t.rules[a.chain][i] = a.port}
  <1> DEFINE s == t.rules[a.chain]
  <1>1. a.chain \in Chains /\ a.port \in Ports
    BY DEF Accesses
  <1>2. /\ DOMAIN s = 1..Len(s) /\ Len(s) \in Nat
        /\ \A i, j \in 1..Len(s) : s[i] \in Ports /\ s[j] = Return => i < j
    BY <1>1, TableFacts
  <1>3. ASSUME NEW i \in DOMAIN s, s[i] = a.port
        PROVE  /\ Contains(t.rules[Input], a.chain)
               /\ \A j \in 1..i : s[j] # Return
    <2>1. Contains(s, a.port)
      BY <1>2, <1>3 DEF Contains
    <2>2. Contains(t.rules[Input], a.chain)
      BY <1>1, <2>1 DEF Sound, Hooked
    <2>3. \A j \in 1..i : s[j] # Return
      BY <1>1, <1>2, <1>3
    <2>4. QED
      BY <2>2, <2>3
  <1>4. QED
    BY <1>3 DEF Met

\* The port rules that are found are those in effect.
LEMMA SoundListed ==
  ASSUME NEW t, Sound(t)
  PROVE  Effective(t) = Listed(t)
  <1>1. ASSUME NEW a \in Accesses
        PROVE  Met(t, a) # {} <=> Contains(t.rules[a.chain], a.port)
    <2>1. DOMAIN t.rules[a.chain] = 1..Len(t.rules[a.chain])
      BY TableFacts DEF Accesses
    <2>2. Met(t, a) = {i \in DOMAIN t.rules[a.chain] : t.rules[a.chain][i] = a.port}
      BY MetFacts
    <2>3. QED
      BY <2>1, <2>2 DEF Contains
  <1>2. QED
    BY <1>1 DEF Effective, Listed

\* A port rule that -C finds admits traffic, in the kernel and in the file.
THEOREM ListedEffective == Spec => []ListedIsEffective
  <1>1. IInv => ListedIsEffective
    BY IInvParts, SoundListed DEF ListedIsEffective
  <1>2. QED
    BY <1>1, Inductive, PTL
=============================================================================
