------------------------------ MODULE TauProofs ------------------------------
(***************************************************************************)
(* The command line, for any arguments in any number and order: options    *)
(* are taken out of it wherever they stand, and the rest is the command.   *)
(*                                                                         *)
(* main takes the options out one at a time, and every time the places of  *)
(* the words behind it change.  The invariant is therefore about the       *)
(* places in the command line as it was given (Kept) that the words left   *)
(* come from, in their order (Embeds).                                     *)
(***************************************************************************)
EXTENDS Tau, TLAPS, FiniteSetTheorems, SequenceTheorems, WellFoundedInduction

---------------------------------------------------------------------------
(* Words that come from some places of a line, in their order.             *)

Embeds(h, words, line, K) ==
    /\ h \in [1..Len(words) -> K]
    /\ \A i, j \in 1..Len(words) : i < j => h[i] < h[j]
    /\ \A p \in K : \E i \in 1..Len(words) : h[i] = p
    /\ \A i \in 1..Len(words) : words[i] = line[h[i]]

\* The places when the word n is taken out.
Without(h, n, len) == [i \in 1..(len - 1) |-> IF i < n THEN h[i] ELSE h[i + 1]]

LEMMA Removed ==
    ASSUME NEW S, NEW words \in Seq(S), NEW n \in 1..Len(words)
    PROVE  /\ RemoveAt(words, n) \in Seq(S)
           /\ Len(RemoveAt(words, n)) = Len(words) - 1
           /\ \A i \in 1..(Len(words) - 1) :
                  RemoveAt(words, n)[i] = IF i < n THEN words[i] ELSE words[i + 1]
<1>. DEFINE front == SubSeq(words, 1, n - 1)
            back == SubSeq(words, n + 1, Len(words))
<1>1. Len(words) \in Nat /\ n \in Nat /\ 1 <= n /\ n <= Len(words)
  OBVIOUS
<1>2. front \in Seq(S) /\ Len(front) = n - 1 /\ \A i \in 1..(n - 1) : front[i] = words[i]
  <2>1. \A i \in 1..(n - 1) : words[i] \in S
    BY <1>1
  <2>2. /\ front \in Seq(S)
        /\ Len(front) = IF 1 <= n - 1 THEN (n - 1) - 1 + 1 ELSE 0
        /\ \A i \in 1..((n - 1) - 1 + 1) : front[i] = words[1 + i - 1]
    <3>1. 1 \in Int /\ n - 1 \in Int
      BY <1>1
    <3>. QED BY <2>1, <3>1, SubSeqProperties
  <2>. HIDE DEF front
  <2>. QED BY <1>1, <2>2
<1>3. back \in Seq(S) /\ Len(back) = Len(words) - n /\ \A i \in 1..(Len(words) - n) : back[i] = words[n + i]
  <2>1. \A i \in (n + 1)..Len(words) : words[i] \in S
    BY <1>1
  <2>2. /\ back \in Seq(S)
        /\ Len(back) = IF n + 1 <= Len(words) THEN Len(words) - (n + 1) + 1 ELSE 0
        /\ \A i \in 1..(Len(words) - (n + 1) + 1) : back[i] = words[(n + 1) + i - 1]
    <3>1. n + 1 \in Int /\ Len(words) \in Int
      BY <1>1
    <3>. QED BY <2>1, <3>1, SubSeqProperties
  <2>. HIDE DEF back
  <2>. QED BY <1>1, <2>2
<1>4. RemoveAt(words, n) = front \o back
  BY DEF RemoveAt
<1>. HIDE DEF front, back
<1>5. /\ front \o back \in Seq(S)
      /\ Len(front \o back) = Len(words) - 1
      /\ \A i \in 1..(Len(words) - 1) :
             (front \o back)[i] = IF i <= Len(front) THEN front[i] ELSE back[i - Len(front)]
  <2>1. /\ front \o back \in Seq(S)
        /\ Len(front \o back) = Len(front) + Len(back)
        /\ \A i \in 1..(Len(front) + Len(back)) :
             (front \o back)[i] = IF i <= Len(front) THEN front[i] ELSE back[i - Len(front)]
    BY <1>2, <1>3, ConcatProperties
  <2>2. Len(front) + Len(back) = Len(words) - 1
    BY <1>1, <1>2, <1>3
  <2>. QED BY <2>1, <2>2
<1>6. ASSUME NEW i \in 1..(Len(words) - 1)
      PROVE  (front \o back)[i] = IF i < n THEN words[i] ELSE words[i + 1]
  <2>1. CASE i < n
    BY <1>1, <1>2, <1>5, <2>1
  <2>2. CASE ~(i < n)
    <3>1. i - (n - 1) \in 1..(Len(words) - n) /\ n + (i - (n - 1)) = i + 1
      BY <1>1, <2>2
    <3>2. back[i - (n - 1)] = words[i + 1]
      BY <1>3, <3>1
    <3>. QED BY <1>1, <1>2, <1>5, <2>2, <3>2
  <2>. QED BY <2>1, <2>2
<1>. QED BY <1>4, <1>5, <1>6

\* A word is taken out together with its place.
LEMMA EmbedsLess ==
    ASSUME NEW S, NEW words \in Seq(S), NEW line, NEW K, K \subseteq Nat, NEW h,
           Embeds(h, words, line, K), NEW n \in 1..Len(words)
    PROVE  /\ h[n] \in K
           /\ Embeds(Without(h, n, Len(words)), RemoveAt(words, n), line, K \ {h[n]})
<1>. DEFINE l == Len(words)
            g == Without(h, n, l)
            new == RemoveAt(words, n)
<1>1. /\ h \in [1..l -> K] /\ l \in Nat /\ n \in 1..l
      /\ \A i, j \in 1..l : i < j => h[i] < h[j]
      /\ \A i \in 1..l : words[i] = line[h[i]] /\ h[i] \in Nat
      /\ \A p \in K : \E i \in 1..l : h[i] = p
  <2>1. l \in Nat
    OBVIOUS
  <2>2. \A i \in 1..l : h[i] \in K
    BY DEF Embeds
  <2>. QED BY <2>1, <2>2 DEF Embeds
<1>2. /\ Len(new) = l - 1
      /\ \A i \in 1..(l - 1) : new[i] = IF i < n THEN words[i] ELSE words[i + 1]
  BY Removed
<1>3. \A i \in 1..(l - 1) : g[i] = IF i < n THEN h[i] ELSE h[i + 1]
  BY DEF Without
<1>4. DOMAIN g = 1..(l - 1) /\ g = [i \in 1..(l - 1) |-> g[i]]
  BY DEF Without
<1>. HIDE DEF l, g, new
<1>5. ASSUME NEW i \in 1..l, NEW j \in 1..l, h[i] = h[j] PROVE i = j
  <2>1. ~(i < j) /\ ~(j < i)
    BY <1>1, <1>5
  <2>. QED BY <2>1
<1>6. ASSUME NEW i \in 1..(l - 1)
      PROVE  /\ g[i] \in K \ {h[n]} /\ new[i] = line[g[i]]
  <2>1. CASE i < n
    <3>1. i \in 1..l /\ i # n
      BY <1>1, <2>1
    <3>. QED BY <1>1, <1>2, <1>3, <1>5, <2>1, <3>1
  <2>2. CASE ~(i < n)
    <3>1. i + 1 \in 1..l /\ i + 1 # n
      BY <1>1, <2>2
    <3>. QED BY <1>1, <1>2, <1>3, <1>5, <2>2, <3>1
  <2>. QED BY <2>1, <2>2
<1>7. ASSUME NEW i \in 1..(l - 1), NEW j \in 1..(l - 1), i < j
      PROVE  g[i] < g[j]
  <2>1. i \in 1..l /\ i + 1 \in 1..l /\ j \in 1..l /\ j + 1 \in 1..l
    BY <1>1
  <2>2. i < j + 1 /\ i + 1 < j + 1
    BY <1>7
  <2>3. h[i] < h[j] /\ h[i] < h[j + 1] /\ h[i + 1] < h[j + 1]
    BY <1>1, <1>7, <2>1, <2>2
  <2>4. j < n => i < n
    BY <1>1, <1>7
  <2>. QED BY <1>3, <2>3, <2>4
<1>8. ASSUME NEW p \in K \ {h[n]}
      PROVE  \E i \in 1..(l - 1) : g[i] = p
  <2>1. PICK i \in 1..l : h[i] = p
    BY <1>1
  <2>2. i # n
    BY <2>1
  <2>3. CASE i < n
    <3>1. i \in 1..(l - 1) /\ g[i] = p
      BY <1>1, <1>3, <2>1, <2>3
    <3>. QED BY <3>1
  <2>4. CASE i > n
    <3>1. i - 1 \in 1..(l - 1) /\ ~(i - 1 < n) /\ (i - 1) + 1 = i
      BY <1>1, <2>4
    <3>2. g[i - 1] = p
      BY <1>3, <2>1, <3>1
    <3>. QED BY <3>1, <3>2
  <2>. QED BY <1>1, <2>2, <2>3, <2>4
<1>9. g \in [1..(l - 1) -> K \ {h[n]}]
  BY <1>4, <1>6
<1>10. Embeds(g, new, line, K \ {h[n]})
  BY <1>2, <1>6, <1>7, <1>8, <1>9 DEF Embeds
<1>. QED BY <1>1, <1>10 DEF g, new, l

\* The words are determined by the places they come from.
Picked(line, K) == [k \in 1..Cardinality(K) |->
                        line[CHOOSE i \in K : Cardinality({j \in K : j <= i}) = k]]

LEMMA EmbedsOnly ==
    ASSUME NEW S, NEW words \in Seq(S), NEW line, NEW K, K \subseteq Nat, NEW h,
           Embeds(h, words, line, K)
    PROVE  words = Picked(line, K)
<1>. DEFINE l == Len(words)
            Rank(i) == Cardinality({j \in K : j <= i})
            Pick(k) == CHOOSE i \in K : Rank(i) = k
            picked == [k \in 1..Cardinality(K) |-> line[Pick(k)]]
<1>1. /\ h \in [1..l -> K] /\ l \in Nat
      /\ \A i, j \in 1..l : i < j => h[i] < h[j]
      /\ \A i \in 1..l : words[i] = line[h[i]] /\ h[i] \in Nat
      /\ \A p \in K : \E i \in 1..l : h[i] = p
  <2>1. l \in Nat
    OBVIOUS
  <2>2. \A i \in 1..l : h[i] \in K
    BY DEF Embeds
  <2>. QED BY <2>1, <2>2 DEF Embeds
<1>. HIDE DEF l
<1>2. ASSUME NEW k \in 0..l PROVE Cardinality({h[i] : i \in 1..k}) = k
  <2>. DEFINE f == [i \in 1..k |-> h[i]]
              J == {h[i] : i \in 1..k}
  <2>1. \A i, j \in 1..k : h[i] = h[j] => i = j
    <3>1. ASSUME NEW i \in 1..k, NEW j \in 1..k, h[i] = h[j] PROVE i = j
      <4>1. i \in 1..l /\ j \in 1..l
        BY <1>1
      <4>2. ~(i < j) /\ ~(j < i)
        BY <1>1, <3>1, <4>1
      <4>. QED BY <4>2
    <3>. QED BY <3>1
  <2>2. f \in Bijection(1..k, J)
    BY <2>1 DEF Bijection, Injection, Surjection, IsInjective
  <2>3. ExistsBijection(1..k, J)
    BY <2>2 DEF ExistsBijection
  <2>4. IsFiniteSet(1..k) /\ Cardinality(1..k) = k
    <3>1. 1 \in Int /\ k \in Int
      OBVIOUS
    <3>2. IsFiniteSet(1..k) /\ Cardinality(1..k) = IF 1 > k THEN 0 ELSE k - 1 + 1
      BY <3>1, FS_Interval
    <3>. QED BY <3>2
  <2>. QED BY <2>3, <2>4, FS_Bijection
<1>3. Cardinality(K) = l
  <2>1. K = {h[i] : i \in 1..l}
    BY <1>1
  <2>2. l \in 0..l
    BY <1>1
  <2>. QED BY <1>2, <2>1, <2>2
<1>4. ASSUME NEW k \in 1..l PROVE Rank(h[k]) = k
  <2>1. {j \in K : j <= h[k]} = {h[i] : i \in 1..k}
    <3>1. ASSUME NEW j \in K, j <= h[k] PROVE j \in {h[i] : i \in 1..k}
      <4>1. PICK i \in 1..l : h[i] = j
        BY <1>1
      <4>2. ~(k < i)
        BY <1>1, <3>1, <4>1
      <4>3. i \in 1..k
        BY <4>2
      <4>. QED BY <4>1, <4>3
    <3>2. ASSUME NEW i \in 1..k PROVE h[i] \in K /\ h[i] <= h[k]
      <4>1. i \in 1..l /\ (i < k \/ i = k)
        BY <1>1
      <4>. QED BY <1>1, <4>1
    <3>. QED BY <3>1, <3>2
  <2>2. k \in 0..l
    BY <1>1
  <2>. QED BY <1>2, <2>1, <2>2
<1>5. ASSUME NEW k \in 1..l PROVE Pick(k) = h[k]
  <2>1. h[k] \in K /\ Rank(h[k]) = k
    BY <1>1, <1>4
  <2>2. ASSUME NEW i \in K, Rank(i) = k PROVE i = h[k]
    <3>1. PICK m \in 1..l : h[m] = i
      BY <1>1
    <3>2. m = k
      BY <1>4, <2>2, <3>1
    <3>. QED BY <3>1, <3>2
  <2>. HIDE DEF Rank
  <2>. QED BY <2>1, <2>2
<1>6. picked = [k \in 1..l |-> line[h[k]]]
  <2>. HIDE DEF Pick
  <2>. QED BY <1>3, <1>5
<1>7. words = [k \in 1..l |-> line[h[k]]]
  BY <1>1 DEF l
<1>8. picked = Picked(line, K)
  BY DEF Picked
<1>. QED BY <1>6, <1>7, <1>8

---------------------------------------------------------------------------
(* What is left of the command line.                                       *)

\* A word is found where it stands, if it stands anywhere.
LEMMA Found ==
    ASSUME args \in Seq(STRING), NEW word
    PROVE  \/ Find(word) = 0 /\ ~Contains(args, word)
           \/ Find(word) \in 1..Len(args) /\ args[Find(word)] = word /\ Contains(args, word)
<1>. DEFINE found == {n \in DOMAIN args : args[n] = word}
            least == CHOOSE n \in found : \A m \in found : n <= m
<1>1. DOMAIN args = 1..Len(args) /\ Len(args) \in Nat
  OBVIOUS
<1>2. Find(word) = IF found = {} THEN 0 ELSE least
  BY DEF Find
<1>3. CASE found = {}
  BY <1>1, <1>2, <1>3 DEF Contains
<1>4. CASE found # {}
  <2>0. found \subseteq Nat
    BY <1>1
  <2>1. PICK n \in found : \A m \in found : ~(<<m, n>> \in OpToRel(<, Nat))
    <3>. HIDE DEF found
    <3>. QED BY <1>4, <2>0, NatLessThanWellFounded, WFMin
  <2>2. ASSUME NEW m \in found PROVE n <= m
    <3>. HIDE DEF found
    <3>1. ~(<<m, n>> \in OpToRel(<, Nat)) /\ m \in Nat /\ n \in Nat
      BY <2>0, <2>1
    <3>. QED BY <3>1 DEF OpToRel
  <2>3. least \in found
    BY <2>2
  <2>. HIDE DEF least
  <2>. QED BY <1>1, <1>2, <1>4, <2>3 DEF Contains
<1>. QED BY <1>3, <1>4

\* The options that are taken out already, and the places of the words that
\* are left when some are: a level takes its number along.
Gone == IF at = "level" THEN {} ELSE Options \ ToSet(left)
Kept(gone) == {i \in DOMAIN argv : /\ argv[i] \notin gone
                                   /\ i - 1 \in LevelAt => "--level" \notin gone}

\* main takes options out, or has none left to take.
Taking == at \in {"flags", "unittest", "commands"}

TypeInv ==
    /\ argv \in Seq(STRING) /\ args \in Seq(STRING)
    /\ left \in Seq(ToSet(Flags))
    /\ \A i, j \in 1..Len(left) : left[i] = left[j] => i = j

Started == at = "level" => /\ args = argv /\ left = Flags
                           /\ level = 1 /\ flags = FlagsSet

LevelRight == level = IF LevelAt = {} THEN 1
                      ELSE Number[argv[1 + CHOOSE i \in LevelAt : TRUE]]

FlagsRight ==
    /\ flags \in [ToSet(Flags) -> BOOLEAN]
    /\ \A f \in ToSet(Flags) :
          (flags[f] # FlagsSet[f]) <=> Contains(argv, f) /\ f \notin ToSet(left)

InPlace == \E h : Embeds(h, args, argv, Kept(Gone))

IInv ==
    /\ TypeInv
    /\ Started
    /\ at \in {"unittest", "commands"} => left = <<>>
    /\ Taking /\ PlainlySaid => InPlace /\ FlagsRight /\ LevelRight

\* The flags are distinct, and none is --level.
LEMMA SixFlags ==
    /\ ToSet(Flags) = {"--base", "--no-deref", "--nocolor", "--pause", "--quads", "--shorten"}
    /\ Flags \in Seq(ToSet(Flags))
    /\ \A i, j \in 1..Len(Flags) : Flags[i] = Flags[j] => i = j
    /\ "--level" \notin ToSet(Flags)
    /\ FlagsSet \in [ToSet(Flags) -> BOOLEAN]
<1>. DEFINE names == {"--base", "--no-deref", "--nocolor", "--pause", "--quads", "--shorten"}
<1>1. Len(Flags) = 6 /\ DOMAIN Flags = 1..6 /\ Flags \in Seq(names)
  BY DEF Flags
<1>2. /\ Flags[1] = "--base" /\ Flags[2] = "--no-deref" /\ Flags[3] = "--nocolor"
      /\ Flags[4] = "--pause" /\ Flags[5] = "--quads" /\ Flags[6] = "--shorten"
  BY DEF Flags
<1>3. ToSet(Flags) = names
  BY <1>1, <1>2 DEF ToSet
<1>4. \A i, j \in 1..6 : Flags[i] = Flags[j] => i = j
  BY <1>2
<1>. QED BY <1>1, <1>3, <1>4 DEF FlagsSet

\* A line that says things plainly has an option in one place, never behind
\* --level, and what is behind --level is no option.
LEMMA Plain ==
    ASSUME argv \in Seq(STRING), PlainlySaid
    PROVE  /\ \A i, j \in DOMAIN argv : argv[i] = argv[j] /\ argv[i] \in Options => i = j
           /\ \A i \in LevelAt : /\ i \in DOMAIN argv /\ i + 1 \in DOMAIN argv
                                 /\ argv[i] = "--level"
                                 /\ argv[i + 1] \in DOMAIN Number
                                 /\ argv[i + 1] \notin Options
           /\ \A i \in DOMAIN argv : argv[i] \in Options => i - 1 \notin LevelAt
<1>1. DOMAIN argv = 1..Len(argv) /\ Len(argv) \in Nat
  OBVIOUS
<1>2. \A i, j \in DOMAIN argv : argv[i] = argv[j] /\ argv[i] \in Options => i = j
  BY DEF PlainlySaid
<1>3. ASSUME NEW i \in LevelAt
      PROVE  /\ i \in DOMAIN argv /\ i + 1 \in DOMAIN argv
             /\ argv[i] = "--level"
             /\ argv[i + 1] \in DOMAIN Number
             /\ argv[i + 1] \notin Options
  <2>1. i \in DOMAIN argv /\ argv[i] = "--level" /\ i < Len(argv) /\ argv[i + 1] \in DOMAIN Number
    BY DEF LevelAt, PlainlySaid
  <2>. QED BY <1>1, <2>1, ArgsAssumption
<1>4. ASSUME NEW i \in DOMAIN argv, argv[i] \in Options PROVE i - 1 \notin LevelAt
  <2>1. (i - 1) + 1 = i
    BY <1>1
  <2>. QED BY <1>3, <1>4, <2>1
<1>. QED BY <1>2, <1>3, <1>4

LEMMA IInvInit == TauInit => IInv
<1>. SUFFICES ASSUME TauInit PROVE IInv
  OBVIOUS
<1>1. argv \in Seq(STRING)
  <2>1. job \in Jobs /\ argv \in ArgsFor(job)
    BY DEF TauInit, Init
  <2>. QED BY <2>1, ArgsAssumption
<1>. QED BY <1>1, SixFlags DEF TauInit, IInv, TypeInv, Started, Taking

---------------------------------------------------------------------------
(* The steps.                                                              *)

\* Before anything is taken out, every word is in its own place.
LEMMA Given ==
    ASSUME argv \in Seq(STRING)
    PROVE  Embeds([i \in 1..Len(argv) |-> i], argv, argv, DOMAIN argv)
<1>1. DOMAIN argv = 1..Len(argv) /\ Len(argv) \in Nat
  OBVIOUS
<1>. QED BY <1>1 DEF Embeds

LEMMA LevelStep == IInv /\ LevelTaken => IInv'
<1>. SUFFICES ASSUME IInv, LevelTaken PROVE IInv'
  OBVIOUS
<1>. DEFINE n == Find("--level")
            id == [i \in 1..Len(argv) |-> i]
            all == DOMAIN argv
<1>1. /\ argv \in Seq(STRING) /\ args = argv /\ left = Flags /\ level = 1 /\ flags = FlagsSet
      /\ argv' = argv /\ left' = left /\ flags' = flags /\ at = "level" /\ at' = "flags"
  BY DEF IInv, TypeInv, Started, LevelTaken
<1>2. all = 1..Len(argv) /\ Len(argv) \in Nat
  BY <1>1
<1>3. Embeds(id, argv, argv, all)
  BY <1>1, Given
<1>4. /\ Gone' = {"--level"} /\ Taking'
      /\ LevelAt' = LevelAt /\ PlainlySaid' = PlainlySaid
  <2>1. Options \ ToSet(Flags) = {"--level"}
    BY SixFlags DEF Options
  <2>. QED BY <1>1, <2>1 DEF Gone, Taking, LevelAt, PlainlySaid
<1>5. Kept(Gone)' = {i \in all : argv[i] # "--level" /\ i - 1 \notin LevelAt}
  BY <1>1, <1>4 DEF Kept
<1>6. PlainlySaid => FlagsRight'
  <2>1. FlagsSet \in [ToSet(Flags) -> BOOLEAN]
    BY SixFlags
  <2>. QED BY <1>1, <2>1, SixFlags DEF FlagsRight
<1>7. CASE n = 0
  <2>1. args' = args /\ level' = level /\ LevelAt = {}
    <3>1. ~Contains(args, "--level")
      BY <1>1, <1>7, Found
    <3>. QED BY <1>1, <1>2, <1>7, <3>1 DEF LevelTaken, LevelAt, Contains
  <2>2. Kept(Gone)' = all
    BY <1>5, <2>1 DEF LevelAt
  <2>3. InPlace'
    BY <1>1, <1>3, <2>1, <2>2 DEF InPlace
  <2>4. LevelRight'
    BY <1>1, <1>4, <2>1 DEF LevelRight
  <2>5. TypeInv' /\ Started' /\ at' \notin {"unittest", "commands"}
    BY <1>1, <2>1, SixFlags DEF TypeInv, Started
  <2>. QED BY <1>4, <1>6, <2>3, <2>4, <2>5 DEF IInv
<1>8. CASE n # 0
  <2>1. n \in 1..Len(argv) /\ argv[n] = "--level" /\ n < Len(argv)
    BY <1>1, <1>8, Found DEF LevelTaken
  <2>2. /\ level' = Number[argv[n + 1]]
        /\ args' = RemoveAt(RemoveAt(argv, n + 1), n)
    BY <1>1, <1>8 DEF LevelTaken
  <2>. HIDE DEF n, id, all
  <2>. DEFINE once == RemoveAt(argv, n + 1)
              h1 == Without(id, n + 1, Len(argv))
              h2 == Without(h1, n, Len(once))
  <2>3. n + 1 \in 1..Len(argv) /\ id[n + 1] = n + 1 /\ id[n] = n
    BY <1>2, <2>1 DEF id
  <2>4. once \in Seq(STRING) /\ Len(once) = Len(argv) - 1
    BY <1>1, <2>3, Removed
  <2>5. all \subseteq Nat
    BY <1>2
  <2>6. Embeds(h1, once, argv, all \ {n + 1})
    BY <1>1, <1>3, <2>3, <2>5, EmbedsLess
  <2>7. n \in 1..Len(once) /\ h1[n] = n
    BY <1>2, <2>1, <2>3, <2>4 DEF Without
  <2>8. args' \in Seq(STRING)
    BY <2>2, <2>4, <2>7, Removed
  <2>9. Embeds(h2, args', argv, (all \ {n + 1}) \ {n})
    <3>1. all \ {n + 1} \subseteq Nat
      BY <2>5
    <3>. HIDE DEF once, h1
    <3>2. Embeds(h2, RemoveAt(once, n), argv, (all \ {n + 1}) \ {h1[n]})
      BY <2>4, <2>6, <2>7, <3>1, EmbedsLess
    <3>. QED BY <2>2, <2>7, <3>2 DEF once
  <2>10. ASSUME PlainlySaid
         PROVE  LevelAt = {n} /\ Kept(Gone)' = (all \ {n + 1}) \ {n}
    <3>1. n \in LevelAt
      BY <1>2, <2>1 DEF LevelAt, all
    <3>2. ASSUME NEW i \in LevelAt PROVE i = n
      BY <1>1, <2>10, <3>1, Plain DEF Options
    <3>3. LevelAt = {n}
      BY <3>1, <3>2
    <3>4. \A i \in all : i - 1 = n <=> i = n + 1
      BY <1>2, <2>1
    <3>5. \A i \in all : argv[i] = "--level" <=> i = n
      BY <2>1, <3>3 DEF LevelAt, all
    <3>. QED BY <1>5, <3>3, <3>4, <3>5
  <2>11. PlainlySaid => InPlace'
    <3>. HIDE DEF h2
    <3>. QED BY <1>1, <2>9, <2>10 DEF InPlace
  <2>12. PlainlySaid => LevelRight'
    <3>1. LevelAt = {n} => (CHOOSE i \in LevelAt : TRUE) = n /\ LevelAt # {}
      OBVIOUS
    <3>2. 1 + n = n + 1
      BY <2>1, <1>2
    <3>. QED BY <1>1, <1>4, <2>2, <2>10, <3>1, <3>2 DEF LevelRight
  <2>13. TypeInv' /\ Started' /\ at' \notin {"unittest", "commands"}
    BY <1>1, <2>8, SixFlags DEF TypeInv, Started
  <2>. QED BY <1>4, <1>6, <2>11, <2>12, <2>13 DEF IInv
<1>. QED BY <1>7, <1>8

LEMMA FlagStep == IInv /\ FlagTaken => IInv'
<1>. SUFFICES ASSUME IInv, FlagTaken PROVE IInv'
  OBVIOUS
<1>. DEFINE f == Head(left)
            n == Find(f)
<1>1. /\ argv \in Seq(STRING) /\ args \in Seq(STRING) /\ left \in Seq(ToSet(Flags)) /\ left # <<>>
      /\ \A i, j \in 1..Len(left) : left[i] = left[j] => i = j
      /\ argv' = argv /\ left' = Tail(left) /\ level' = level /\ at = "flags" /\ at' = at
  BY DEF IInv, TypeInv, FlagTaken
<1>2. /\ left' \in Seq(ToSet(Flags))
      /\ \A i, j \in 1..Len(left') : left'[i] = left'[j] => i = j
      /\ f \in ToSet(left) /\ f \in ToSet(Flags)
      /\ ToSet(left') = ToSet(left) \ {f}
      /\ ToSet(left) \subseteq ToSet(Flags)
  <2>1. /\ Len(left) \in Nat /\ Len(left) >= 1 /\ DOMAIN left = 1..Len(left) /\ f = left[1]
        /\ left' \in Seq(ToSet(Flags)) /\ Len(left') = Len(left) - 1
        /\ DOMAIN left' = 1..Len(left')
        /\ \A i \in 1..Len(left') : left'[i] = left[i + 1]
    BY <1>1
  <2>2. \A i, j \in 1..Len(left') : left'[i] = left'[j] => i = j
    <3>1. ASSUME NEW i \in 1..Len(left'), NEW j \in 1..Len(left'), left'[i] = left'[j]
          PROVE  i = j
      <4>1. i + 1 \in 1..Len(left) /\ j + 1 \in 1..Len(left)
        BY <2>1
      <4>2. i + 1 = j + 1
        BY <1>1, <2>1, <3>1, <4>1
      <4>. QED BY <4>2
    <3>. QED BY <3>1
  <2>3. ASSUME NEW g PROVE g \in ToSet(left') <=> g \in ToSet(left) /\ g # f
    <3>1. ASSUME NEW i \in 1..Len(left') PROVE left'[i] \in ToSet(left) /\ left'[i] # f
      <4>1. i + 1 \in 1..Len(left) /\ 1 \in 1..Len(left) /\ i + 1 # 1
        BY <2>1
      <4>. QED BY <1>1, <2>1, <4>1 DEF ToSet
    <3>2. ASSUME NEW i \in 1..Len(left), left[i] # f PROVE left[i] \in ToSet(left')
      <4>1. i - 1 \in 1..Len(left') /\ (i - 1) + 1 = i
        BY <2>1, <3>2
      <4>. QED BY <2>1, <4>1 DEF ToSet
    <3>. QED BY <2>1, <3>1, <3>2 DEF ToSet
  <2>4. \A i \in 1..Len(left) : left[i] \in ToSet(Flags)
    BY <1>1
  <2>5. f \in ToSet(left) /\ ToSet(left) \subseteq ToSet(Flags)
    <3>1. 1 \in DOMAIN left
      BY <2>1
    <3>2. ToSet(left) = {left[i] : i \in 1..Len(left)}
      BY <2>1 DEF ToSet
    <3>. QED BY <2>1, <2>4, <3>1, <3>2
  <2>. HIDE DEF f
  <2>6. ToSet(left') = ToSet(left) \ {f}
    BY <2>3
  <2>. QED BY <2>1, <2>2, <2>5, <2>6
<1>3. /\ args' \in Seq(STRING)
      /\ n # 0 => n \in 1..Len(args) /\ args[n] = f /\ args' = RemoveAt(args, n)
  <2>1. IF n = 0 THEN args' = args ELSE args' = RemoveAt(args, n)
    BY <1>1 DEF FlagTaken
  <2>2. n # 0 => n \in 1..Len(args) /\ args[n] = f
    BY <1>1, Found
  <2>. HIDE DEF n, f
  <2>3. n # 0 => RemoveAt(args, n) \in Seq(STRING)
    BY <1>1, <2>2, Removed
  <2>. QED BY <1>1, <2>1, <2>2, <2>3
<1>4. TypeInv' /\ Started' /\ at' \notin {"unittest", "commands"}
  BY <1>1, <1>2, <1>3 DEF TypeInv, Started
<1>5. ASSUME PlainlySaid PROVE InPlace' /\ FlagsRight' /\ LevelRight'
  <2>1. InPlace /\ FlagsRight /\ LevelRight
    BY <1>1, <1>5 DEF IInv, Taking
  <2>2. LevelAt' = LevelAt /\ LevelRight'
    BY <1>1, <2>1 DEF LevelAt, LevelRight
  <2>3. /\ "--level" \in Gone /\ "--level" \in Gone' /\ f \notin Gone /\ Gone' = Gone \cup {f}
        /\ f \in Options
    BY <1>1, <1>2, SixFlags DEF Gone, Options
  <2>4. Kept(Gone)' = {i \in Kept(Gone) : argv[i] # f}
    BY <1>1, <2>2, <2>3 DEF Kept
  <2>5. PICK h : Embeds(h, args, argv, Kept(Gone))
    BY <2>1 DEF InPlace
  <2>6. /\ Kept(Gone) \subseteq DOMAIN argv /\ Kept(Gone) \subseteq Nat
        /\ DOMAIN argv = 1..Len(argv) /\ Len(argv) \in Nat
    BY <1>1 DEF Kept
  <2>7. \A i \in DOMAIN argv : argv[i] = f => i \in Kept(Gone)
    BY <1>1, <1>5, <2>3, Plain DEF Kept
  <2>8. \A i \in 1..Len(args) : h[i] \in Kept(Gone) /\ args[i] = argv[h[i]]
    BY <2>5 DEF Embeds
  <2>9. \A p \in Kept(Gone) : \E i \in 1..Len(args) : h[i] = p
    BY <2>5 DEF Embeds
  <2>10. Contains(argv, f) <=> Contains(args, f)
    <3>1. ASSUME NEW i \in 1..Len(argv), argv[i] = f PROVE \E k \in 1..Len(args) : args[k] = f
      <4>1. PICK k \in 1..Len(args) : h[k] = i
        BY <2>6, <2>7, <2>9, <3>1
      <4>. QED BY <2>8, <3>1, <4>1
    <3>2. ASSUME NEW k \in 1..Len(args), args[k] = f PROVE \E i \in 1..Len(argv) : argv[i] = f
      BY <2>6, <2>8, <3>2
    <3>. QED BY <3>1, <3>2 DEF Contains
  <2>11. FlagsRight'
    <3>1. /\ flags \in [ToSet(Flags) -> BOOLEAN]
          /\ \A g \in ToSet(Flags) :
               (flags[g] # FlagsSet[g]) <=> Contains(argv, g) /\ g \notin ToSet(left)
      BY <2>1 DEF FlagsRight
    <3>2. flags[f] = FlagsSet[f] /\ flags[f] \in BOOLEAN
      BY <1>2, <3>1
    <3>3. CASE n = 0
      <4>1. ~Contains(args, f) /\ flags' = flags
        BY <1>1, <3>3, Found DEF FlagTaken
      <4>. QED BY <1>1, <1>2, <2>10, <3>1, <3>2, <4>1 DEF FlagsRight
    <3>4. CASE n # 0
      <4>1. Contains(args, f) /\ flags' = [flags EXCEPT ![f] = ~flags[f]]
        BY <1>1, <3>4, Found DEF FlagTaken
      <4>2. /\ flags' \in [ToSet(Flags) -> BOOLEAN]
            /\ flags'[f] # FlagsSet[f]
            /\ \A g \in ToSet(Flags) \ {f} : flags'[g] = flags[g]
        BY <1>2, <3>1, <3>2, <4>1
      <4>. QED BY <1>1, <1>2, <2>10, <3>1, <4>1, <4>2 DEF FlagsRight
    <3>. QED BY <3>3, <3>4
  <2>12. InPlace'
    <3>1. CASE n = 0
      <4>1. ~Contains(args, f) /\ args' = args
        BY <1>1, <3>1, Found DEF FlagTaken
      <4>2. \A i \in Kept(Gone) : argv[i] # f
        BY <2>8, <2>9, <4>1 DEF Contains
      <4>3. Kept(Gone)' = Kept(Gone)
        BY <2>4, <4>2
      <4>. QED BY <1>1, <2>5, <4>1, <4>3 DEF InPlace
    <3>2. CASE n # 0
      <4>1. n \in 1..Len(args) /\ args[n] = f /\ args' = RemoveAt(args, n)
        BY <1>3, <3>2
      <4>2. /\ h[n] \in Kept(Gone)
            /\ Embeds(Without(h, n, Len(args)), args', argv, Kept(Gone) \ {h[n]})
        <5>. HIDE DEF n
        <5>. QED BY <1>1, <2>5, <2>6, <4>1, EmbedsLess
      <4>3. \A i \in Kept(Gone) : argv[i] = f <=> i = h[n]
        BY <1>1, <1>5, <2>3, <2>6, <2>8, <4>1, <4>2, Plain
      <4>4. Kept(Gone)' = Kept(Gone) \ {h[n]}
        BY <2>4, <4>3
      <4>. QED BY <1>1, <4>2, <4>4 DEF InPlace
    <3>. QED BY <3>1, <3>2
  <2>. QED BY <2>2, <2>11, <2>12
<1>6. PlainlySaid' = PlainlySaid
  BY <1>1 DEF PlainlySaid
<1>. QED BY <1>4, <1>5, <1>6 DEF IInv

\* A step that leaves the arguments, the flags and the level alone.
LEMMA Untouched ==
    ASSUME IInv, UNCHANGED <<argv, args, left, flags, level>>,
           \/ at' = at
           \/ at' \notin {"level", "flags", "unittest", "commands"}
           \/ at = "flags" /\ at' = "unittest" /\ left = <<>>
           \/ at = "unittest" /\ at' = "commands"
    PROVE  IInv'
<1>1. /\ TypeInv' /\ Started' /\ (at' \in {"unittest", "commands"} => left' = <<>>)
      /\ PlainlySaid' = PlainlySaid
  BY DEF IInv, TypeInv, Started, PlainlySaid
<1>2. ASSUME Taking', PlainlySaid PROVE InPlace' /\ FlagsRight' /\ LevelRight'
  <2>1. Taking /\ Gone' = Gone
    BY <1>2 DEF Taking, Gone
  <2>2. InPlace /\ FlagsRight /\ LevelRight
    BY <1>2, <2>1 DEF IInv
  <2>3. Kept(Gone)' = Kept(Gone)
    BY <2>1 DEF Kept, LevelAt
  <2>. QED BY <2>2, <2>3 DEF InPlace, FlagsRight, LevelRight, LevelAt
<1>. QED BY <1>1, <1>2 DEF IInv

LEMMA IInvNext == IInv /\ [TauNext]_tauVars => IInv'
<1>. SUFFICES ASSUME IInv, [TauNext]_tauVars PROVE IInv'
  OBVIOUS
<1>1. CASE LevelRefused
  BY <1>1, Untouched DEF LevelRefused, Exit
<1>2. CASE LevelTaken
  BY <1>2, LevelStep
<1>3. CASE FlagTaken
  BY <1>3, FlagStep
<1>4. CASE StartTest
  BY <1>4, Untouched DEF StartTest
<1>5. CASE RunTest
  BY <1>5, Untouched DEF RunTest, mainVars
<1>6. CASE Tested
  BY <1>6, Untouched DEF Tested
<1>7. CASE StartProve
  BY <1>7 DEF StartProve, IInv, TypeInv, Started, Taking
<1>8. CASE StartConvert
  BY <1>8, Untouched DEF StartConvert
<1>9. CASE Helped
  BY <1>9, Untouched DEF Helped, Exit
<1>10. CASE RunProve
  BY <1>10, Untouched DEF RunProve, mainVars
<1>11. CASE Proved
  BY <1>11, Untouched DEF Proved, Exit
<1>12. CASE Exited \/ UNCHANGED tauVars
  BY <1>12, Untouched DEF Exited, tauVars, mainVars
<1>. QED BY <1>1, <1>2, <1>3, <1>4, <1>5, <1>6, <1>7, <1>8, <1>9, <1>10, <1>11, <1>12 DEF TauNext

\* Where main is ready for the command, all options are taken out.
LEMMA IInvMeans == IInv => FlagsAnywhere
<1>. SUFFICES ASSUME IInv, Ready, PlainlySaid
              PROVE  /\ args = Words
                     /\ \A f \in ToSet(Flags) : (flags[f] # FlagsSet[f]) <=> Contains(argv, f)
                     /\ LevelRight
  BY DEF FlagsAnywhere, LevelRight
<1>. DEFINE said == {i \in DOMAIN argv : argv[i] \notin Options /\ i - 1 \notin LevelAt}
<1>1. left = <<>> /\ InPlace /\ FlagsRight /\ LevelRight /\ args \in Seq(STRING) /\ argv \in Seq(STRING)
  BY DEF IInv, TypeInv, Ready, Taking
<1>2. ToSet(left) = {}
  BY <1>1 DEF ToSet
<1>3. Gone = Options /\ "--level" \in Options
  BY <1>2 DEF Gone, Ready, Options
<1>4. Kept(Gone) = said
  BY <1>3 DEF Kept
<1>5. said \subseteq Nat
  BY <1>1
<1>. HIDE DEF said
<1>6. args = Picked(argv, said)
  <2>1. PICK h : Embeds(h, args, argv, said)
    BY <1>1, <1>4 DEF InPlace
  <2>. QED BY <1>1, <1>5, <2>1, EmbedsOnly
<1>7. args = Words
  BY <1>6 DEF Words, Picked, said
<1>. QED BY <1>1, <1>2, <1>7 DEF FlagsRight

\* Flags and level may stand anywhere in the command line: for any line that
\* says everything once, main is left with the other words in their order,
\* every flag given is negated and no other, and the level is the one given.
THEOREM FlagsAnywhereAlways == TauSpec => []FlagsAnywhere
<1>. QED BY IInvInit, IInvNext, IInvMeans, PTL DEF TauSpec
=============================================================================
