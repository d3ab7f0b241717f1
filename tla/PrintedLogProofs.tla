--------------------------- MODULE PrintedLogProofs ---------------------------
(***************************************************************************)
(* What printing, sending and parsing make of a log, for contents and logs *)
(* of any length, any holders and any number of hops.                      *)
(*                                                                         *)
(* The argument: an inner shell lies between the first parenthesis after   *)
(* its name and the last one of the text, so the first name found is the   *)
(* one the printer wrote (ShellIsFound), and the fields in front of it,    *)
(* whose values are single tokens, are read as they were printed           *)
(* (ShellsAreFound, SentFields). Hence an entry arrives with its content   *)
(* Reprinted and nothing else changed (SentIs). A content is reprinted as  *)
(* it was when its fields hold no delimiter (PlainIsKept). With the hash   *)
(* of the text before in every entry, PrintedInv follows: replicas have    *)
(* the texts that were published, but for their last one at most.          *)
(***************************************************************************)
EXTENDS PrintedLog, SequenceTheorems, FiniteSetTheorems, WellFoundedInduction, TLAPS

-----------------------------------------------------------------------------
(* Texts *)

\* The tokens that shells are printed with.
Names == {"log_type", "flag", "author", "seq", "prevHash", "signature",
          "function", "params", "msg"}
Marks == {Bar, Eq, Open, Close, <<"nShell">>, <<"lShell">>, <<"cShell">>}
             \cup {<<name>> : name \in Names}

IsAlphabet(U) == Marks \subseteq U

LEMMA MarksDiffer ==
    /\ Bar # Eq /\ Bar # Open /\ Bar # Close /\ Eq # Open /\ Eq # Close /\ Open # Close
    /\ \A word \in {<<"nShell">>, <<"lShell">>, <<"cShell">>} \cup {<<name>> : name \in Names} :
          word \notin {Bar, Eq, Open, Close}
    /\ \A x, y : <<x>> = <<y>> => x = y
  BY DEF Bar, Eq, Open, Close, Names

LEMMA MaxIs ==
    ASSUME NEW S \in SUBSET Int, NEW m \in S, \A n \in S : n <= m
    PROVE  Max(S) = m
<1>1. Max(S) \in S /\ \A n \in S : Max(S) >= n
  BY DEF Max
<1>2. Max(S) \in Int /\ m \in Int /\ Max(S) >= m /\ m >= Max(S)
  BY <1>1
<1> QED
  BY <1>2

LEMMA MinIs ==
    ASSUME NEW S \in SUBSET Int, NEW m \in S, \A n \in S : m <= n
    PROVE  Min(S) = m
<1>1. Min(S) \in S /\ \A n \in S : Min(S) <= n
  BY DEF Min
<1>2. Min(S) \in Int /\ m \in Int /\ Min(S) <= m /\ m <= Min(S)
  BY <1>1
<1> QED
  BY <1>2

LEMMA LeastExists ==
    ASSUME NEW S \in SUBSET Nat, S # {}
    PROVE  Min(S) \in S /\ \A n \in S : Min(S) <= n
<1> DEFINE R == {x \in Nat \X Nat : x[1] < x[2]}
<1>1. OpToRel(<, Nat) = R
  BY DEF OpToRel
<1>2. IsWellFoundedOn(R, Nat)
  BY ONLY <1>1, NatLessThanWellFounded, Zenon
<1>3. PICK m \in S : \A n \in S : ~(<<n, m>> \in R)
  BY <1>2, WFMin
<1>4. ASSUME NEW n \in S PROVE m <= n
  <2>1. n \in Nat /\ m \in Nat /\ ~(n < m)
    BY <1>3
  <2> QED BY <2>1
<1> QED
  BY <1>4, MinIs

LEMMA Joined ==
    ASSUME NEW U, NEW s \in Seq(U), NEW t \in Seq(U)
    PROVE  /\ s \o t \in Seq(U) /\ Len(s \o t) = Len(s) + Len(t)
           /\ Len(s) \in Nat /\ Len(t) \in Nat
           /\ \A k \in 1..Len(s) : (s \o t)[k] = s[k] /\ s[k] \in U
           /\ \A k \in 1..Len(t) : (s \o t)[Len(s) + k] = t[k] /\ t[k] \in U
           /\ \A k \in (Len(s) + 1)..(Len(s) + Len(t)) : (s \o t)[k] = t[k - Len(s)]
  OBVIOUS

LEMMA JoinedIs ==
    ASSUME NEW U, NEW s \in Seq(U), NEW t \in Seq(U), NEW w, w = s \o t
    PROVE  /\ w \in Seq(U) /\ Len(w) = Len(s) + Len(t) /\ Len(s) \in Nat /\ Len(t) \in Nat
           /\ \A k \in 1..Len(s) : w[k] = s[k] /\ s[k] \in U
           /\ \A k \in 1..Len(t) : w[Len(s) + k] = t[k] /\ t[k] \in U
           /\ \A k \in (Len(s) + 1)..(Len(s) + Len(t)) : w[k] = t[k - Len(s)]
  BY Joined

LEMMA SubText ==
    ASSUME NEW U, NEW s \in Seq(U), NEW m \in Int, NEW n \in Int, m >= 1, n <= Len(s)
    PROVE  /\ SubSeq(s, m, n) \in Seq(U)
           /\ Len(SubSeq(s, m, n)) = IF m <= n THEN n - m + 1 ELSE 0
           /\ \A k \in 1..(n - m + 1) : SubSeq(s, m, n)[k] = s[m + k - 1]
<1>1. \A k \in m..n : s[k] \in U
  OBVIOUS
<1> QED
  BY <1>1, SubSeqProperties

LEMMA Parts ==
    ASSUME NEW U, NEW s \in Seq(U), NEW t \in Seq(U)
    PROVE  /\ SubSeq(s \o t, 1, Len(s)) = s
           /\ SubSeq(s \o t, Len(s) + 1, Len(s \o t)) = t
<1> DEFINE w == s \o t
<1>1. /\ w \in Seq(U) /\ Len(w) = Len(s) + Len(t) /\ Len(s) \in Nat /\ Len(t) \in Nat
      /\ \A k \in 1..Len(s) : w[k] = s[k]
      /\ \A k \in 1..Len(t) : w[Len(s) + k] = t[k]
  BY Joined
<1> HIDE DEF w
<1>2. SubSeq(w, 1, Len(s)) = s
  <2>1. /\ SubSeq(w, 1, Len(s)) \in Seq(U) /\ Len(SubSeq(w, 1, Len(s))) = Len(s)
        /\ \A k \in 1..Len(s) : SubSeq(w, 1, Len(s))[k] = w[k]
    BY <1>1, SubText
  <2> QED BY <1>1, <2>1, SeqEqual
<1>3. SubSeq(w, Len(s) + 1, Len(w)) = t
  <2>1. /\ SubSeq(w, Len(s) + 1, Len(w)) \in Seq(U)
        /\ Len(SubSeq(w, Len(s) + 1, Len(w))) = Len(t)
        /\ \A k \in 1..Len(t) : SubSeq(w, Len(s) + 1, Len(w))[k] = w[Len(s) + k]
    BY <1>1, SubText
  <2> QED BY <1>1, <2>1, SeqEqual
<1> QED
  BY <1>2, <1>3 DEF w

\* No shell begins in it.
Flat(text) == \A k \in 1..Len(text) : text[k] # Open

\* Concatenation, known by its laws alone.
Cat(s, t) == s \o t

LEMMA CatLaws ==
    ASSUME NEW U
    PROVE  /\ \A s, t \in Seq(U) : Cat(s, t) \in Seq(U)
           /\ \A s, t, u \in Seq(U) : Cat(Cat(s, t), u) = Cat(s, Cat(t, u))
<1>1. ASSUME NEW s \in Seq(U), NEW t \in Seq(U) PROVE Cat(s, t) \in Seq(U)
  BY DEF Cat
<1>2. ASSUME NEW s \in Seq(U), NEW t \in Seq(U), NEW u \in Seq(U)
      PROVE  Cat(Cat(s, t), u) = Cat(s, Cat(t, u))
  BY ConcatAssociative DEF Cat
<1> QED
  BY <1>1, <1>2

-----------------------------------------------------------------------------
(* Shells *)

Openings == {N_SHELL, L_SHELL, C_SHELL}

LEMMA OpeningsAre ==
    ASSUME NEW opening \in Openings, NEW U, IsAlphabet(U)
    PROVE  /\ opening \in Seq(U) /\ Len(opening) = 3
           /\ opening[1] # Open /\ opening[2] # Open /\ opening[3] = Open
           /\ opening[1] # Eq /\ opening[1] # Bar /\ opening[2] = Eq
<1>1. PICK word \in {<<"nShell">>, <<"lShell">>, <<"cShell">>} : opening = <<word, Eq, Open>>
  BY DEF Openings, N_SHELL, L_SHELL, C_SHELL
<1>2. word \in U /\ Eq \in U /\ Open \in U
  BY DEF IsAlphabet, Marks
<1>3. opening \in Seq(U) /\ Len(opening) = 3
  BY <1>1, <1>2
<1>4. opening[1] = word /\ opening[2] = Eq /\ opening[3] = Open
  BY <1>1
<1> QED
  BY <1>3, <1>4, MarksDiffer

\* What is in a shell, and what is before it, is found whatever the shell holds.
LEMMA ShellIsFound ==
    ASSUME NEW U, IsAlphabet(U), NEW opening \in Openings,
           NEW before \in Seq(U), NEW inside \in Seq(U),
           \A k \in 1..Len(before) : before[k] # Open
    PROVE  LET text == before \o (opening \o (inside \o <<Close>>))
           IN  /\ text \in Seq(U)
               /\ Inner(text, opening) = inside
               /\ Outer(text, opening) = before
<1> DEFINE end == inside \o <<Close>>
           shell == opening \o end
           text == before \o shell
           p == Len(before)
<1>1. opening \in Seq(U) /\ Len(opening) = 3 /\ <<Close>> \in Seq(U) /\ Len(<<Close>>) = 1
  BY OpeningsAre DEF IsAlphabet, Marks
<1>2. /\ end \in Seq(U) /\ Len(end) = Len(inside) + 1 /\ end[Len(inside) + 1] = Close
      /\ Len(inside) \in Nat
  BY <1>1
<1> HIDE DEF end
<1>3. /\ shell \in Seq(U) /\ Len(shell) = Len(inside) + 4
      /\ \A k \in 1..3 : shell[k] = opening[k]
      /\ \A k \in 1..Len(end) : shell[3 + k] = end[k]
      /\ Len(shell) = 3 + Len(end) /\ shell[Len(inside) + 4] = Close
  <2>1. /\ shell \in Seq(U) /\ Len(shell) = 3 + Len(end)
        /\ \A k \in 1..3 : shell[k] = opening[k]
        /\ \A k \in 1..Len(end) : shell[3 + k] = end[k]
    <3>1. opening \in Seq(U) /\ end \in Seq(U) /\ shell = opening \o end
      BY <1>1, <1>2
    <3> HIDE DEF shell
    <3>2. /\ shell \in Seq(U) /\ Len(shell) = Len(opening) + Len(end)
          /\ \A k \in 1..Len(opening) : shell[k] = opening[k]
          /\ \A k \in 1..Len(end) : shell[Len(opening) + k] = end[k]
      BY <3>1, JoinedIs
    <3> QED BY <1>1, <3>2
  <2>2. shell[3 + (Len(inside) + 1)] = Close
    BY <1>2, <2>1
  <2> QED BY <1>2, <2>1, <2>2
<1>4. SubSeq(shell, 4, Len(shell)) = end
  <2>1. SubSeq(shell, Len(opening) + 1, Len(shell)) = end
    BY <1>1, <1>2, Parts
  <2> QED BY <1>1, <2>1
<1> HIDE DEF shell
<1>5. /\ text \in Seq(U) /\ p \in Nat /\ Len(text) = p + Len(inside) + 4
      /\ \A k \in 1..p : text[k] = before[k]
      /\ \A k \in 1..3 : text[p + k] = opening[k]
      /\ text[Len(text)] = Close
      /\ \A k \in 1..Len(shell) : text[p + k] = shell[k]
  <2>1. /\ text \in Seq(U) /\ p \in Nat /\ Len(text) = p + Len(shell)
        /\ \A k \in 1..p : text[k] = before[k]
        /\ \A k \in 1..Len(shell) : text[p + k] = shell[k]
    <3>1. before \in Seq(U) /\ shell \in Seq(U) /\ text = before \o shell
      BY <1>3
    <3> HIDE DEF text
    <3> QED BY <3>1, JoinedIs
  <2>2. \A k \in 1..3 : text[p + k] = opening[k]
    BY <1>2, <1>3, <2>1
  <2>3. text[p + (Len(inside) + 4)] = Close
    BY <1>2, <1>3, <2>1
  <2> QED BY <1>2, <1>3, <2>1, <2>2, <2>3
<1> HIDE DEF text, p
<1>6. ASSUME NEW k \in 1..Len(text)
      PROVE  IsPrefix(opening, SubSeq(text, k, Len(text))) <=>
                 k + 2 <= Len(text) /\ \A n \in 1..3 : text[k + n - 1] = opening[n]
  <2> DEFINE rest == SubSeq(text, k, Len(text))
  <2>1. /\ rest \in Seq(U) /\ Len(rest) = Len(text) - k + 1
        /\ \A n \in 1..Len(rest) : rest[n] = text[k + n - 1]
    BY <1>5, SubText, SMTT(30)
  <2> HIDE DEF rest
  <2>2. SubSeq(opening, 1, Len(opening)) = opening
    BY <1>1, SubSeqFull
  <2>3. CASE Len(rest) >= 3
    <3>1. /\ SubSeq(rest, 1, 3) \in Seq(U) /\ Len(SubSeq(rest, 1, 3)) = 3
          /\ \A n \in 1..3 : SubSeq(rest, 1, 3)[n] = rest[n]
      BY <2>1, <2>3, SubText
    <3>2. SubSeq(rest, 1, 3) = opening <=> \A n \in 1..3 : rest[n] = opening[n]
      BY <1>1, <3>1, SeqEqual
    <3> QED BY <1>1, <1>5, <2>1, <2>2, <2>3, <3>2, SMTT(30) DEF IsPrefix, rest
  <2>4. CASE Len(rest) < 3
    BY <1>1, <1>5, <2>1, <2>4 DEF IsPrefix, rest
  <2> QED BY <2>1, <2>3, <2>4, <1>5
<1>7. Start(text, opening) = p + 1
  <2> DEFINE S == {k \in 1..Len(text) : IsPrefix(opening, SubSeq(text, k, Len(text)))}
  <2>1. p + 1 \in S
    BY <1>2, <1>5, <1>6
  <2>2. ASSUME NEW k \in S, k < p + 1 PROVE FALSE
    <3>1. text[k + 2] = Open /\ k + 2 \in 1..Len(text)
      BY <1>6, <2>2, OpeningsAre, <1>5
    <3>2. CASE k + 2 <= p
      BY <1>5, <2>2, <3>1, <3>2, SMTT(30) DEF p
    <3>3. CASE k + 2 > p
      <4>1. k + 2 = p + 1 \/ k + 2 = p + 2
        BY <2>2, <3>3, <1>5
      <4>2. opening[1] # Open /\ opening[2] # Open
        BY OpeningsAre
      <4> QED BY <1>5, <3>1, <4>1, <4>2
    <3> QED BY <1>5, <3>2, <3>3
  <2>3. \A k \in S : p + 1 <= k
    BY <2>2, <1>5
  <2>4. S \in SUBSET Int
    OBVIOUS
  <2> HIDE DEF S
  <2>5. Min(S) = p + 1
    BY <2>1, <2>3, <2>4, MinIs
  <2> QED BY <2>5 DEF Start, S
<1>8. Max(Positions(text, Close)) = Len(text)
  <2>1. Len(text) \in Positions(text, Close) /\ Positions(text, Close) \subseteq 1..Len(text)
    BY <1>2, <1>5 DEF Positions
  <2> QED BY <2>1, MaxIs, <1>5
<1>9. Inner(text, opening) = inside
  <2>1. Inner(text, opening) = SubSeq(text, p + 4, Len(text) - 1)
    <3>1. Inner(text, opening) = SubSeq(text, (p + 1) + 3, Len(text) - 1)
      BY ONLY <1>1, <1>7, <1>8, Zenon DEF Inner
    <3>2. (p + 1) + 3 = p + 4
      BY <1>5
    <3> QED BY ONLY <3>1, <3>2, Zenon
  <2>2. /\ SubSeq(text, p + 4, Len(text) - 1) \in Seq(U)
        /\ Len(SubSeq(text, p + 4, Len(text) - 1)) = Len(inside)
        /\ \A k \in 1..Len(inside) : SubSeq(text, p + 4, Len(text) - 1)[k] = text[p + 3 + k]
    BY <1>2, <1>5, SubText, SMTT(30)
  <2>3. ASSUME NEW k \in 1..Len(inside) PROVE text[p + 3 + k] = inside[k]
    <3>1. text[p + (3 + k)] = shell[3 + k]
      BY <1>2, <1>3, <1>5
    <3>2. shell[3 + k] = end[k]
      BY <1>2, <1>3
    <3>3. end[k] = inside[k]
      BY <1>1, <1>2 DEF end
    <3> QED BY <3>1, <3>2, <3>3, <1>5
  <2> QED BY <2>1, <2>2, <2>3, SeqEqual
<1>10. Outer(text, opening) = before
  <2>1. Outer(text, opening) = SubSeq(text, 1, p)
    BY <1>5, <1>7 DEF Outer
  <2> QED BY <2>1, <1>3, Parts DEF text, p
<1> QED
  BY <1>5, <1>9, <1>10 DEF text, shell, end

LEMMA ShellIs ==
    ASSUME NEW U, IsAlphabet(U), NEW opening \in Openings,
           NEW before \in Seq(U), NEW inside \in Seq(U), Flat(before),
           NEW text, text = Cat(before, Cat(opening, Cat(inside, <<Close>>)))
    PROVE  text \in Seq(U) /\ Inner(text, opening) = inside /\ Outer(text, opening) = before
<1> DEFINE all == before \o (opening \o (inside \o <<Close>>))
<1>1. text = all
  BY Zenon DEF Cat
<1>2. \A k \in 1..Len(before) : before[k] # Open
  BY DEF Flat
<1>3. all \in Seq(U) /\ Inner(all, opening) = inside /\ Outer(all, opening) = before
  BY <1>2, ShellIsFound
<1> HIDE DEF all
<1> QED
  BY <1>1, <1>3
-----------------------------------------------------------------------------
(* Fields *)

\* value can stand in a field of its own.
IsPlainValue(value) == \A k \in 1..Len(value) : value[k] # Bar /\ value[k] # Eq

LEMMA FieldIs ==
    ASSUME NEW U, IsAlphabet(U), NEW name \in Names, NEW value \in Seq(U)
    PROVE  /\ Field(name, value) \in Seq(U) /\ Len(Field(name, value)) = Len(value) + 2
           /\ Field(name, value)[1] = <<name>> /\ Field(name, value)[2] = Eq
           /\ \A k \in 1..Len(value) : Field(name, value)[2 + k] = value[k]
           /\ SubSeq(Field(name, value), 3, Len(Field(name, value))) = value
<1> DEFINE start == <<<<name>>, Eq>>
           text == start \o value
<1>1. start \in Seq(U) /\ Len(start) = 2 /\ start[1] = <<name>> /\ start[2] = Eq
  BY DEF IsAlphabet, Marks
<1>2. start \in Seq(U) /\ text = start \o value
  BY <1>1
<1>3. Field(name, value) = text
  BY DEF Field
<1> HIDE DEF start, text
<1>4. /\ text \in Seq(U) /\ Len(text) = Len(start) + Len(value)
      /\ \A k \in 1..Len(start) : text[k] = start[k]
      /\ \A k \in 1..Len(value) : text[Len(start) + k] = value[k]
  BY <1>2, JoinedIs
<1>5. SubSeq(text, Len(start) + 1, Len(text)) = value
  BY <1>2, Parts
<1> QED
  BY <1>1, <1>3, <1>4, <1>5

LEMMA SplitField ==
    ASSUME NEW U, IsAlphabet(U), NEW name \in Names, NEW value \in Seq(U), IsPlainValue(value)
    PROVE  varSplitter(Field(name, value)) = <<<<<<name>>>>, value>>
<1> DEFINE text == Field(name, value)
<1>1. /\ text \in Seq(U) /\ Len(text) = Len(value) + 2 /\ text[1] = <<name>> /\ text[2] = Eq
      /\ \A k \in 1..Len(value) : text[2 + k] = value[k]
      /\ SubSeq(text, 3, Len(text)) = value
  BY FieldIs
<1> HIDE DEF text
<1>2. Positions(text, Eq) = {2}
  <2>1. 2 \in Positions(text, Eq)
    BY <1>1 DEF Positions
  <2>2. ASSUME NEW k \in Positions(text, Eq) PROVE k = 2
    <3>1. k \in 1..Len(text) /\ text[k] = Eq
      BY <2>2 DEF Positions
    <3>2. k # 1
      BY <1>1, <3>1, MarksDiffer
    <3>3. k > 2 => text[2 + (k - 2)] # Eq
      BY <1>1, <3>1 DEF IsPlainValue
    <3> QED BY <1>1, <3>1, <3>2, <3>3
  <2> QED BY <2>1, <2>2
<1>3. Max({0} \cup {2}) = 2
  <2> DEFINE S == {0} \cup {2}
  <2>1. S \in SUBSET Int /\ 2 \in S /\ \A n \in S : n <= 2
    OBVIOUS
  <2> HIDE DEF S
  <2>2. Max(S) = 2
    BY <2>1, MaxIs
  <2> QED BY <2>2 DEF S
<1>4. Max({0} \cup {k \in {2} : k < 2}) = 0
  <2> DEFINE S == {0} \cup {k \in {2} : k < 2}
  <2>1. S \in SUBSET Int /\ 0 \in S /\ \A n \in S : n <= 0
    OBVIOUS
  <2> HIDE DEF S
  <2>2. Max(S) = 0
    BY <2>1, MaxIs
  <2> QED BY <2>2 DEF S
<1>5. SubSeq(text, 0 + 1, 2 - 1) = <<<<name>>>>
  <2>1. /\ SubSeq(text, 1, 1) \in Seq(U) /\ Len(SubSeq(text, 1, 1)) = 1
        /\ SubSeq(text, 1, 1)[1] = <<name>>
    BY <1>1, SubText
  <2>2. <<<<name>>>> \in Seq(U) /\ Len(<<<<name>>>>) = 1 /\ <<<<name>>>>[1] = <<name>>
    BY DEF IsAlphabet, Marks
  <2> DEFINE u == SubSeq(text, 1, 1)
             v == <<<<name>>>>
  <2>3. \A k \in 1..Len(u) : u[k] = v[k]
    BY <2>1, <2>2
  <2>4. u \in Seq(U) /\ v \in Seq(U) /\ Len(u) = Len(v)
    BY <2>1, <2>2
  <2> HIDE DEF u, v
  <2>5. u = v
    BY <2>3, <2>4, SeqEqual
  <2> QED BY <2>5 DEF u, v
<1>6. varSplitter(text) = <<<<<<name>>>>, value>>
  <2>1. varSplitter(text) = <<SubSeq(text, 0 + 1, 2 - 1), SubSeq(text, 2 + 1, Len(text))>>
    BY <1>2, <1>3, <1>4 DEF varSplitter
  <2>2. SubSeq(text, 2 + 1, Len(text)) = value
    BY <1>1
  <2> QED BY <1>5, <2>1, <2>2
<1> QED
  BY <1>6 DEF text

\* Where the part that begins after position j ends.
Stops(text, j) == {k \in {Len(text) + 1} \cup Positions(text, Bar) : k > j}

LEMMA PartIs ==
    ASSUME NEW U, NEW text \in Seq(U), NEW j \in 0..Len(text)
    PROVE  /\ Stops(text, j) \subseteq Nat /\ Len(text) + 1 \in Stops(text, j)
           /\ Min(Stops(text, j)) \in Stops(text, j)
           /\ \A k \in Stops(text, j) : Min(Stops(text, j)) <= k
           /\ Min(Stops(text, j)) \in (j + 1)..(Len(text) + 1)
           /\ Part(text, j) = SubSeq(text, j + 1, Min(Stops(text, j)) - 1)
           /\ Part(text, j) \in Seq(U)
<1>1. Stops(text, j) \subseteq Nat /\ Len(text) + 1 \in Stops(text, j)
  BY DEF Stops, Positions
<1>2. Min(Stops(text, j)) \in Stops(text, j) /\ \A k \in Stops(text, j) : Min(Stops(text, j)) <= k
  BY <1>1, LeastExists
<1>3. Min(Stops(text, j)) \in (j + 1)..(Len(text) + 1)
  BY <1>1, <1>2 DEF Stops
<1>4. Part(text, j) = SubSeq(text, j + 1, Min(Stops(text, j)) - 1)
  BY DEF Part, Stops
<1>5. Part(text, j) \in Seq(U)
  BY <1>3, <1>4, SubText
<1> QED
  BY <1>1, <1>2, <1>3, <1>4, <1>5

LEMMA FirstPart ==
    ASSUME NEW U, NEW s \in Seq(U), NEW t \in Seq(U), \A k \in 1..Len(s) : s[k] # Bar,
           t = << >> \/ t[1] = Bar
    PROVE  Part(s \o t, 0) = s
<1> DEFINE text == s \o t
<1>1. /\ text \in Seq(U) /\ Len(text) = Len(s) + Len(t) /\ Len(s) \in Nat /\ Len(t) \in Nat
      /\ \A k \in 1..Len(s) : text[k] = s[k]
      /\ \A k \in 1..Len(t) : text[Len(s) + k] = t[k]
      /\ SubSeq(text, 1, Len(s)) = s
  BY Joined, Parts
<1> HIDE DEF text
<1>2. Len(s) + 1 \in Stops(text, 0)
  <2>1. CASE t = << >>
    BY <1>1, <2>1 DEF Stops
  <2>2. CASE t # << >>
    <3>1. 1 \in 1..Len(t)
      BY <2>2
    <3>2. text[Len(s) + 1] = Bar
      BY <1>1, <2>2, <3>1
    <3> QED BY <1>1, <3>1, <3>2 DEF Stops, Positions
  <2> QED BY <2>1, <2>2
<1>3. ASSUME NEW k \in Stops(text, 0) PROVE Len(s) + 1 <= k
  BY <1>1, <1>3 DEF Stops, Positions
<1>4. 0 \in 0..Len(text)
  BY <1>1
<1>5. Min(Stops(text, 0)) = Len(s) + 1
  <2>1. Stops(text, 0) \in SUBSET Int
    BY <1>4, <1>1, PartIs
  <2> QED BY <1>2, <1>3, <2>1, MinIs
<1>6. Part(text, 0) = SubSeq(text, 1, Len(s))
  <2>1. Part(text, 0) = SubSeq(text, 0 + 1, Min(Stops(text, 0)) - 1)
    BY DEF Part, Stops
  <2> QED BY <1>1, <1>5, <2>1
<1> QED
  BY <1>1, <1>6 DEF text

LEMMA LaterPart ==
    ASSUME NEW U, NEW s \in Seq(U), NEW t \in Seq(U), NEW j \in 0..Len(t)
    PROVE  Part(s \o t, Len(s) + j) = Part(t, j)
<1> DEFINE text == s \o t
           l == Len(s)
<1>1. /\ text \in Seq(U) /\ Len(text) = l + Len(t) /\ l \in Nat /\ Len(t) \in Nat
      /\ \A k \in 1..Len(t) : text[l + k] = t[k]
      /\ \A k \in (l + 1)..(l + Len(t)) : text[k] = t[k - l]
  BY Joined
<1> HIDE DEF text, l
<1>2. l + j \in 0..Len(text)
  BY <1>1
<1> DEFINE m == Min(Stops(t, j))
<1>3. m \in Stops(t, j) /\ m \in (j + 1)..(Len(t) + 1) /\ \A k \in Stops(t, j) : m <= k
  BY PartIs
<1> HIDE DEF m
<1>4. l + m \in Stops(text, l + j)
  <2>1. CASE m = Len(t) + 1
    BY <1>1, <1>3, <2>1 DEF Stops
  <2>2. CASE m # Len(t) + 1
    <3>1. m \in 1..Len(t) /\ t[m] = Bar
      BY <1>3, <2>2 DEF Stops, Positions
    <3> QED BY <1>1, <1>3, <3>1 DEF Stops, Positions
  <2> QED BY <2>1, <2>2
<1>5. ASSUME NEW k \in Stops(text, l + j) PROVE l + m <= k
  <2>1. k \in Int /\ k > l + j
    BY <1>1, <1>5 DEF Stops, Positions
  <2>2. k - l \in Stops(t, j)
    <3>1. CASE k = Len(text) + 1
      BY <1>1, <2>1, <3>1 DEF Stops
    <3>2. CASE k # Len(text) + 1
      <4>1. k \in (l + 1)..(l + Len(t)) /\ text[k] = Bar
        BY <1>1, <1>5, <2>1, <3>2 DEF Stops, Positions
      <4>2. t[k - l] = Bar /\ k - l \in 1..Len(t)
        BY <1>1, <4>1
      <4> QED BY <1>1, <2>1, <4>2 DEF Stops, Positions
    <3> QED BY <3>1, <3>2
  <2>3. m <= k - l
    BY <1>3, <2>2
  <2> QED BY <1>1, <1>3, <2>1, <2>3
<1>6. Min(Stops(text, l + j)) = l + m
  <2>1. Stops(text, l + j) \in SUBSET Int
    BY <1>1, <1>2, PartIs
  <2> QED BY <1>4, <1>5, <2>1, MinIs
<1>7. Part(text, l + j) = SubSeq(text, l + j + 1, l + m - 1)
  <2>1. Part(text, l + j) = SubSeq(text, (l + j) + 1, Min(Stops(text, l + j)) - 1)
    BY DEF Part, Stops
  <2>2. (l + m) - 1 = l + m - 1
    BY <1>1, <1>3
  <2> QED BY <1>6, <2>1, <2>2
<1>8. Part(t, j) = SubSeq(t, j + 1, m - 1)
  BY PartIs DEF m
<1>9. SubSeq(text, l + j + 1, l + m - 1) = SubSeq(t, j + 1, m - 1)
  <2> DEFINE u == SubSeq(text, l + j + 1, l + m - 1)
             v == SubSeq(t, j + 1, m - 1)
  <2>1. /\ u \in Seq(U) /\ Len(u) = m - 1 - j
        /\ \A k \in 1..(m - 1 - j) : u[k] = text[l + j + k]
    BY <1>1, <1>3, SubText
  <2>2. /\ v \in Seq(U) /\ Len(v) = m - 1 - j
        /\ \A k \in 1..(m - 1 - j) : v[k] = t[j + k]
    BY <1>1, <1>3, SubText
  <2>3. \A k \in 1..(m - 1 - j) : text[l + (j + k)] = t[j + k]
    BY <1>1, <1>3
  <2>4. \A k \in 1..(m - 1 - j) : u[k] = v[k]
    BY <1>1, <1>3, <2>1, <2>2, <2>3, SMTT(30)
  <2> HIDE DEF u, v
  <2>5. u = v
    BY <2>1, <2>2, <2>4, SeqEqual
  <2> QED BY <2>5 DEF u, v
<1> QED
  BY <1>7, <1>8, <1>9 DEF text, l

\* The first part of text that is named name holds value.
Found(text, name, value) ==
    \E j \in {0} \cup Positions(text, Bar) :
        /\ varSplitter(Part(text, j)) = <<<<<<name>>>>, value>>
        /\ \A k \in {0} \cup Positions(text, Bar) :
               k < j => varSplitter(Part(text, k))[1] # <<<<name>>>>

LEMMA ValueIs ==
    ASSUME NEW text, NEW name, NEW value, Len(text) \in Nat, Found(text, name, value)
    PROVE  Value(text, name) = value
<1> DEFINE named == {k \in {0} \cup Positions(text, Bar) :
                         varSplitter(Part(text, k))[1] = <<<<name>>>>}
<1>1. PICK j \in {0} \cup Positions(text, Bar) :
          /\ varSplitter(Part(text, j)) = <<<<<<name>>>>, value>>
          /\ \A k \in {0} \cup Positions(text, Bar) :
                 k < j => varSplitter(Part(text, k))[1] # <<<<name>>>>
  BY DEF Found
<1>2. j \in named /\ \A k \in named : ~(k < j)
  BY <1>1
<1>3. named \in SUBSET Int
  BY DEF Positions
<1> HIDE DEF named
<1>4. \A k \in named : j <= k
  BY <1>2, <1>3
<1>5. Min(named) = j /\ named # {}
  BY <1>2, <1>3, <1>4, MinIs
<1>6. Value(text, name) = varSplitter(Part(text, j))[2]
  BY <1>5 DEF Value, named
<1> QED
  BY <1>1, <1>6

LEMMA FoundFirst ==
    ASSUME NEW U, IsAlphabet(U), NEW name \in Names, NEW value \in Seq(U),
           IsPlainValue(value), NEW rest \in Seq(U), rest = << >> \/ rest[1] = Bar
    PROVE  Found(Field(name, value) \o rest, name, value)
<1> DEFINE field == Field(name, value)
<1>1. /\ field \in Seq(U) /\ Len(field) = Len(value) + 2 /\ field[1] = <<name>> /\ field[2] = Eq
      /\ \A k \in 1..Len(value) : field[2 + k] = value[k]
  BY FieldIs
<1>2. varSplitter(field) = <<<<<<name>>>>, value>>
  BY SplitField
<1> HIDE DEF field
<1>3. \A k \in 1..Len(field) : field[k] # Bar
  <2> SUFFICES ASSUME NEW k \in 1..Len(field), field[k] = Bar PROVE FALSE
    OBVIOUS
  <2>1. k # 1 /\ k # 2
    BY <1>1, MarksDiffer
  <2>2. k - 2 \in 1..Len(value) /\ field[2 + (k - 2)] = Bar
    BY <1>1, <2>1
  <2> QED BY <1>1, <2>2 DEF IsPlainValue
<1>4. Part(field \o rest, 0) = field
  BY <1>1, <1>3, FirstPart
<1>5. \A k \in {0} \cup Positions(field \o rest, Bar) : ~(k < 0)
  BY DEF Positions
<1>6. Found(field \o rest, name, value)
  BY <1>2, <1>4, <1>5 DEF Found
<1> QED
  BY <1>6 DEF field

LEMMA FoundLater ==
    ASSUME NEW U, IsAlphabet(U), NEW name \in Names, NEW other \in Names, other # name,
           NEW value \in Seq(U), IsPlainValue(value),
           NEW rest \in Seq(U), NEW found, Found(rest, name, found)
    PROVE  Found(Field(other, value) \o (<<Bar>> \o rest), name, found)
<1> DEFINE field == Field(other, value)
           bar == <<Bar>>
           tail == bar \o rest
           text == field \o tail
           piece == field \o bar
           l == Len(piece)
<1>1. /\ field \in Seq(U) /\ Len(field) = Len(value) + 2 /\ field[1] = <<other>> /\ field[2] = Eq
      /\ \A k \in 1..Len(value) : field[2 + k] = value[k]
  BY FieldIs
<1>2. varSplitter(field) = <<<<<<other>>>>, value>>
  BY SplitField
<1> HIDE DEF field
<1>3. \A k \in 1..Len(field) : field[k] # Bar
  <2> SUFFICES ASSUME NEW k \in 1..Len(field), field[k] = Bar PROVE FALSE
    OBVIOUS
  <2>1. k # 1 /\ k # 2
    BY <1>1, MarksDiffer
  <2>2. k - 2 \in 1..Len(value) /\ field[2 + (k - 2)] = Bar
    BY <1>1, <2>1
  <2> QED BY <1>1, <2>2 DEF IsPlainValue
<1>4. bar \in Seq(U) /\ Len(bar) = 1 /\ bar[1] = Bar
  BY DEF IsAlphabet, Marks
<1>5. bar \in Seq(U)
  BY <1>4
<1> HIDE DEF bar
<1>6. tail \in Seq(U) /\ tail[1] = Bar
  <2>1. tail = bar \o rest
    OBVIOUS
  <2> HIDE DEF tail
  <2>2. tail \in Seq(U) /\ \A k \in 1..Len(bar) : tail[k] = bar[k]
    BY <1>5, <2>1, JoinedIs
  <2>3. 1 \in 1..Len(bar)
    BY <1>4
  <2> QED BY <1>4, <2>2, <2>3
<1>7. text = piece \o rest
  <2>1. \A s, t, u \in Seq(U) : (s \o t) \o u = s \o (t \o u)
    BY ConcatAssociative, SMTT(30)
  <2>2. field \in Seq(U)
    BY <1>1
  <2>3. (field \o bar) \o rest = field \o (bar \o rest)
    BY ONLY <1>5, <2>1, <2>2, rest \in Seq(U), Zenon
  <2> QED BY <2>3
<1>8. Part(text, 0) = field
  <2> HIDE DEF tail
  <2> QED BY <1>1, <1>3, <1>6, FirstPart
<1>9. /\ piece \in Seq(U) /\ l \in Nat /\ l = Len(field) + 1
      /\ \A k \in 1..(l - 1) : piece[k] # Bar
      /\ piece[l] = Bar
  <2>1. field \in Seq(U)
    BY <1>1
  <2>2. /\ piece \in Seq(U) /\ Len(piece) = Len(field) + Len(bar) /\ Len(field) \in Nat
        /\ \A k \in 1..Len(field) : piece[k] = field[k]
        /\ \A k \in 1..Len(bar) : piece[Len(field) + k] = bar[k]
    BY <1>5, <2>1, Joined
  <2> HIDE DEF piece
  <2> QED BY <1>3, <1>4, <2>2, SMTT(30)
<1> HIDE DEF text, piece, tail
<1>10. /\ text \in Seq(U) /\ Len(text) = l + Len(rest) /\ Len(rest) \in Nat
       /\ \A k \in 1..l : text[k] = piece[k]
       /\ \A k \in 1..Len(rest) : text[l + k] = rest[k]
       /\ \A k \in (l + 1)..(l + Len(rest)) : text[k] = rest[k - l]
  <2>1. piece \in Seq(U)
    BY <1>9
  <2> QED BY <1>7, <2>1, JoinedIs
<1>11. \A j \in 0..Len(rest) : Part(text, l + j) = Part(rest, j)
  BY <1>7, <1>9, LaterPart
<1> HIDE DEF l
<1>12. ASSUME NEW j \in {0} \cup Positions(rest, Bar)
       PROVE  l + j \in Positions(text, Bar) /\ j \in 0..Len(rest)
  <2>1. CASE j = 0
    <3>1. text[l] = Bar /\ l \in 1..Len(text)
      BY <1>1, <1>9, <1>10
    <3> QED BY <1>9, <1>10, <2>1, <3>1 DEF Positions
  <2>2. CASE j # 0
    <3>1. j \in 1..Len(rest) /\ rest[j] = Bar
      BY <2>2 DEF Positions
    <3>2. text[l + j] = rest[j]
      BY <1>10, <3>1
    <3>3. l + j \in 1..Len(text)
      BY <1>9, <1>10, <3>1
    <3> QED BY <3>1, <3>2, <3>3 DEF Positions
  <2> QED BY <2>1, <2>2
<1>13. ASSUME NEW k \in {0} \cup Positions(text, Bar), k # 0
       PROVE  k - l \in {0} \cup Positions(rest, Bar) /\ k = l + (k - l)
  <2>1. k \in 1..Len(text) /\ text[k] = Bar
    BY <1>13 DEF Positions
  <2>2. k >= l
    BY <1>9, <1>10, <2>1
  <2>3. CASE k = l
    BY <1>9, <2>3
  <2>4. CASE k > l
    <3>1. k \in (l + 1)..(l + Len(rest))
      BY <1>9, <1>10, <2>1, <2>4
    <3>2. rest[k - l] = Bar /\ k - l \in 1..Len(rest)
      BY <1>9, <1>10, <2>1, <3>1
    <3> QED BY <1>9, <3>1, <3>2 DEF Positions
  <2> QED BY <1>9, <2>1, <2>2, <2>3, <2>4
<1>14. PICK j \in {0} \cup Positions(rest, Bar) :
           /\ varSplitter(Part(rest, j)) = <<<<<<name>>>>, found>>
           /\ \A k \in {0} \cup Positions(rest, Bar) :
                  k < j => varSplitter(Part(rest, k))[1] # <<<<name>>>>
  BY DEF Found
<1>15. varSplitter(Part(text, l + j)) = <<<<<<name>>>>, found>>
  BY <1>11, <1>12, <1>14
<1>16. ASSUME NEW k \in {0} \cup Positions(text, Bar), k < l + j
       PROVE  varSplitter(Part(text, k))[1] # <<<<name>>>>
  <2>1. CASE k = 0
    <3>1. varSplitter(Part(text, k)) = <<<<<<other>>>>, value>>
      BY <1>2, <1>8, <2>1
    <3>2. <<<<other>>>> # <<<<name>>>>
      OBVIOUS
    <3> QED BY <3>1, <3>2
  <2>2. CASE k # 0
    <3>1. k - l \in {0} \cup Positions(rest, Bar) /\ k = l + (k - l)
      BY <1>13, <2>2
    <3>2. k - l < j
      BY <1>9, <1>12, <1>16, <3>1 DEF Positions
    <3>3. Part(text, k) = Part(rest, k - l)
      BY <1>11, <1>12, <3>1
    <3> QED BY <1>14, <3>1, <3>2, <3>3
  <2> QED BY <2>1, <2>2
<1>17. Found(text, name, found)
  BY <1>12, <1>15, <1>16 DEF Found
<1> QED
  BY <1>17 DEF text, tail, field, bar

-----------------------------------------------------------------------------
(* Packets *)

\* Two fields, each with a bar, and what follows them, as Printer puts them
\* after what it has ...
LEMMA TwoAfter ==
    ASSUME NEW U, NEW x \in Seq(U), NEW f \in Seq(U), NEW b \in Seq(U), NEW g \in Seq(U),
           NEW t \in Seq(U)
    PROVE  /\ Cat(Cat(Cat(Cat(x, f), b), g), b) \in Seq(U)
           /\ Cat(f, Cat(b, Cat(g, Cat(b, t)))) \in Seq(U)
           /\ Cat(Cat(Cat(Cat(Cat(x, f), b), g), b), t) = Cat(x, Cat(f, Cat(b, Cat(g, Cat(b, t)))))
<1> DEFINE xf == Cat(x, f)
           xb == Cat(xf, b)
           xg == Cat(xb, g)
           bt == Cat(b, t)
           gt == Cat(g, bt)
           bgt == Cat(b, gt)
<1>1. xf \in Seq(U) /\ xb \in Seq(U) /\ xg \in Seq(U) /\ Cat(xg, b) \in Seq(U)
  BY CatLaws
<1>2. bt \in Seq(U) /\ gt \in Seq(U) /\ bgt \in Seq(U) /\ Cat(f, bgt) \in Seq(U)
  BY CatLaws
<1> HIDE DEF xf, xb, xg, bt, gt, bgt
<1>3. Cat(Cat(xg, b), t) = Cat(xg, bt)
  BY <1>1, CatLaws DEF bt
<1>4. Cat(xg, bt) = Cat(xb, gt)
  BY <1>1, <1>2, CatLaws DEF xg, gt
<1>5. Cat(xb, gt) = Cat(xf, bgt)
  BY <1>1, <1>2, CatLaws DEF xb, bgt
<1>6. Cat(xf, bgt) = Cat(x, Cat(f, bgt))
  BY <1>1, <1>2, CatLaws DEF xf
<1> QED
  BY <1>1, <1>2, <1>3, <1>4, <1>5, <1>6 DEF xf, xb, xg, bt, gt, bgt

\* ... and as they stand before what follows them.
LEMMA TwoBefore ==
    ASSUME NEW U, NEW f \in Seq(U), NEW b \in Seq(U), NEW g \in Seq(U), NEW x \in Seq(U),
           NEW t \in Seq(U)
    PROVE  Cat(Cat(f, Cat(b, Cat(g, x))), t) = Cat(f, Cat(b, Cat(g, Cat(x, t))))
<1> DEFINE gx == Cat(g, x)
           bgx == Cat(b, gx)
           xt == Cat(x, t)
<1>1. gx \in Seq(U) /\ bgx \in Seq(U) /\ xt \in Seq(U)
  BY CatLaws
<1> HIDE DEF gx, bgx, xt
<1>2. Cat(Cat(f, bgx), t) = Cat(f, Cat(bgx, t))
  BY <1>1, CatLaws
<1>3. Cat(bgx, t) = Cat(b, Cat(gx, t))
  BY <1>1, CatLaws DEF bgx
<1>4. Cat(gx, t) = Cat(g, xt)
  BY <1>1, CatLaws DEF gx, xt
<1> QED
  BY <1>2, <1>3, <1>4 DEF gx, bgx, xt

LEMMA PairsDiffer ==
    \A x : /\ <<"int", x>> \notin {Bar, Eq, Open, Close}
           /\ <<"sha1", x>> \notin {Bar, Eq, Open, Close}
           /\ <<"double", x>> \notin {Bar, Eq, Open, Close}
  BY DEF Bar, Eq, Open, Close

LEMMA FlatJoined ==
    ASSUME NEW U, NEW s \in Seq(U), NEW t \in Seq(U), Flat(s), Flat(t)
    PROVE  Flat(s \o t)
<1> SUFFICES ASSUME NEW k \in 1..Len(s \o t) PROVE (s \o t)[k] # Open
  BY DEF Flat
<1>1. CASE k \in 1..Len(s)
  BY <1>1, Joined DEF Flat
<1>2. CASE k \notin 1..Len(s)
  <2>1. k \in (Len(s) + 1)..(Len(s) + Len(t)) /\ k - Len(s) \in 1..Len(t)
    BY <1>2, Joined
  <2>2. (s \o t)[k] = t[k - Len(s)]
    BY <2>1, Joined
  <2> QED BY <2>1, <2>2 DEF Flat
<1> QED
  BY <1>1, <1>2

LEMMA FlatField ==
    ASSUME NEW U, IsAlphabet(U), NEW name \in Names, NEW value \in Seq(U), Flat(value)
    PROVE  Flat(Field(name, value))
<1> DEFINE field == Field(name, value)
<1>1. /\ field \in Seq(U) /\ Len(field) = Len(value) + 2 /\ field[1] = <<name>> /\ field[2] = Eq
      /\ \A k \in 1..Len(value) : field[2 + k] = value[k]
  BY FieldIs
<1> HIDE DEF field
<1>2. ASSUME NEW k \in 1..Len(field), field[k] = Open PROVE FALSE
  <2>1. k # 1 /\ k # 2
    BY <1>1, <1>2, MarksDiffer
  <2>2. k - 2 \in 1..Len(value) /\ field[2 + (k - 2)] = Open
    BY <1>1, <1>2, <2>1
  <2> QED BY <1>1, <2>2 DEF Flat
<1>3. Flat(field)
  BY <1>2 DEF Flat
<1> QED
  BY <1>3 DEF field

LEMMA BarIs ==
    ASSUME NEW U, IsAlphabet(U)
    PROVE  /\ <<Bar>> \in Seq(U) /\ <<Close>> \in Seq(U) /\ Flat(<<Bar>>) /\ <<Bar>>[1] = Bar
           /\ \A t \in Seq(U) : (<<Bar>> \o t)[1] = Bar
<1>1. /\ <<Bar>> \in Seq(U) /\ Len(<<Bar>>) = 1 /\ <<Bar>>[1] = Bar /\ <<Close>> \in Seq(U)
  BY DEF IsAlphabet, Marks
<1>2. Flat(<<Bar>>)
  BY <1>1, MarksDiffer DEF Flat
<1>3. ASSUME NEW t \in Seq(U) PROVE (<<Bar>> \o t)[1] = Bar
  <2> DEFINE bar == <<Bar>>
  <2>1. bar \in Seq(U) /\ Len(bar) = 1 /\ bar[1] = Bar
    BY <1>1
  <2> HIDE DEF bar
  <2>2. 1 \in 1..Len(bar)
    BY <2>1
  <2>3. (bar \o t)[1] = bar[1]
    BY <2>1, <2>2, Joined
  <2> QED BY <2>1, <2>3 DEF bar
<1> QED
  BY <1>1, <1>2, <1>3

\* What is in a printed shell of a content.
Fields(function, params, message) ==
    Field("function", function)
        \o (<<Bar>> \o (Field("params", params) \o (<<Bar>> \o Field("msg", message))))

LEMMA ContentShellIs ==
    ASSUME NEW f, NEW p, NEW m
    PROVE  /\ ContentShell(f, p, m).function = f /\ ContentShell(f, p, m).params = p
           /\ ContentShell(f, p, m).contMessage = m
  BY DEF ContentShell

LEMMA PrintedContent ==
    ASSUME NEW U, IsAlphabet(U), NEW f \in Seq(U), NEW p \in Seq(U), NEW m \in Seq(U)
    PROVE  /\ Fields(f, p, m) \in Seq(U)
           /\ PrintContent(ContentShell(f, p, m)) = Cat(C_SHELL, Cat(Fields(f, p, m), <<Close>>))
           /\ PrintContent(ContentShell(f, p, m)) \in Seq(U)
<1> DEFINE ff == Field("function", f)
           fp == Field("params", p)
           fm == Field("msg", m)
           bar == <<Bar>>
           close == <<Close>>
           op == C_SHELL
           content == ContentShell(f, p, m)
<1>1. /\ ff \in Seq(U) /\ fp \in Seq(U) /\ fm \in Seq(U) /\ bar \in Seq(U) /\ close \in Seq(U)
      /\ op \in Seq(U)
  BY FieldIs, BarIs, OpeningsAre DEF Names, Openings
<1> DEFINE fields == Cat(ff, Cat(bar, Cat(fp, Cat(bar, fm))))
<1>2. PrintContent(content) = Cat(Cat(Cat(Cat(Cat(Cat(op, ff), bar), fp), bar), fm), close)
  <2>1. content.function = f /\ content.params = p /\ content.contMessage = m
    BY ContentShellIs
  <2> HIDE DEF content
  <2> QED BY <2>1 DEF PrintContent, Cat
<1>3. fields = Fields(f, p, m)
  BY DEF Fields, Cat
<1> HIDE DEF ff, fp, fm, bar, close, op, content
<1>4. fields \in Seq(U) /\ Cat(Cat(Cat(Cat(Cat(op, ff), bar), fp), bar), fm) = Cat(op, fields)
  BY <1>1, TwoAfter
<1> HIDE DEF fields
<1>5. /\ PrintContent(content) = Cat(op, Cat(fields, close))
      /\ Cat(op, Cat(fields, close)) \in Seq(U)
  BY <1>1, <1>2, <1>4, CatLaws
<1> QED
  BY <1>3, <1>4, <1>5 DEF op, close, content

-----------------------------------------------------------------------------
(* Parameters *)

\* value disturbs no text it stands in.
IsLabel(value) == \A k \in 1..Len(value) : value[k] \notin {Bar, Eq, Open, Close}

LEMMA Headed ==
    ASSUME NEW U, IsAlphabet(U), NEW name \in Names, NEW value \in Seq(U), IsLabel(value),
           NEW rest \in Seq(U), Flat(rest)
    PROVE  LET text == Field(name, value) \o (<<Bar>> \o rest)
           IN  /\ text \in Seq(U) /\ Flat(text) /\ Found(text, name, value)
               /\ \A other \in Names \ {name} : \A found :
                      Found(rest, other, found) => Found(text, other, found)
<1> DEFINE tail == <<Bar>> \o rest
           field == Field(name, value)
<1>1. /\ IsPlainValue(value) /\ Flat(value)
  BY DEF IsLabel, IsPlainValue, Flat
<1>2. field \in Seq(U) /\ Flat(field)
  BY <1>1, FieldIs, FlatField
<1>3. <<Bar>> \in Seq(U) /\ Flat(<<Bar>>) /\ tail[1] = Bar
  BY BarIs
<1>4. tail \in Seq(U) /\ Flat(tail)
  BY <1>3, Joined, FlatJoined
<1>5. Found(field \o tail, name, value)
  <2> HIDE DEF tail
  <2> QED BY <1>1, <1>3, <1>4, FoundFirst
<1>6. ASSUME NEW other \in Names \ {name}, NEW found, Found(rest, other, found)
      PROVE  Found(field \o tail, other, found)
  BY <1>1, <1>6, FoundLater
<1> HIDE DEF tail, field
<1>7. field \o tail \in Seq(U) /\ Flat(field \o tail)
  BY <1>2, <1>4, Joined, FlatJoined
<1> QED
  BY <1>5, <1>6, <1>7 DEF tail, field

LEMMA Ended ==
    ASSUME NEW U, IsAlphabet(U), NEW name \in Names, NEW value \in Seq(U), IsLabel(value)
    PROVE  LET text == Field(name, value) \o <<Bar>>
           IN  text \in Seq(U) /\ Flat(text) /\ Found(text, name, value)
<1> DEFINE bar == <<Bar>>
           field == Field(name, value)
<1>1. /\ IsPlainValue(value) /\ Flat(value)
  BY DEF IsLabel, IsPlainValue, Flat
<1>2. field \in Seq(U) /\ Flat(field)
  BY <1>1, FieldIs, FlatField
<1>3. bar \in Seq(U) /\ Flat(bar) /\ bar[1] = Bar
  BY BarIs
<1> HIDE DEF bar
<1>4. Found(field \o bar, name, value)
  BY <1>1, <1>3, FoundFirst
<1> HIDE DEF field
<1>5. field \o bar \in Seq(U) /\ Flat(field \o bar)
  BY <1>2, <1>3, Joined, FlatJoined
<1> QED
  BY <1>4, <1>5 DEF bar, field

\* What is before the inner shell, in a packet and in an entry.
NetParams(type, flag) ==
    Field("log_type", type) \o (<<Bar>> \o (Field("flag", flag) \o <<Bar>>))

LogParams(author, seq, hash, signature) ==
    Field("author", author) \o (<<Bar>> \o
        (Field("seq", seq) \o (<<Bar>> \o
            (Field("prevHash", hash) \o (<<Bar>> \o
                (Field("signature", signature) \o <<Bar>>))))))

LEMMA NetParamsAre ==
    ASSUME NEW U, IsAlphabet(U), NEW type \in Seq(U), NEW flag \in Seq(U),
           IsLabel(type), IsLabel(flag), NEW params, params = NetParams(type, flag)
    PROVE  /\ params \in Seq(U) /\ Flat(params)
           /\ Value(params, "log_type") = type /\ Value(params, "flag") = flag
<1> DEFINE rest == Field("flag", flag) \o <<Bar>>
           text == Field("log_type", type) \o (<<Bar>> \o rest)
<1>0. "flag" \in Names /\ "log_type" \in Names
  BY DEF Names
<1>1. rest \in Seq(U) /\ Flat(rest) /\ Found(rest, "flag", flag)
  BY <1>0, Ended
<1> HIDE DEF rest
<1>2. text \in Seq(U) /\ Flat(text) /\ Found(text, "log_type", type) /\ Found(text, "flag", flag)
  BY <1>0, <1>1, Headed
<1>3. params = text
  BY DEF NetParams, rest
<1> HIDE DEF text
<1>4. Len(text) \in Nat
  BY <1>2
<1>5. Value(text, "log_type") = type /\ Value(text, "flag") = flag
  BY ONLY <1>2, <1>4, ValueIs
<1> QED
  BY <1>2, <1>3, <1>5

LEMMA LogParamsAre ==
    ASSUME NEW U, IsAlphabet(U),
           NEW author \in Seq(U), NEW seq \in Seq(U), NEW hash \in Seq(U), NEW signature \in Seq(U),
           IsLabel(author), IsLabel(seq), IsLabel(hash), IsLabel(signature),
           NEW params, params = LogParams(author, seq, hash, signature)
    PROVE  /\ params \in Seq(U) /\ Flat(params)
           /\ Value(params, "author") = author /\ Value(params, "seq") = seq
           /\ Value(params, "prevHash") = hash /\ Value(params, "signature") = signature
<1> DEFINE last == Field("signature", signature) \o <<Bar>>
           third == Field("prevHash", hash) \o (<<Bar>> \o last)
           second == Field("seq", seq) \o (<<Bar>> \o third)
           text == Field("author", author) \o (<<Bar>> \o second)
<1>0. "author" \in Names /\ "seq" \in Names /\ "prevHash" \in Names /\ "signature" \in Names
  BY DEF Names
<1>1. last \in Seq(U) /\ Flat(last) /\ Found(last, "signature", signature)
  BY <1>0, Ended
<1>2. params = text
  BY DEF LogParams
<1> HIDE DEF last
<1>3. /\ third \in Seq(U) /\ Flat(third) /\ Found(third, "prevHash", hash)
      /\ Found(third, "signature", signature)
  BY <1>0, <1>1, Headed
<1> HIDE DEF third
<1>4. /\ second \in Seq(U) /\ Flat(second) /\ Found(second, "seq", seq)
      /\ Found(second, "prevHash", hash) /\ Found(second, "signature", signature)
  BY <1>0, <1>3, Headed
<1> HIDE DEF second
<1>5. /\ text \in Seq(U) /\ Flat(text) /\ Found(text, "author", author)
      /\ Found(text, "seq", seq) /\ Found(text, "prevHash", hash)
      /\ Found(text, "signature", signature)
  BY <1>0, <1>4, Headed
<1> HIDE DEF text
<1>6. Len(text) \in Nat
  BY <1>5
<1>7. /\ Value(text, "author") = author /\ Value(text, "seq") = seq
      /\ Value(text, "prevHash") = hash /\ Value(text, "signature") = signature
  BY ONLY <1>5, <1>6, ValueIs
<1> QED
  BY <1>2, <1>5, <1>7

\* What Printer::packet makes of an entry and of a packet: an opening, the
\* parameters, the inner shell, and a close.
TypeText(packet) == <<<<packet.type>>>>
FlagText(packet) == <<<<"int", packet.flag>>>>

AuthorText(entry) == <<<<entry.authorId>>>>
SeqText(entry) == <<<<"int", entry.sequenceNum>>>>
HashText(entry) ==
    IF entry.prevEventHash = << >> THEN << >> ELSE <<<<"sha1", entry.prevEventHash>>>>
SignatureText(entry) ==
    IF entry.signature = << >> THEN << >> ELSE <<<<"double", entry.signature>>>>

LEMMA PrintedEntry ==
    ASSUME NEW U, IsAlphabet(U), NEW entry, NEW shell \in Seq(U), entry.shell = shell,
           NEW author \in Seq(U), author = AuthorText(entry),
           NEW seq \in Seq(U), seq = SeqText(entry),
           NEW hash \in Seq(U), hash = HashText(entry),
           NEW signature \in Seq(U), signature = SignatureText(entry),
           NEW params, params = LogParams(author, seq, hash, signature)
    PROVE  /\ Cat(params, shell) \in Seq(U)
           /\ PrintLog(entry) = Cat(L_SHELL, Cat(Cat(params, shell), <<Close>>))
           /\ PrintLog(entry) \in Seq(U)
<1> DEFINE fa == Field("author", author)
           fs == Field("seq", seq)
           fh == Field("prevHash", hash)
           fg == Field("signature", signature)
           bar == <<Bar>>
           close == <<Close>>
           op == L_SHELL
           x == Cat(Cat(Cat(Cat(op, fa), bar), fs), bar)
           last == Cat(fh, Cat(bar, Cat(fg, bar)))
           inside == Cat(params, shell)
<1>1. /\ fa \in Seq(U) /\ fs \in Seq(U) /\ fh \in Seq(U) /\ fg \in Seq(U)
      /\ bar \in Seq(U) /\ close \in Seq(U) /\ op \in Seq(U)
  BY FieldIs, BarIs, OpeningsAre DEF Names, Openings
<1>2. PrintLog(entry) = Cat(Cat(Cat(Cat(Cat(Cat(x, fh), bar), fg), bar), shell), close)
  <2>1. PrintLog(entry) =
            op \o fa \o bar \o fs \o bar \o fh \o bar \o fg \o bar \o shell \o close
    BY Zenon DEF PrintLog, AuthorText, SeqText, HashText, SignatureText
  <2> HIDE DEF fa, fs, fh, fg, bar, close, op
  <2> QED BY <2>1, Zenon DEF Cat
<1>3. params = Cat(fa, Cat(bar, Cat(fs, Cat(bar, last)))) /\ params \in Seq(U)
  <2>1. params = fa \o (bar \o (fs \o (bar \o (fh \o (bar \o (fg \o bar))))))
    BY Zenon DEF LogParams
  <2>2. last \in Seq(U)
    BY <1>1, CatLaws
  <2> HIDE DEF fa, fs, fh, fg, bar, close, op
  <2>3. params = Cat(fa, Cat(bar, Cat(fs, Cat(bar, Cat(fh, Cat(bar, Cat(fg, bar)))))))
    BY <2>1, Zenon DEF Cat
  <2>4. params = Cat(fa, Cat(bar, Cat(fs, Cat(bar, last))))
    BY <2>3 DEF last
  <2> HIDE DEF last
  <2>5. Cat(fa, Cat(bar, Cat(fs, Cat(bar, last)))) \in Seq(U)
    BY <1>1, <2>2, CatLaws
  <2> QED BY <2>4, <2>5
<1> HIDE DEF fa, fs, fh, fg, bar, close, op
<1>4. x \in Seq(U) /\ last \in Seq(U)
  BY <1>1, CatLaws
<1>5. inside \in Seq(U)
  BY <1>3, CatLaws
<1> DEFINE t == Cat(fh, Cat(bar, Cat(fg, Cat(bar, shell))))
<1>6. t \in Seq(U) /\ Cat(Cat(Cat(Cat(Cat(x, fh), bar), fg), bar), shell) = Cat(x, t)
  <2> HIDE DEF x
  <2> QED BY <1>1, <1>4, TwoAfter
<1>7. Cat(last, shell) = t
  <2>1. fh \in Seq(U) /\ bar \in Seq(U) /\ fg \in Seq(U) /\ shell \in Seq(U)
    BY <1>1
  <2> QED BY ONLY <2>1, TwoBefore
<1> HIDE DEF t
<1>8. Cat(x, t) = Cat(op, Cat(fa, Cat(bar, Cat(fs, Cat(bar, t)))))
  BY <1>1, <1>6, TwoAfter
<1>9. inside = Cat(fa, Cat(bar, Cat(fs, Cat(bar, t))))
  <2> DEFINE bl == Cat(bar, last)
  <2>1. bl \in Seq(U) /\ Cat(bl, shell) = Cat(bar, t)
    BY <1>1, <1>4, <1>7, CatLaws, SMTT(30)
  <2> HIDE DEF last, bl
  <2>2. Cat(Cat(fa, Cat(bar, Cat(fs, bl))), shell) = Cat(fa, Cat(bar, Cat(fs, Cat(bl, shell))))
    <3>1. fa \in Seq(U) /\ bar \in Seq(U) /\ fs \in Seq(U) /\ bl \in Seq(U)
      BY <1>1, <2>1
    <3> QED BY ONLY <3>1, shell \in Seq(U), TwoBefore, SMTT(30)
  <2> QED BY <1>3, <2>1, <2>2 DEF bl
<1>10. PrintLog(entry) = Cat(Cat(op, inside), close)
  BY <1>2, <1>6, <1>8, <1>9
<1> HIDE DEF inside
<1>11. PrintLog(entry) = Cat(op, Cat(inside, close)) /\ Cat(op, Cat(inside, close)) \in Seq(U)
  BY <1>1, <1>5, <1>10, CatLaws
<1> QED
  BY <1>5, <1>11, Zenon DEF op, close, inside

LEMMA PrintedPacket ==
    ASSUME NEW U, IsAlphabet(U), NEW packet, NEW log \in Seq(U), PrintLog(packet.shell) = log,
           NEW type \in Seq(U), type = TypeText(packet),
           NEW flag \in Seq(U), flag = FlagText(packet),
           NEW params, params = NetParams(type, flag)
    PROVE  /\ Cat(params, log) \in Seq(U)
           /\ PrintNet(packet) = Cat(N_SHELL, Cat(Cat(params, log), <<Close>>))
           /\ PrintNet(packet) \in Seq(U)
<1> DEFINE ft == Field("log_type", type)
           ff == Field("flag", flag)
           bar == <<Bar>>
           close == <<Close>>
           op == N_SHELL
           inside == Cat(params, log)
<1>1. /\ ft \in Seq(U) /\ ff \in Seq(U)
      /\ bar \in Seq(U) /\ close \in Seq(U) /\ op \in Seq(U)
  BY FieldIs, BarIs, OpeningsAre DEF Names, Openings
<1>2. PrintNet(packet) = Cat(Cat(Cat(Cat(Cat(Cat(op, ft), bar), ff), bar), log), close)
  <2>1. PrintNet(packet) = op \o ft \o bar \o ff \o bar \o log \o close
    BY Zenon DEF PrintNet, TypeText, FlagText
  <2> HIDE DEF ft, ff, bar, close, op
  <2> QED BY <2>1, Zenon DEF Cat
<1>3. params = Cat(ft, Cat(bar, Cat(ff, bar))) /\ params \in Seq(U)
  <2>1. params = ft \o (bar \o (ff \o bar))
    BY Zenon DEF NetParams
  <2> HIDE DEF ft, ff, bar, close, op
  <2>2. params = Cat(ft, Cat(bar, Cat(ff, bar)))
    BY <2>1, Zenon DEF Cat
  <2> QED BY <1>1, <2>2, CatLaws
<1> HIDE DEF ft, ff, bar, close, op
<1>4. inside \in Seq(U)
  BY <1>3, CatLaws
<1>5. inside = Cat(ft, Cat(bar, Cat(ff, Cat(bar, log))))
  BY <1>1, <1>3, TwoBefore
<1>6. PrintNet(packet) = Cat(Cat(op, inside), close)
  BY <1>1, <1>2, <1>5, TwoAfter
<1> HIDE DEF inside
<1>7. PrintNet(packet) = Cat(op, Cat(inside, close)) /\ Cat(op, Cat(inside, close)) \in Seq(U)
  BY <1>1, <1>4, <1>6, CatLaws
<1> QED
  BY <1>4, <1>7, Zenon DEF op, close, inside

-----------------------------------------------------------------------------
(* Sending *)

LEMMA GreatestExists ==
    ASSUME NEW n \in Nat, NEW S \in SUBSET (0..n), S # {}
    PROVE  Max(S) \in S /\ \A k \in S : k <= Max(S)
<1> DEFINE R == {n - k : k \in S}
<1>1. R \in SUBSET Nat /\ R # {}
  <2>1. \A k \in S : n - k \in Nat
    OBVIOUS
  <2>2. \A r \in R : r \in Nat
    BY <2>1
  <2>3. PICK k \in S : TRUE
    OBVIOUS
  <2>4. n - k \in R
    BY <2>3
  <2> QED BY <2>2, <2>4, Zenon
<1>2. Min(R) \in R /\ \A k \in R : Min(R) <= k
  <2> HIDE DEF R
  <2> QED BY <1>1, LeastExists
<1>3. PICK k \in S : Min(R) = n - k
  BY <1>2
<1>4. ASSUME NEW j \in S PROVE j <= k
  <2>1. n - j \in R
    OBVIOUS
  <2>2. n - k <= n - j
    BY <1>2, <1>3, <2>1
  <2> QED BY <2>2
<1>5. Max(S) = k
  <2>1. S \in SUBSET Int
    OBVIOUS
  <2> QED BY <1>4, <2>1, MaxIs
<1> QED
  BY <1>4, <1>5

\* What is parsed from a text is a text of the same tokens.
LEMMA ValueText ==
    ASSUME NEW U, NEW text \in Seq(U), NEW name
    PROVE  Value(text, name) \in Seq(U)
<1> DEFINE named == {i \in {0} \cup Positions(text, Bar) :
                        varSplitter(Part(text, i))[1] = <<<<name>>>>}
<1>1. CASE named = {}
  BY <1>1 DEF Value
<1>2. CASE named # {}
  <2> DEFINE i == Min(named)
             part == Part(text, i)
             last == Max({0} \cup Positions(part, Eq))
  <2>1. named \in SUBSET Nat /\ named \subseteq 0..Len(text)
    BY DEF Positions
  <2>2. i \in 0..Len(text)
    <3> HIDE DEF named
    <3> QED BY <1>2, <2>1, LeastExists
  <2> HIDE DEF i
  <2>3. part \in Seq(U)
    BY <2>2, PartIs
  <2> HIDE DEF part
  <2>4. last \in 0..Len(part)
    <3> DEFINE S == {0} \cup Positions(part, Eq)
    <3>1. Len(part) \in Nat /\ S \in SUBSET (0..Len(part)) /\ S # {}
      BY <2>3 DEF Positions
    <3> HIDE DEF S
    <3>2. Max(S) \in S
      BY <3>1, GreatestExists
    <3> QED BY <3>1, <3>2 DEF S
  <2> HIDE DEF last
  <2>5. SubSeq(part, last + 1, Len(part)) \in Seq(U)
    BY <2>3, <2>4, SubText
  <2>6. varSplitter(part)[2] = SubSeq(part, last + 1, Len(part))
    BY DEF varSplitter, last
  <2>7. Value(text, name) = varSplitter(part)[2]
    BY <1>2 DEF Value, part, i
  <2> QED BY <2>5, <2>6, <2>7
<1> QED
  BY <1>1, <1>2

\* What parsing and printing make of a printed content.
Reprinted(text) == PrintContent(ParseContent(Inner(text, C_SHELL)))

LEMMA FieldsAreInside ==
    ASSUME NEW U, IsAlphabet(U), NEW f \in Seq(U), NEW p \in Seq(U), NEW m \in Seq(U)
    PROVE  /\ Fields(f, p, m) \in Seq(U)
           /\ Inner(PrintContent(ContentShell(f, p, m)), C_SHELL) = Fields(f, p, m)
<1> DEFINE fields == Fields(f, p, m)
           none == << >>
           all == PrintContent(ContentShell(f, p, m))
<1>1. fields \in Seq(U) /\ all = Cat(C_SHELL, Cat(fields, <<Close>>)) /\ all \in Seq(U)
  BY PrintedContent
<1>2. none \in Seq(U) /\ Flat(none)
  BY DEF Flat
<1>3. C_SHELL \in Openings
  BY DEF Openings
<1> HIDE DEF fields, all
<1>4. Cat(none, all) = all
  BY <1>1, ConcatEmptySeq DEF Cat
<1> HIDE DEF none
<1>5. all = Cat(none, Cat(C_SHELL, Cat(fields, <<Close>>)))
  BY <1>1, <1>4
<1>6. Inner(all, C_SHELL) = fields
  <2>1. fields \in Seq(U)
    BY <1>1
  <2> QED BY ONLY IsAlphabet(U), <1>2, <1>3, <1>5, <2>1, ShellIs, SMTT(30)
<1> QED
  BY <1>1, <1>6 DEF fields, all

LEMMA LabelsAre ==
    ASSUME NEW U, NEW token \in U, token \notin {Bar, Eq, Open, Close}
    PROVE  <<token>> \in Seq(U) /\ IsLabel(<<token>>)
  BY DEF IsLabel

LEMMA NoLabel ==
    ASSUME NEW U
    PROVE  << >> \in Seq(U) /\ IsLabel(<< >>)
  BY DEF IsLabel

\* Where helpFunction finds the parameters and the inner shells.
LEMMA ShellsAreFound ==
    ASSUME NEW U, IsAlphabet(U), NEW np \in Seq(U), Flat(np), NEW lp \in Seq(U), Flat(lp),
           NEW fields \in Seq(U),
           NEW shell, shell = Cat(C_SHELL, Cat(fields, <<Close>>)),
           NEW log, log = Cat(L_SHELL, Cat(Cat(lp, shell), <<Close>>)),
           NEW text, text = Cat(N_SHELL, Cat(Cat(np, log), <<Close>>))
    PROVE  /\ Outer(Inner(text, N_SHELL), L_SHELL) = np
           /\ Outer(Inner(Inner(text, N_SHELL), L_SHELL), C_SHELL) = lp
           /\ Inner(Inner(Inner(text, N_SHELL), L_SHELL), C_SHELL) = fields
<1> DEFINE none == << >>
           close == <<Close>>
           li == Cat(lp, shell)
           ni == Cat(np, log)
<1>1. none \in Seq(U) /\ Flat(none)
  BY DEF Flat
<1>2. Flat(np)
  OBVIOUS
<1>3. Flat(lp)
  OBVIOUS
<1>4. /\ N_SHELL \in Openings /\ L_SHELL \in Openings /\ C_SHELL \in Openings
      /\ N_SHELL \in Seq(U) /\ L_SHELL \in Seq(U) /\ C_SHELL \in Seq(U) /\ close \in Seq(U)
  BY OpeningsAre, BarIs DEF Openings
<1>5. shell \in Seq(U) /\ li \in Seq(U)
  BY <1>4, CatLaws
<1>6. log \in Seq(U) /\ ni \in Seq(U)
  BY <1>4, <1>5, CatLaws
<1>7. text \in Seq(U)
  BY <1>4, <1>6, CatLaws
<1>8. Cat(none, text) = text
  BY <1>7, ConcatEmptySeq DEF Cat
<1>9. /\ text = Cat(none, Cat(N_SHELL, Cat(ni, <<Close>>)))
      /\ ni = Cat(np, Cat(L_SHELL, Cat(li, <<Close>>)))
      /\ li = Cat(lp, Cat(C_SHELL, Cat(fields, <<Close>>)))
  BY <1>8
<1>10. li \in Seq(U) /\ ni \in Seq(U)
  BY <1>5, <1>6
<1> HIDE DEF none, li, ni
<1>11. Inner(text, N_SHELL) = ni
  <2>1. text = Cat(none, Cat(N_SHELL, Cat(ni, <<Close>>)))
    BY <1>9
  <2>2. N_SHELL \in Openings /\ ni \in Seq(U)
    BY <1>4, <1>10
  <2> QED BY ONLY IsAlphabet(U), <1>1, <2>1, <2>2, ShellIs
<1>12. Inner(ni, L_SHELL) = li /\ Outer(ni, L_SHELL) = np
  <2>1. ni = Cat(np, Cat(L_SHELL, Cat(li, <<Close>>)))
    BY <1>9
  <2>2. L_SHELL \in Openings /\ li \in Seq(U)
    BY <1>4, <1>10
  <2> QED BY ONLY IsAlphabet(U), np \in Seq(U), <1>2, <2>1, <2>2, ShellIs
<1>13. Inner(li, C_SHELL) = fields /\ Outer(li, C_SHELL) = lp
  <2>1. li = Cat(lp, Cat(C_SHELL, Cat(fields, <<Close>>)))
    BY <1>9
  <2>2. C_SHELL \in Openings
    BY <1>4
  <2> QED BY ONLY IsAlphabet(U), lp \in Seq(U), fields \in Seq(U), <1>3, <2>1, <2>2, ShellIs
<1> QED
  BY <1>11, <1>12, <1>13

LEMMA SentFields ==
    ASSUME NEW U, IsAlphabet(U), NEW f \in Seq(U), NEW p \in Seq(U), NEW m \in Seq(U),
           NEW seq, NEW hash, NEW signature, NEW flag,
           <<LogType>> \in U, <<"int", flag>> \in U, <<Author>> \in U, <<"int", seq>> \in U,
           <<"sha1", hash>> \in U, <<"double", signature>> \in U,
           NEW shell, shell = PrintContent(ContentShell(f, p, m))
    PROVE  Sent(LogShell(seq, hash, Author, signature, shell), flag)
               = Packet(LogShell(seq, hash, Author, signature, Reprinted(shell)), flag)
<1> DEFINE vt == <<<<LogType>>>>
           vf == <<<<"int", flag>>>>
           va == <<<<Author>>>>
           vs == <<<<"int", seq>>>>
           vh == IF hash = << >> THEN << >> ELSE <<<<"sha1", hash>>>>
           vg == IF signature = << >> THEN << >> ELSE <<<<"double", signature>>>>
           entry == LogShell(seq, hash, Author, signature, shell)
           packet == Packet(entry, flag)
           np == NetParams(vt, vf)
           lp == LogParams(va, vs, vh, vg)
           fields == Fields(f, p, m)
           log == PrintLog(entry)
           text == PrintNet(packet)
<1>1. /\ vt \in Seq(U) /\ IsLabel(vt) /\ va \in Seq(U) /\ IsLabel(va)
  BY NamesAreWords, LabelsAre
<1>2. /\ vf \in Seq(U) /\ IsLabel(vf) /\ vs \in Seq(U) /\ IsLabel(vs)
  BY PairsDiffer, LabelsAre
<1>3. /\ vh \in Seq(U) /\ IsLabel(vh) /\ vg \in Seq(U) /\ IsLabel(vg)
  <2>1. <<<<"sha1", hash>>>> \in Seq(U) /\ IsLabel(<<<<"sha1", hash>>>>)
    BY PairsDiffer, LabelsAre
  <2>2. <<<<"double", signature>>>> \in Seq(U) /\ IsLabel(<<<<"double", signature>>>>)
    BY PairsDiffer, LabelsAre
  <2> QED BY <2>1, <2>2, NoLabel
<1>4. /\ Word(vt) = LogType /\ Token(vf) = flag /\ Word(va) = Author /\ Token(vs) = seq
      /\ Token(vh) = hash /\ Token(vg) = signature
  BY DEF Word, Token
<1>5. /\ packet.type = LogType /\ packet.flag = flag /\ packet.shell = entry
      /\ entry.sequenceNum = seq /\ entry.prevEventHash = hash /\ entry.authorId = Author
      /\ entry.signature = signature /\ entry.shell = shell
  BY DEF Packet, LogShell
<1>6. /\ va = AuthorText(entry) /\ vs = SeqText(entry) /\ vh = HashText(entry)
      /\ vg = SignatureText(entry) /\ vt = TypeText(packet) /\ vf = FlagText(packet)
  BY <1>5, Zenon DEF AuthorText, SeqText, HashText, SignatureText, TypeText, FlagText
<1> HIDE DEF vt, vf, va, vs, vh, vg, entry, packet
<1>params. np = NetParams(vt, vf) /\ lp = LogParams(va, vs, vh, vg)
  OBVIOUS
<1>fields. fields = Fields(f, p, m)
  OBVIOUS
<1> HIDE DEF np, lp, fields
<1>7. /\ np \in Seq(U) /\ Flat(np)
      /\ Value(np, "log_type") = vt /\ Value(np, "flag") = vf
  BY ONLY IsAlphabet(U), <1>1, <1>2, <1>params, NetParamsAre
<1>8. /\ lp \in Seq(U) /\ Flat(lp) /\ Value(lp, "author") = va /\ Value(lp, "seq") = vs
      /\ Value(lp, "prevHash") = vh /\ Value(lp, "signature") = vg
  <2>1. va \in Seq(U) /\ vs \in Seq(U) /\ vh \in Seq(U) /\ vg \in Seq(U)
    BY <1>1, <1>2, <1>3
  <2>2. IsLabel(va) /\ IsLabel(vs) /\ IsLabel(vh) /\ IsLabel(vg)
    BY <1>1, <1>2, <1>3
  <2>3. lp = LogParams(va, vs, vh, vg)
    BY <1>params
  <2> QED BY ONLY IsAlphabet(U), <2>1, <2>2, <2>3, LogParamsAre
<1>9. /\ fields \in Seq(U) /\ shell = Cat(C_SHELL, Cat(fields, <<Close>>)) /\ shell \in Seq(U)
      /\ Inner(shell, C_SHELL) = fields
  <2> DEFINE all == PrintContent(ContentShell(f, p, m))
  <2>1. f \in Seq(U) /\ p \in Seq(U) /\ m \in Seq(U) /\ shell = all
    OBVIOUS
  <2>2. /\ Fields(f, p, m) \in Seq(U) /\ Inner(all, C_SHELL) = Fields(f, p, m)
        /\ all = Cat(C_SHELL, Cat(Fields(f, p, m), <<Close>>)) /\ all \in Seq(U)
    BY ONLY IsAlphabet(U), <2>1, PrintedContent, FieldsAreInside
  <2> HIDE DEF all
  <2> QED BY ONLY <1>fields, <2>1, <2>2
<1>10. log \in Seq(U) /\ log = Cat(L_SHELL, Cat(Cat(lp, shell), <<Close>>))
  <2>1. entry.shell = shell /\ shell \in Seq(U) /\ lp = LogParams(va, vs, vh, vg)
    BY <1>params, <1>5, <1>9
  <2>2. va \in Seq(U) /\ vs \in Seq(U) /\ vh \in Seq(U) /\ vg \in Seq(U)
    BY <1>1, <1>2, <1>3
  <2>3. va = AuthorText(entry) /\ vs = SeqText(entry) /\ vh = HashText(entry) /\ vg = SignatureText(entry)
    BY <1>6
  <2> QED BY ONLY IsAlphabet(U), <2>1, <2>2, <2>3, PrintedEntry, SMTT(60) DEF log
<1> HIDE DEF log
<1>11. text = Cat(N_SHELL, Cat(Cat(np, log), <<Close>>))
  <2>1. np = NetParams(vt, vf) /\ PrintLog(packet.shell) = log
    BY <1>5, <1>params DEF log
  <2>2. vt \in Seq(U) /\ vf \in Seq(U) /\ log \in Seq(U)
    BY ONLY <1>1, <1>2, <1>10
  <2>3. vt = TypeText(packet) /\ vf = FlagText(packet)
    BY <1>6
  <2> QED BY ONLY IsAlphabet(U), <2>1, <2>2, <2>3, PrintedPacket, SMTT(60) DEF text
<1> HIDE DEF text
<1>12. /\ Outer(Inner(text, N_SHELL), L_SHELL) = np
       /\ Outer(Inner(Inner(text, N_SHELL), L_SHELL), C_SHELL) = lp
       /\ Inner(Inner(Inner(text, N_SHELL), L_SHELL), C_SHELL) = fields
  <2>1. np \in Seq(U) /\ Flat(np) /\ lp \in Seq(U) /\ Flat(lp) /\ fields \in Seq(U)
    BY ONLY <1>7, <1>8, <1>9
  <2>2. /\ shell = Cat(C_SHELL, Cat(fields, <<Close>>))
        /\ log = Cat(L_SHELL, Cat(Cat(lp, shell), <<Close>>))
    BY ONLY <1>9, <1>10
  <2> QED BY ONLY IsAlphabet(U), <2>1, <2>2, <1>11, ShellsAreFound
<1>13. helpFunction(text) =
           [type |-> LogType, flag |-> flag,
            shell |-> [authorId |-> Author, sequenceNum |-> seq, prevEventHash |-> hash,
                       signature |-> signature, shell |-> PrintContent(ParseContent(fields))]]
  BY <1>4, <1>7, <1>8, <1>12 DEF helpFunction
<1>14. PrintContent(ParseContent(fields)) = Reprinted(shell)
  BY <1>9 DEF Reprinted
<1>15. helpFunction(text) = Packet(LogShell(seq, hash, Author, signature, Reprinted(shell)), flag)
  BY <1>13, <1>14 DEF Packet, LogShell
<1> QED
  BY <1>15, Zenon DEF Sent, text, packet, entry

-----------------------------------------------------------------------------
(* Plain contents *)

\* How often a text has a token.
Count(text, token) == Cardinality(Positions(text, token))

LEMMA CountIs ==
    ASSUME NEW U, NEW s \in Seq(U), NEW token
    PROVE  /\ IsFiniteSet(Positions(s, token)) /\ Count(s, token) \in Nat
           /\ Count(s, token) = 0 <=> \A k \in 1..Len(s) : s[k] # token
<1>1. IsFiniteSet(1..Len(s)) /\ Positions(s, token) \in SUBSET (1..Len(s))
  BY FS_Interval DEF Positions
<1>2. IsFiniteSet(Positions(s, token))
  BY <1>1, FS_Subset
<1>3. Count(s, token) \in Nat
  BY <1>2, FS_CardinalityType DEF Count
<1>4. Count(s, token) = 0 <=> Positions(s, token) = {}
  BY <1>2, FS_EmptySet DEF Count
<1>5. Positions(s, token) = {} <=> \A k \in 1..Len(s) : s[k] # token
  BY DEF Positions
<1> QED
  BY <1>2, <1>3, <1>4, <1>5

LEMMA CountJoined ==
    ASSUME NEW U, NEW s \in Seq(U), NEW t \in Seq(U), NEW token
    PROVE  Count(Cat(s, t), token) = Count(s, token) + Count(t, token)
<1> DEFINE w == Cat(s, t)
           l == Len(s)
           P == Positions(s, token)
           Q == Positions(t, token)
           R == {l + k : k \in Q}
           F == [k \in Q |-> l + k]
<1>1. /\ w \in Seq(U) /\ Len(w) = l + Len(t) /\ l \in Nat /\ Len(t) \in Nat
      /\ \A k \in 1..l : w[k] = s[k]
      /\ \A k \in 1..Len(t) : w[l + k] = t[k]
      /\ \A k \in (l + 1)..(l + Len(t)) : w[k] = t[k - l]
  BY Joined DEF Cat
<1>2. /\ IsFiniteSet(P) /\ Cardinality(P) \in Nat /\ IsFiniteSet(Q) /\ Cardinality(Q) \in Nat
      /\ P \subseteq 1..l /\ Q \subseteq 1..Len(t)
  BY CountIs DEF Count, Positions
<1> HIDE DEF w, l
<1>3. Positions(w, token) = P \cup R
  <2>1. ASSUME NEW k \in Positions(w, token) PROVE k \in P \cup R
    <3>1. k \in 1..Len(w) /\ w[k] = token
      BY <2>1 DEF Positions
    <3>2. CASE k <= l
      BY <1>1, <3>1, <3>2 DEF Positions, l
    <3>3. CASE k > l
      <4>1. k \in (l + 1)..(l + Len(t))
        BY <1>1, <3>1, <3>3
      <4>2. k - l \in Q /\ k = l + (k - l)
        BY <1>1, <3>1, <4>1 DEF Positions
      <4> QED BY <4>2
    <3> QED BY <1>1, <3>1, <3>2, <3>3
  <2>2. ASSUME NEW k \in P PROVE k \in Positions(w, token)
    BY <1>1, <1>2, <2>2, SMTT(30) DEF Positions
  <2>3. ASSUME NEW k \in Q PROVE l + k \in Positions(w, token)
    BY <1>1, <1>2, <2>3 DEF Positions
  <2> QED BY <2>1, <2>2, <2>3
<1> HIDE DEF P, Q
<1>4. IsFiniteSet(R) /\ Cardinality(R) = Cardinality(Q)
  <2>1. F \in Bijection(Q, R)
    <3>1. F \in [Q -> R]
      OBVIOUS
    <3>2. \A a, b \in Q : F[a] = F[b] => a = b
      BY <1>1, <1>2
    <3>3. \A r \in R : \E k \in Q : F[k] = r
      OBVIOUS
    <3> HIDE DEF F, R
    <3> QED BY <3>1, <3>2, <3>3 DEF Bijection, Injection, Surjection, IsInjective
  <2>2. ExistsBijection(Q, R)
    BY <2>1 DEF ExistsBijection
  <2> HIDE DEF R
  <2> QED BY <1>2, <2>2, FS_Bijection
<1>5. P \cap R = {}
  BY <1>1, <1>2
<1> HIDE DEF R
<1>6. Cardinality(P \cup R) = Cardinality(P) + Cardinality(Q)
  <2>1. Cardinality(P \cup R) = Cardinality(P) + Cardinality(R) - Cardinality(P \cap R)
    BY <1>2, <1>4, FS_Union
  <2>2. Cardinality(P \cap R) = 0
    BY <1>5, FS_EmptySet
  <2> QED BY <1>2, <1>4, <2>1, <2>2
<1> QED
  BY <1>3, <1>6 DEF Count, P, Q, w

\* A field has the tokens of its value, and an equals sign.
LEMMA CountField ==
    ASSUME NEW U, IsAlphabet(U), NEW name \in Names, NEW value \in Seq(U)
    PROVE  /\ Count(Field(name, value), Eq) = Count(value, Eq) + 1
           /\ Count(Field(name, value), Bar) = Count(value, Bar)
<1> DEFINE start == <<<<name>>, Eq>>
<1>1. start \in Seq(U) /\ Len(start) = 2 /\ start[1] = <<name>> /\ start[2] = Eq
  BY DEF IsAlphabet, Marks
<1>2. Field(name, value) = Cat(start, value)
  BY Zenon DEF Field, Cat
<1> HIDE DEF start
<1>names. Len(start) = 2 /\ start[1] # Eq /\ start[1] # Bar /\ start[2] = Eq /\ Eq # Bar
  BY <1>1, MarksDiffer
<1>3. Count(start, Eq) = 1
  <2>1. Positions(start, Eq) = {2}
    BY ONLY <1>names DEF Positions
  <2> QED BY <2>1, FS_Singleton DEF Count
<1>4. Count(start, Bar) = 0
  <2>1. \A k \in 1..Len(start) : start[k] # Bar
    BY ONLY <1>names
  <2> QED BY <1>1, <2>1, CountIs
<1>5. Count(value, Eq) \in Nat /\ Count(value, Bar) \in Nat
  BY CountIs
<1> QED
  BY <1>1, <1>2, <1>3, <1>4, <1>5, CountJoined

\* The delimiters of a printed content are its own and those of its values.
LEMMA CountContent ==
    ASSUME NEW U, IsAlphabet(U), NEW f \in Seq(U), NEW p \in Seq(U), NEW m \in Seq(U),
           NEW text, text = PrintContent(ContentShell(f, p, m))
    PROVE  /\ Count(text, Bar) = 2 + Count(f, Bar) + Count(p, Bar) + Count(m, Bar)
           /\ Count(text, Eq) = 4 + Count(f, Eq) + Count(p, Eq) + Count(m, Eq)
<1> DEFINE ff == Field("function", f)
           fp == Field("params", p)
           fm == Field("msg", m)
           bar == <<Bar>>
           close == <<Close>>
           op == C_SHELL
           bm == Cat(bar, fm)
           pm == Cat(fp, bm)
           bpm == Cat(bar, pm)
           fields == Cat(ff, bpm)
           end == Cat(fields, close)
<1>1. /\ ff \in Seq(U) /\ fp \in Seq(U) /\ fm \in Seq(U) /\ bar \in Seq(U) /\ close \in Seq(U)
      /\ op \in Seq(U)
  BY FieldIs, BarIs, OpeningsAre DEF Names, Openings
<1>2. text = Cat(op, end)
  <2>1. fields = Fields(f, p, m)
    BY Zenon DEF Fields, Cat
  <2> QED BY <2>1, PrintedContent
<1>3. /\ Count(ff, Bar) = Count(f, Bar) /\ Count(ff, Eq) = Count(f, Eq) + 1
      /\ Count(fp, Bar) = Count(p, Bar) /\ Count(fp, Eq) = Count(p, Eq) + 1
      /\ Count(fm, Bar) = Count(m, Bar) /\ Count(fm, Eq) = Count(m, Eq) + 1
  BY CountField DEF Names
<1>4. Count(bar, Bar) = 1 /\ Count(bar, Eq) = 0 /\ Count(close, Bar) = 0 /\ Count(close, Eq) = 0
  <2>1. /\ Len(bar) = 1 /\ bar[1] = Bar /\ Len(close) = 1 /\ close[1] = Close
    OBVIOUS
  <2> HIDE DEF bar, close
  <2>2. Positions(bar, Bar) = {1}
    BY <2>1 DEF Positions
  <2>3. \A k \in 1..1 : bar[k] # Eq /\ close[k] # Bar /\ close[k] # Eq
    BY <2>1, MarksDiffer
  <2>4. Count(bar, Bar) = 1
    BY <2>2, FS_Singleton DEF Count
  <2>5. Count(bar, Eq) = 0
    BY <1>1, <2>1, <2>3, CountIs
  <2>6. Count(close, Bar) = 0 /\ Count(close, Eq) = 0
    BY <1>1, <2>1, <2>3, CountIs
  <2> QED BY <2>4, <2>5, <2>6
<1>5. Count(op, Bar) = 0 /\ Count(op, Eq) = 1
  <2>1. /\ Len(op) = 3 /\ op[1] # Eq /\ op[1] # Bar /\ op[2] = Eq /\ op[3] = Open
    BY OpeningsAre DEF Openings
  <2> HIDE DEF op
  <2>2. Positions(op, Eq) = {2}
    BY <2>1, MarksDiffer DEF Positions
  <2>3. \A k \in 1..3 : op[k] # Bar
    BY <2>1, MarksDiffer
  <2>4. Count(op, Eq) = 1
    BY <2>2, FS_Singleton DEF Count
  <2>5. Count(op, Bar) = 0
    BY <1>1, <2>1, <2>3, CountIs
  <2> QED BY <2>4, <2>5
<1> HIDE DEF ff, fp, fm, bar, close, op
<1>6. bm \in Seq(U) /\ pm \in Seq(U) /\ bpm \in Seq(U) /\ fields \in Seq(U) /\ end \in Seq(U)
  BY <1>1, CatLaws
<1> HIDE DEF bm, pm, bpm, fields, end
<1>7. ASSUME NEW x PROVE Count(text, x) = Count(op, x) + (Count(ff, x) + (Count(bar, x)
                             + (Count(fp, x) + (Count(bar, x) + Count(fm, x)))) + Count(close, x))
  <2>1. Count(bm, x) = Count(bar, x) + Count(fm, x)
    BY <1>1, CountJoined DEF bm
  <2>2. Count(pm, x) = Count(fp, x) + Count(bm, x)
    BY <1>1, <1>6, CountJoined DEF pm
  <2>3. Count(bpm, x) = Count(bar, x) + Count(pm, x)
    BY <1>1, <1>6, CountJoined DEF bpm
  <2>4. Count(fields, x) = Count(ff, x) + Count(bpm, x)
    BY <1>1, <1>6, CountJoined DEF fields
  <2>5. Count(end, x) = Count(fields, x) + Count(close, x)
    BY <1>1, <1>6, CountJoined DEF end
  <2>6. Count(text, x) = Count(op, x) + Count(end, x)
    BY <1>1, <1>2, <1>6, CountJoined
  <2> QED BY <2>1, <2>2, <2>3, <2>4, <2>5, <2>6
<1>8. Count(text, Bar) = 2 + Count(f, Bar) + Count(p, Bar) + Count(m, Bar)
  <2>1. Count(f, Bar) \in Nat /\ Count(p, Bar) \in Nat /\ Count(m, Bar) \in Nat
    BY CountIs
  <2>2. Count(text, Bar) = 0 + (Count(f, Bar) + (1 + (Count(p, Bar) + (1 + Count(m, Bar)))) + 0)
    BY <1>3, <1>4, <1>5, <1>7
  <2> QED BY <2>1, <2>2
<1>9. Count(text, Eq) = 4 + Count(f, Eq) + Count(p, Eq) + Count(m, Eq)
  <2>1. Count(f, Eq) \in Nat /\ Count(p, Eq) \in Nat /\ Count(m, Eq) \in Nat
    BY CountIs
  <2>2. Count(text, Eq) = 1 + (Count(f, Eq) + 1 + (0 + (Count(p, Eq) + 1 + (0 + (Count(m, Eq) + 1)))) + 0)
    BY <1>3, <1>4, <1>5, <1>7
  <2> QED BY <2>1, <2>2
<1> QED
  BY <1>8, <1>9

LEMMA FieldsAreFound ==
    ASSUME NEW U, IsAlphabet(U), NEW f \in Seq(U), NEW p \in Seq(U), NEW m \in Seq(U),
           IsPlainValue(f), IsPlainValue(p), IsPlainValue(m)
    PROVE  ParseContent(Fields(f, p, m)) = ContentShell(f, p, m)
<1> DEFINE bar == <<Bar>>
           fm == Field("msg", m)
           bm == bar \o fm
           pm == Field("params", p) \o bm
           bpm == bar \o pm
           fields == Field("function", f) \o bpm
<1>0. "function" \in Names /\ "params" \in Names /\ "msg" \in Names
  BY DEF Names
<1>1. fm \in Seq(U) /\ bar \in Seq(U) /\ Field("params", p) \in Seq(U)
  BY <1>0, FieldIs, BarIs
<1>2. Found(fm, "msg", m)
  <2>1. Found(fm \o << >>, "msg", m)
    <3> DEFINE none == << >>
    <3>1. none \in Seq(U) /\ none = << >>
      OBVIOUS
    <3> HIDE DEF none
    <3>2. Found(Field("msg", m) \o none, "msg", m)
      BY <1>0, <3>1, FoundFirst
    <3> QED BY <3>1, <3>2
  <2>2. fm \o << >> = fm
    <3> HIDE DEF fm
    <3> QED BY <1>1, ConcatEmptySeq
  <2> QED BY <2>1, <2>2
<1> HIDE DEF fm
<1>3. bm \in Seq(U) /\ bm[1] = Bar
  BY <1>1, BarIs
<1>4. Found(pm, "msg", m)
  BY <1>0, <1>1, <1>2, FoundLater
<1>5. Found(pm, "params", p)
  <2> HIDE DEF bm
  <2> QED BY <1>0, <1>3, FoundFirst
<1>6. pm \in Seq(U)
  <2> HIDE DEF bm
  <2> QED BY <1>1, <1>3, Joined
<1> HIDE DEF pm
<1>7. bpm \in Seq(U) /\ bpm[1] = Bar
  BY <1>1, <1>6, BarIs, Joined
<1>8. Found(fields, "msg", m) /\ Found(fields, "params", p)
  BY <1>0, <1>4, <1>5, <1>6, FoundLater
<1>9. Found(fields, "function", f)
  <2> HIDE DEF bpm
  <2> QED BY <1>0, <1>7, FoundFirst
<1>10. fields = Fields(f, p, m)
  BY Zenon DEF Fields, pm, fm
<1>11. Fields(f, p, m) \in Seq(U)
  BY PrintedContent
<1> DEFINE text == Fields(f, p, m)
<1>12. Len(text) \in Nat
  BY <1>11
<1>13. Found(text, "function", f) /\ Found(text, "params", p) /\ Found(text, "msg", m)
  BY <1>8, <1>9, <1>10, Zenon
<1> HIDE DEF text, fields
<1>14. Value(text, "function") = f /\ Value(text, "params") = p /\ Value(text, "msg") = m
  BY ONLY <1>12, <1>13, ValueIs
<1> QED
  BY <1>14, Zenon DEF ParseContent, ContentShell, text

LEMMA NoneLeft ==
    ASSUME NEW n \in Nat, NEW a \in Nat, NEW b \in Nat, NEW c \in Nat, n = n + a + b + c
    PROVE  a = 0 /\ b = 0 /\ c = 0
  OBVIOUS

LEMMA PlainIsKept ==
    ASSUME NEW U, IsAlphabet(U), NEW f \in Seq(U), NEW p \in Seq(U), NEW m \in Seq(U),
           NEW text, text = PrintContent(ContentShell(f, p, m)), IsPlain(text)
    PROVE  Reprinted(text) = text
<1>1. Count(text, Bar) = 2 /\ Count(text, Eq) = 4
  BY DEF IsPlain, Count
<1>2. /\ Count(text, Bar) = 2 + Count(f, Bar) + Count(p, Bar) + Count(m, Bar)
      /\ Count(text, Eq) = 4 + Count(f, Eq) + Count(p, Eq) + Count(m, Eq)
  BY CountContent
<1>3. /\ Count(f, Bar) \in Nat /\ Count(p, Bar) \in Nat /\ Count(m, Bar) \in Nat
      /\ Count(f, Eq) \in Nat /\ Count(p, Eq) \in Nat /\ Count(m, Eq) \in Nat
  BY CountIs
<1>4. /\ Count(f, Bar) = 0 /\ Count(p, Bar) = 0 /\ Count(m, Bar) = 0
      /\ Count(f, Eq) = 0 /\ Count(p, Eq) = 0 /\ Count(m, Eq) = 0
  <2>1. Count(f, Bar) = 0 /\ Count(p, Bar) = 0 /\ Count(m, Bar) = 0
    <3>1. 2 = 2 + Count(f, Bar) + Count(p, Bar) + Count(m, Bar)
      BY <1>1, <1>2, Zenon
    <3> QED BY ONLY <1>3, <3>1, NoneLeft
  <2>2. Count(f, Eq) = 0 /\ Count(p, Eq) = 0 /\ Count(m, Eq) = 0
    <3>1. 4 = 4 + Count(f, Eq) + Count(p, Eq) + Count(m, Eq)
      BY <1>1, <1>2, Zenon
    <3> QED BY ONLY <1>3, <3>1, NoneLeft
  <2> QED BY <2>1, <2>2
<1>5. IsPlainValue(f) /\ IsPlainValue(p) /\ IsPlainValue(m)
  BY <1>4, CountIs DEF IsPlainValue
<1>6. ParseContent(Fields(f, p, m)) = ContentShell(f, p, m)
  BY <1>5, FieldsAreFound
<1>7. Inner(text, C_SHELL) = Fields(f, p, m)
  BY FieldsAreInside
<1> QED
  BY <1>6, <1>7 DEF Reprinted

-----------------------------------------------------------------------------
(* Logs *)

\* What contents and their printing are made of.
Alphabet ==
    Marks \cup UNION {ToSet(content.function) \cup ToSet(content.params)
                          \cup ToSet(content.contMessage) : content \in ContentsToPush}

\* What is stored as the content of an entry.
Texts ==
    {text \in Seq(Alphabet) : \E f, p, m \in Seq(Alphabet) :
         text = PrintContent(ContentShell(f, p, m))}

LEMMA AlphabetIs == IsAlphabet(Alphabet)
  BY DEF Alphabet, IsAlphabet

LEMMA TextIs ==
    ASSUME NEW f \in Seq(Alphabet), NEW p \in Seq(Alphabet), NEW m \in Seq(Alphabet)
    PROVE  PrintContent(ContentShell(f, p, m)) \in Texts
<1>1. PrintContent(ContentShell(f, p, m)) \in Seq(Alphabet)
  BY AlphabetIs, PrintedContent
<1> QED
  BY <1>1 DEF Texts

LEMMA PushedTexts ==
    ASSUME NEW content \in ContentsToPush
    PROVE  PrintContent(content) \in Texts
<1> DEFINE f == content.function
           p == content.params
           m == content.contMessage
<1>1. f \in Seq(ToSet(f)) /\ p \in Seq(ToSet(p)) /\ m \in Seq(ToSet(m))
  BY ContentsAreTexts DEF IsText
<1>2. ToSet(f) \subseteq Alphabet /\ ToSet(p) \subseteq Alphabet /\ ToSet(m) \subseteq Alphabet
  BY DEF Alphabet
<1>3. f \in Seq(Alphabet) /\ p \in Seq(Alphabet) /\ m \in Seq(Alphabet)
  BY <1>1, <1>2, SeqMonotonic
<1>4. PrintContent(content) = PrintContent(ContentShell(f, p, m))
  <2>1. /\ ContentShell(f, p, m).function = f /\ ContentShell(f, p, m).params = p
        /\ ContentShell(f, p, m).contMessage = m
    BY ContentShellIs
  <2> QED BY <2>1, Zenon DEF PrintContent
<1> HIDE DEF f, p, m
<1> QED
  BY <1>3, <1>4, TextIs

LEMMA ReprintedIsText ==
    ASSUME NEW f \in Seq(Alphabet), NEW p \in Seq(Alphabet), NEW m \in Seq(Alphabet)
    PROVE  Reprinted(PrintContent(ContentShell(f, p, m))) \in Texts
<1> DEFINE fields == Fields(f, p, m)
           u == Value(fields, "function")
           v == Value(fields, "params")
           w == Value(fields, "msg")
<1>1. /\ fields \in Seq(Alphabet)
      /\ Inner(PrintContent(ContentShell(f, p, m)), C_SHELL) = fields
  BY AlphabetIs, FieldsAreInside
<1> HIDE DEF fields
<1>2. u \in Seq(Alphabet) /\ v \in Seq(Alphabet) /\ w \in Seq(Alphabet)
  BY <1>1, ValueText
<1>3. ParseContent(fields) = ContentShell(u, v, w)
  BY DEF ParseContent, ContentShell
<1> HIDE DEF u, v, w
<1> QED
  BY <1>1, <1>2, <1>3, TextIs DEF Reprinted

\* What arrives of an entry with a printed content.
LEMMA SentIs ==
    ASSUME NEW text \in Texts, NEW seq, NEW hash, NEW signature, NEW flag
    PROVE  /\ Reprinted(text) \in Texts
           /\ Sent(LogShell(seq, hash, Author, signature, text), flag)
                  = Packet(LogShell(seq, hash, Author, signature, Reprinted(text)), flag)
<1>1. PICK f \in Seq(Alphabet), p \in Seq(Alphabet), m \in Seq(Alphabet) :
          text = PrintContent(ContentShell(f, p, m))
  BY DEF Texts
<1>2. Reprinted(text) \in Texts
  BY <1>1, AlphabetIs, ReprintedIsText
<1> DEFINE U == Alphabet \cup {<<LogType>>, <<"int", flag>>, <<Author>>, <<"int", seq>>,
                              <<"sha1", hash>>, <<"double", signature>>}
<1>3. /\ IsAlphabet(U) /\ Alphabet \subseteq U
      /\ <<LogType>> \in U /\ <<"int", flag>> \in U /\ <<Author>> \in U /\ <<"int", seq>> \in U
      /\ <<"sha1", hash>> \in U /\ <<"double", signature>> \in U
  BY AlphabetIs DEF IsAlphabet
<1> HIDE DEF U
<1>4. f \in Seq(U) /\ p \in Seq(U) /\ m \in Seq(U)
  BY <1>1, <1>3, SeqMonotonic
<1>5. Sent(LogShell(seq, hash, Author, signature, text), flag)
          = Packet(LogShell(seq, hash, Author, signature, Reprinted(text)), flag)
  BY ONLY <1>1, <1>3, <1>4, SentFields
<1> QED
  BY <1>2, <1>5

Hashes == {NoHash} \cup {<<text>> : text \in Texts}

Entries ==
    [sequenceNum : Nat, prevEventHash : Hashes, authorId : {Author},
     signature : {sign(n) : n \in Nat}, shell : Texts]

Logs == [owner : {Author}, log : Seq(Entries)]

\* Entry n of log p, but with this content.
Chain(p, n, text) ==
    LogShell(n - 1, IF n = 1 THEN NoHash ELSE <<p.log[n - 1].shell>>,
             Author, sign(n - 1), text)

IsChain(p, l) == \A n \in 1..Len(l.log) : l.log[n] = Chain(p, n, l.log[n].shell)

\* l has what p has, but for the content of its last entry.
Follows(p, l) ==
    /\ Len(l.log) <= Len(p.log)
    /\ IsChain(p, l)
    /\ \A n \in 1..(Len(l.log) - 1) : l.log[n].shell = p.log[n].shell

PrintedInv ==
    /\ published \in Logs /\ IsChain(published, published)
    /\ replica \in [Holders -> Logs]
    /\ \A h \in Holders : Follows(published, replica[h])

LEMMA EntryIs ==
    ASSUME NEW l \in Logs, NEW n \in 1..Len(l.log)
    PROVE  l.log[n] \in Entries /\ l.log[n].shell \in Texts
<1> DEFINE log == l.log
<1>1. log \in Seq(Entries)
  BY DEF Logs
<1>2. n \in 1..Len(log)
  OBVIOUS
<1> HIDE DEF log
<1>3. log[n] \in Entries
  BY <1>1, <1>2
<1>4. log[n].shell \in Texts
  BY <1>3 DEF Entries
<1> QED
  BY <1>3, <1>4 DEF log

LEMMA LogIs ==
    ASSUME NEW l \in Logs
    PROVE  /\ l.owner = Author /\ l.log \in Seq(Entries) /\ Len(l.log) \in Nat
           /\ \A entry \in Entries : [l EXCEPT !.log = Append(@, entry)]
                                         = [owner |-> Author, log |-> Append(l.log, entry)]
           /\ \A tail : [l EXCEPT !.log = @ \o tail] = [owner |-> Author, log |-> l.log \o tail]
<1>1. l.owner = Author /\ l.log \in Seq(Entries) /\ l = [owner |-> Author, log |-> l.log]
  BY DEF Logs
<1>2. Len(l.log) \in Nat
  BY <1>1
<1>3. ASSUME NEW log PROVE [l EXCEPT !.log = log] = [owner |-> Author, log |-> log]
  BY <1>1
<1>4. ASSUME NEW entry
      PROVE  [l EXCEPT !.log = Append(@, entry)] = [owner |-> Author, log |-> Append(l.log, entry)]
  <2>1. [l EXCEPT !.log = Append(@, entry)] = [l EXCEPT !.log = Append(l.log, entry)]
    BY <1>1, Zenon
  <2> DEFINE longer == Append(l.log, entry)
  <2> HIDE DEF longer
  <2>2. [l EXCEPT !.log = longer] = [owner |-> Author, log |-> longer]
    BY <1>3
  <2> QED BY <2>1, <2>2 DEF longer
<1>5. ASSUME NEW tail
      PROVE  [l EXCEPT !.log = @ \o tail] = [owner |-> Author, log |-> l.log \o tail]
  <2>1. [l EXCEPT !.log = @ \o tail] = [l EXCEPT !.log = l.log \o tail]
    BY <1>1, Zenon
  <2> DEFINE longer == l.log \o tail
  <2> HIDE DEF longer
  <2>2. [l EXCEPT !.log = longer] = [owner |-> Author, log |-> longer]
    BY <1>3
  <2> QED BY <2>1, <2>2 DEF longer
<1> QED
  BY <1>1, <1>2, <1>4, <1>5

LEMMA ChainIs ==
    ASSUME PrintedInv, NEW n \in 1..(Len(published.log) + 1), NEW text \in Texts
    PROVE  Chain(published, n, text) \in Entries /\ Chain(published, n, text).shell = text
<1>1. n - 1 \in Nat
  BY LogIs DEF PrintedInv
<1>2. (IF n = 1 THEN NoHash ELSE <<published.log[n - 1].shell>>) \in Hashes
  <2>1. CASE n = 1
    BY <2>1 DEF Hashes
  <2>2. CASE n # 1
    <3>1. n - 1 \in 1..Len(published.log)
      BY <2>2, LogIs DEF PrintedInv
    <3>2. published.log[n - 1].shell \in Texts
      BY <3>1, EntryIs DEF PrintedInv
    <3> QED BY <2>2, <3>2 DEF Hashes
  <2> QED BY <2>1, <2>2
<1> QED
  BY <1>1, <1>2 DEF Chain, LogShell, Entries

\* appendLogShell puts the next entry of the chain at the end.
LEMMA AppendIs ==
    ASSUME PrintedInv, NEW text \in Texts
    PROVE  appendLogShell(published, text)
               = [owner |-> Author,
                  log |-> Append(published.log, Chain(published, Len(published.log) + 1, text))]
<1> DEFINE l == published
           log == published.log
           cur == getCurrentSeqNum(l)
           contents == <<text>>
           PrevHash(i) == IF i > 1 THEN <<contents[i - 1]>>
                          ELSE IF empty(l) THEN NoHash
                          ELSE createHash(getLastEntry(l))
           made == [i \in 1..Len(contents) |->
                       LogShell(cur + i, PrevHash(i), l.owner, sign(cur + i), contents[i])]
           next == Chain(published, Len(log) + 1, text)
<1>1. l \in Logs /\ log \in Seq(Entries) /\ Len(log) \in Nat /\ l.owner = Author /\ IsChain(published, l)
  BY LogIs DEF PrintedInv
<1>2. appendLogShell(l, text) = [l EXCEPT !.log = @ \o made]
  BY DEF appendLogShell, AppendLogShells
<1>3. cur + 1 = Len(log) /\ PrevHash(1) = (IF Len(log) + 1 = 1 THEN NoHash
                                             ELSE <<log[(Len(log) + 1) - 1].shell>>)
  <2>1. CASE log = << >>
    BY <1>1, <2>1 DEF getCurrentSeqNum, empty
  <2>2. CASE log # << >>
    <3>1. Len(log) \in 1..Len(log) /\ Len(log) # 0
      BY <1>1, <2>2
    <3>2. log[Len(log)] = Chain(published, Len(log), log[Len(log)].shell)
      BY <1>1, <3>1 DEF IsChain
    <3>3. log[Len(log)].sequenceNum = Len(log) - 1
      BY <3>2 DEF Chain, LogShell
    <3>4. cur = Len(log) - 1
      BY <2>2, <3>3 DEF getCurrentSeqNum, empty, getLastEntry
    <3>5. PrevHash(1) = <<log[Len(log)].shell>>
      BY <2>2 DEF empty, createHash, getLastEntry
    <3> QED BY <1>1, <3>1, <3>4, <3>5
  <2> QED BY <2>1, <2>2
<1>4. made = <<next>>
  <2>1. Len(contents) = 1 /\ contents[1] = text
    OBVIOUS
  <2>2. Len(log) = (Len(log) + 1) - 1
    BY <1>1
  <2>3. LogShell(cur + 1, PrevHash(1), l.owner, sign(cur + 1), text) = next
    BY <1>1, <1>3, <2>2 DEF Chain
  <2> HIDE DEF next
  <2>4. made = [i \in 1..1 |-> next]
    BY <2>1, <2>3
  <2> QED BY <2>4
<1>5. log \o <<next>> = Append(log, next)
  <2>1. next \in Entries
    BY <1>1, ChainIs
  <2> HIDE DEF next, log
  <2> QED BY <1>1, <2>1, AppendIsConcat
<1> HIDE DEF made, next
<1>6. appendLogShell(l, text) = [l EXCEPT !.log = @ \o <<next>>]
  BY <1>2, <1>4
<1>7. [l EXCEPT !.log = @ \o <<next>>] = [owner |-> Author, log |-> log \o <<next>>]
  BY <1>1, LogIs
<1> QED
  BY <1>5, <1>6, <1>7 DEF next

\* Of what is sent, a replica takes the entry that comes next in the chain, if
\* what it has last was not altered.
LEMMA AcceptIs ==
    ASSUME PrintedInv, NEW h \in Holders, NEW n \in 1..Len(published.log), NEW text \in Texts,
           isSubsequentEntry(replica[h], Chain(published, n, text))
    PROVE  LET log == replica[h].log
           IN  n = Len(log) + 1 /\ (log # << >> => log[Len(log)].shell = published.log[Len(log)].shell)
<1> DEFINE l == replica[h]
           log == replica[h].log
           e == Chain(published, n, text)
<1>1. l \in Logs /\ log \in Seq(Entries) /\ Len(log) \in Nat /\ IsChain(published, l) /\ n \in Nat
  BY LogIs DEF PrintedInv, Follows
<1>2. /\ e.sequenceNum = n - 1
      /\ e.prevEventHash = IF n = 1 THEN NoHash ELSE <<published.log[n - 1].shell>>
  BY DEF Chain, LogShell
<1>3. CASE log = << >>
  <2>1. e.sequenceNum = 0
    BY <1>3 DEF isSubsequentEntry, empty
  <2> QED BY <1>1, <1>2, <1>3, <2>1
<1>4. CASE log # << >>
  <2>1. Len(log) \in 1..Len(log)
    BY <1>1, <1>4
  <2>2. log[Len(log)] = Chain(published, Len(log), log[Len(log)].shell)
    BY <1>1, <2>1 DEF IsChain
  <2>3. log[Len(log)].sequenceNum = Len(log) - 1
    BY <2>2 DEF Chain, LogShell
  <2>4. /\ getCurrentSeqNum(l) + 1 = e.sequenceNum
        /\ createHash(getLastEntry(l)) = e.prevEventHash
    BY <1>4 DEF isSubsequentEntry, empty
  <2>5. (Len(log) - 1) + 1 = n - 1 /\ <<log[Len(log)].shell>> = e.prevEventHash
    BY <1>2, <1>4, <2>3, <2>4 DEF getCurrentSeqNum, getLastEntry, createHash, empty
  <2>6. n = Len(log) + 1 /\ n # 1 /\ n - 1 = Len(log)
    BY <1>1, <2>1, <2>5
  <2>7. log[Len(log)].shell = published.log[Len(log)].shell
    BY <1>2, <2>5, <2>6
  <2> QED BY <2>6, <2>7
<1> QED
  BY <1>3, <1>4

\* What is sent of a chain is the same entry of it.
LEMMA ArrivingIs ==
    ASSUME PrintedInv, NEW l \in Logs, IsChain(published, l), Len(l.log) <= Len(published.log),
           NEW n \in 1..Len(l.log), NEW flag
    PROVE  /\ n \in 1..Len(published.log) /\ l.log[n].shell \in Texts
           /\ Reprinted(l.log[n].shell) \in Texts
           /\ Sent(l.log[n], flag) = Packet(Chain(published, n, Reprinted(l.log[n].shell)), flag)
<1>1. n \in 1..Len(published.log) /\ l.log[n].shell \in Texts
  BY LogIs, EntryIs DEF PrintedInv
<1>2. l.log[n] = Chain(published, n, l.log[n].shell)
  BY DEF IsChain
<1> DEFINE text == l.log[n].shell
           hash == IF n = 1 THEN NoHash ELSE <<published.log[n - 1].shell>>
<1>3. l.log[n] = LogShell(n - 1, hash, Author, sign(n - 1), text)
  BY <1>2, Zenon DEF Chain
<1>4. text \in Texts
  BY <1>1
<1> HIDE DEF text, hash
<1>5. /\ Reprinted(text) \in Texts
      /\ Sent(LogShell(n - 1, hash, Author, sign(n - 1), text), flag)
             = Packet(LogShell(n - 1, hash, Author, sign(n - 1), Reprinted(text)), flag)
  BY <1>4, SentIs
<1>6. Sent(l.log[n], flag) = Packet(Chain(published, n, Reprinted(text)), flag)
  BY <1>3, <1>5, Zenon DEF Chain, hash
<1> QED
  BY <1>1, <1>5, <1>6 DEF text

\* What Deliver does to a replica.
LEMMA DeliverIs ==
    ASSUME PrintedInv, NEW l \in Logs, IsChain(published, l), Len(l.log) <= Len(published.log),
           NEW h \in Holders, Deliver(l, h)
    PROVE  /\ published' = published
           /\ \/ replica' = replica
              \/ \E text \in Texts :
                     LET log == replica[h].log
                     IN  /\ Len(log) < Len(published.log)
                         /\ log # << >> => log[Len(log)].shell = published.log[Len(log)].shell
                         /\ replica' = [replica EXCEPT
                                ![h] = [owner |-> Author,
                                        log |-> Append(log, Chain(published, Len(log) + 1, text))]]
<1>1. PICK n \in 1..Len(l.log) :
          /\ replica' = [replica EXCEPT ![h] = addToLog(@, Sent(l.log[n], 0).shell)]
          /\ UNCHANGED published
  BY DEF Deliver
<1> DEFINE text == Reprinted(l.log[n].shell)
           e == Chain(published, n, text)
           r == replica[h]
<1>2. n \in 1..Len(published.log) /\ text \in Texts /\ Sent(l.log[n], 0) = Packet(e, 0)
  BY ArrivingIs
<1>3. Sent(l.log[n], 0).shell = e
  BY <1>2 DEF Packet
<1>4. replica' = [replica EXCEPT ![h] = addToLog(r, e)]
  BY <1>1, <1>3
<1> HIDE DEF text
<1>5. CASE ~isSubsequentEntry(r, e)
  <2>1. addToLog(r, e) = r
    BY <1>5 DEF addToLog
  <2>2. replica' = replica
    BY <1>4, <2>1 DEF PrintedInv
  <2> QED BY <1>1, <2>2
<1>6. CASE isSubsequentEntry(r, e)
  <2>1. n = Len(r.log) + 1 /\ (r.log # << >> => r.log[Len(r.log)].shell = published.log[Len(r.log)].shell)
    BY <1>2, <1>6, AcceptIs
  <2>2. e \in Entries
    <3>1. n \in 1..(Len(published.log) + 1)
      BY <1>2, LogIs DEF PrintedInv
    <3> QED BY <1>2, <3>1, ChainIs
  <2>3. r \in Logs
    BY DEF PrintedInv
  <2>4. addToLog(r, e) = [r EXCEPT !.log = Append(@, e)]
    BY <1>6 DEF addToLog
  <2>5. addToLog(r, e) = [owner |-> Author, log |-> Append(r.log, e)]
    <3> HIDE DEF e, r
    <3> QED BY <2>2, <2>3, <2>4, LogIs
  <2>6. Len(r.log) < Len(published.log)
    BY <1>2, <2>1, <2>3, LogIs DEF PrintedInv
  <2> QED BY <1>1, <1>2, <1>4, <2>1, <2>5, <2>6
<1> QED
  BY <1>5, <1>6

LEMMA Longer ==
    ASSUME NEW p \in Logs, NEW e \in Entries,
           NEW q, q = [owner |-> Author, log |-> Append(p.log, e)]
    PROVE  /\ q \in Logs /\ Len(q.log) = Len(p.log) + 1 /\ Len(p.log) \in Nat
           /\ \A k \in 1..Len(p.log) : q.log[k] = p.log[k]
           /\ q.log[Len(p.log) + 1] = e
<1> DEFINE log == p.log
           longer == Append(log, e)
<1>1. log \in Seq(Entries)
  BY LogIs
<1>2. q.log = longer /\ q.owner = Author
  OBVIOUS
<1> HIDE DEF log
<1>3. /\ longer \in Seq(Entries) /\ Len(longer) = Len(log) + 1 /\ Len(log) \in Nat
      /\ \A k \in 1..Len(log) : longer[k] = log[k]
      /\ longer[Len(log) + 1] = e
  BY <1>1, AppendProperties
<1> HIDE DEF longer
<1>4. q \in Logs
  BY <1>2, <1>3 DEF Logs
<1> QED
  BY <1>2, <1>3, <1>4 DEF log

\* The chain stays what it was when the published log grows.
LEMMA ChainStays ==
    ASSUME NEW p \in Logs, NEW e \in Entries,
           NEW q, q = [owner |-> Author, log |-> Append(p.log, e)],
           NEW n \in 1..(Len(p.log) + 1), NEW text
    PROVE  Chain(q, n, text) = Chain(p, n, text)
<1>1. CASE n = 1
  BY <1>1 DEF Chain
<1>2. CASE n # 1
  <2>1. n - 1 \in 1..Len(p.log)
    BY <1>2, Longer
  <2>2. q.log[n - 1] = p.log[n - 1]
    BY <2>1, Longer
  <2> QED BY <1>2, <2>2 DEF Chain
<1> QED
  BY <1>1, <1>2

LEMMA FollowsStays ==
    ASSUME NEW p \in Logs, NEW e \in Entries,
           NEW q, q = [owner |-> Author, log |-> Append(p.log, e)],
           NEW l \in Logs, Follows(p, l)
    PROVE  Follows(q, l)
<1>1. Len(l.log) <= Len(p.log) /\ Len(l.log) \in Nat /\ Len(p.log) \in Nat
  BY LogIs DEF Follows
<1>2. Len(l.log) <= Len(q.log)
  BY <1>1, Longer
<1>3. IsChain(q, l)
  <2>1. ASSUME NEW n \in 1..Len(l.log) PROVE l.log[n] = Chain(q, n, l.log[n].shell)
    <3>1. n \in 1..(Len(p.log) + 1)
      BY <1>1
    <3>2. l.log[n] = Chain(p, n, l.log[n].shell)
      BY DEF Follows, IsChain
    <3> QED BY <3>1, <3>2, ChainStays
  <2> QED BY <2>1 DEF IsChain
<1>4. ASSUME NEW n \in 1..(Len(l.log) - 1) PROVE l.log[n].shell = q.log[n].shell
  <2>1. n \in 1..Len(p.log)
    BY <1>1
  <2>2. q.log[n] = p.log[n]
    BY <2>1, Longer
  <2> QED BY <2>2 DEF Follows
<1> QED
  BY <1>2, <1>3, <1>4 DEF Follows

LEMMA PrintedInvInit == Init => PrintedInv
<1> SUFFICES ASSUME Init PROVE PrintedInv
  OBVIOUS
<1>1. NewLog(Author) \in Logs /\ NewLog(Author).log = << >>
  BY DEF NewLog, Logs
<1>2. Len(NewLog(Author).log) = 0
  BY <1>1
<1>3. IsChain(NewLog(Author), NewLog(Author))
  BY <1>2 DEF IsChain
<1>4. Follows(NewLog(Author), NewLog(Author))
  BY <1>2, <1>3 DEF Follows
<1> QED
  BY <1>1, <1>3, <1>4 DEF Init, PrintedInv

\* The published log grows by the next entry of its chain.
LEMMA PushIs ==
    ASSUME PrintedInv, NEW content \in ContentsToPush, Push(content)
    PROVE  PrintedInv'
<1> DEFINE text == PrintContent(content)
           p == published
           e == Chain(p, Len(p.log) + 1, text)
           q == published'
<1>1. text \in Texts
  BY PushedTexts
<1> HIDE DEF text
<1>2. /\ p \in Logs /\ IsChain(p, p) /\ Len(p.log) \in Nat
      /\ replica \in [Holders -> Logs] /\ \A h \in Holders : Follows(p, replica[h])
  BY LogIs DEF PrintedInv
<1>3. e \in Entries /\ e.shell = text
  BY <1>1, <1>2, ChainIs
<1>4. q = [owner |-> Author, log |-> Append(p.log, e)] /\ replica' = replica
  BY <1>1, AppendIs DEF Push, text
<1> HIDE DEF p, e, q
<1>5. /\ q \in Logs /\ Len(q.log) = Len(p.log) + 1
      /\ \A k \in 1..Len(p.log) : q.log[k] = p.log[k]
      /\ q.log[Len(p.log) + 1] = e
  BY <1>2, <1>3, <1>4, Longer
<1>6. IsChain(q, q)
  <2>1. ASSUME NEW n \in 1..Len(q.log) PROVE q.log[n] = Chain(q, n, q.log[n].shell)
    <3>1. n \in 1..(Len(p.log) + 1)
      BY <1>5
    <3>2. q.log[n] = Chain(p, n, q.log[n].shell)
      <4>1. CASE n \in 1..Len(p.log)
        BY <1>2, <1>5, <4>1 DEF IsChain
      <4>2. CASE n = Len(p.log) + 1
        BY <1>3, <1>5, <4>2 DEF e
      <4> QED BY <1>2, <3>1, <4>1, <4>2
    <3>3. Chain(q, n, q.log[n].shell) = Chain(p, n, q.log[n].shell)
      BY <1>2, <1>3, <1>4, <3>1, ChainStays
    <3> QED BY <3>2, <3>3
  <2> QED BY <2>1 DEF IsChain
<1>7. \A h \in Holders : Follows(q, replica[h])
  BY <1>2, <1>3, <1>4, FollowsStays
<1> QED
  BY <1>2, <1>4, <1>5, <1>6, <1>7 DEF PrintedInv, q

\* A replica grows by an entry of the chain, whoever sent it.
LEMMA DeliverKeeps ==
    ASSUME PrintedInv, NEW l \in Logs, IsChain(published, l), Len(l.log) <= Len(published.log),
           NEW h \in Holders, Deliver(l, h)
    PROVE  /\ PrintedInv'
           /\ \A k \in Holders : IsAltered(replica[k]) => replica'[k] = replica[k]
<1>1. CASE replica' = replica
  BY <1>1, DeliverIs DEF PrintedInv
<1>2. CASE replica' # replica
  <2> DEFINE p == published
             r == replica[h]
             log == r.log
  <2>1. PICK text \in Texts :
            /\ Len(log) < Len(p.log)
            /\ log # << >> => log[Len(log)].shell = p.log[Len(log)].shell
            /\ replica' = [replica EXCEPT
                   ![h] = [owner |-> Author,
                           log |-> Append(log, Chain(p, Len(log) + 1, text))]]
    BY <1>2, DeliverIs
  <2> DEFINE e == Chain(p, Len(log) + 1, text)
             w == [owner |-> Author, log |-> Append(log, e)]
  <2>2. /\ p \in Logs /\ IsChain(p, p) /\ Len(p.log) \in Nat
        /\ replica \in [Holders -> Logs] /\ \A k \in Holders : Follows(p, replica[k])
        /\ r \in Logs /\ Follows(p, r) /\ Len(log) \in Nat
    BY LogIs DEF PrintedInv
  <2>3. published' = p
    BY DeliverIs
  <2>4. replica' = [replica EXCEPT ![h] = w]
    BY <2>1
  <2>5. e \in Entries /\ e.shell = text
    <3>1. Len(log) + 1 \in 1..(Len(p.log) + 1)
      BY <2>1, <2>2
    <3> QED BY <3>1, ChainIs
  <2> HIDE DEF e
  <2>6. /\ w \in Logs /\ Len(w.log) = Len(log) + 1
        /\ \A k \in 1..Len(log) : w.log[k] = log[k]
        /\ w.log[Len(log) + 1] = e
    BY <2>2, <2>5, Longer
  <2>7. Follows(p, w)
    <3>1. Len(w.log) <= Len(p.log)
      BY <2>1, <2>2, <2>6
    <3>2. ASSUME NEW n \in 1..Len(w.log) PROVE w.log[n] = Chain(p, n, w.log[n].shell)
      <4>1. CASE n \in 1..Len(log)
        BY <2>2, <2>6, <4>1 DEF Follows, IsChain
      <4>2. CASE n = Len(log) + 1
        BY <2>5, <2>6, <4>2 DEF e
      <4> QED BY <2>2, <2>6, <4>1, <4>2
    <3>3. ASSUME NEW n \in 1..(Len(w.log) - 1) PROVE w.log[n].shell = p.log[n].shell
      <4>1. n \in 1..Len(log) /\ w.log[n] = log[n]
        BY <2>2, <2>6
      <4>2. CASE n = Len(log)
        <5>1. log # << >>
          BY <2>2, <4>1, <4>2
        <5> QED BY <2>1, <4>1, <4>2, <5>1
      <4>3. CASE n # Len(log)
        BY <2>2, <4>1, <4>3 DEF Follows
      <4> QED BY <4>2, <4>3
    <3> QED BY <3>1, <3>2, <3>3 DEF Follows, IsChain
  <2> HIDE DEF w
  <2>8. PrintedInv'
    BY <2>2, <2>3, <2>4, <2>6, <2>7 DEF PrintedInv
  <2>9. ASSUME NEW k \in Holders, IsAltered(replica[k]) PROVE replica'[k] = replica[k]
    <3>1. CASE k # h
      BY <2>2, <2>4, <3>1
    <3>2. CASE k = h
      <4>1. log # << >> /\ log[Len(log)] # p.log[Len(log)]
        BY <2>9, <3>2 DEF IsAltered
      <4>2. Len(log) \in 1..Len(log) /\ Len(log) \in 1..Len(p.log)
        BY <2>1, <2>2, <4>1
      <4>3. log[Len(log)] = Chain(p, Len(log), log[Len(log)].shell)
        BY <2>2, <4>2 DEF Follows, IsChain
      <4>4. p.log[Len(log)] = Chain(p, Len(log), p.log[Len(log)].shell)
        BY <2>2, <4>2 DEF IsChain
      <4> QED BY <2>1, <4>1, <4>3, <4>4
    <3> QED BY <3>1, <3>2
  <2> QED BY <2>8, <2>9
<1> QED
  BY <1>1, <1>2

LEMMA PrintedInvStep ==
    ASSUME PrintedInv, [Next]_vars
    PROVE  /\ PrintedInv'
           /\ \A h \in Holders : IsAltered(replica[h]) => replica'[h] = replica[h]
<1>1. ASSUME NEW content \in ContentsToPush, Push(content)
      PROVE  PrintedInv' /\ replica' = replica
  BY <1>1, PushIs DEF Push
<1>2. ASSUME NEW h \in Holders, Deliver(published, h)
      PROVE  /\ PrintedInv'
             /\ \A k \in Holders : IsAltered(replica[k]) => replica'[k] = replica[k]
  <2>1. published \in Logs /\ IsChain(published, published) /\ Len(published.log) \in Nat
    BY LogIs DEF PrintedInv
  <2> QED BY <1>2, <2>1, DeliverKeeps
<1>3. ASSUME NEW h \in Holders, NEW k \in Holders, Deliver(replica[k], h)
      PROVE  /\ PrintedInv'
             /\ \A j \in Holders : IsAltered(replica[j]) => replica'[j] = replica[j]
  <2>1. /\ replica[k] \in Logs /\ IsChain(published, replica[k])
        /\ Len(replica[k].log) <= Len(published.log)
    BY DEF PrintedInv, Follows
  <2> QED BY <1>3, <2>1, DeliverKeeps
<1>4. CASE UNCHANGED vars
  BY <1>4 DEF vars, PrintedInv
<1> QED
  BY <1>1, <1>2, <1>3, <1>4 DEF Next

\* Every replica has the texts that were published, in entries numbered, linked
\* and signed as the published ones, but for the text of its last entry at most
\* (addToLog, isSubsequentEntry, helpFunction).
THEOREM PrintedLogsFollow == Spec => []PrintedInv
<1>1. PrintedInv /\ [Next]_vars => PrintedInv'
  BY PrintedInvStep
<1> QED
  BY PrintedInvInit, <1>1, PTL DEF Spec

\* What a replica holds is what was published, but for the content of its last
\* entry at most: the hash in the next entry gives an altered content away, with
\* contents and logs of any length and any number of hops (createHash,
\* isSubsequentEntry, helpFunction).
THEOREM OnlyTheLastMayDiffer == Spec => []OnlyTheLastIsAltered
<1>1. ASSUME PrintedInv PROVE OnlyTheLastIsAltered
  <2> SUFFICES ASSUME NEW h \in Holders
               PROVE  /\ Len(replica[h].log) <= Len(published.log)
                      /\ \A i \in 1..(Len(replica[h].log) - 1) :
                             replica[h].log[i] = published.log[i]
    BY DEF OnlyTheLastIsAltered
  <2>1. /\ Follows(published, replica[h]) /\ IsChain(published, published)
        /\ Len(replica[h].log) \in Nat /\ Len(published.log) \in Nat
    BY <1>1, LogIs DEF PrintedInv
  <2>2. ASSUME NEW i \in 1..(Len(replica[h].log) - 1)
        PROVE  replica[h].log[i] = published.log[i]
    <3>1. i \in 1..Len(replica[h].log) /\ i \in 1..Len(published.log)
      BY <2>1 DEF Follows
    <3>2. replica[h].log[i] = Chain(published, i, replica[h].log[i].shell)
      BY <2>1, <3>1 DEF Follows, IsChain
    <3>3. published.log[i] = Chain(published, i, published.log[i].shell)
      BY <2>1, <3>1 DEF IsChain
    <3>4. replica[h].log[i].shell = published.log[i].shell
      BY <2>1 DEF Follows
    <3> QED BY <3>2, <3>3, <3>4
  <2> QED BY <2>1, <2>2 DEF Follows
<1> QED
  BY PrintedLogsFollow, <1>1, PTL

\* A replica whose last content was altered takes no further entry, so that
\* nothing corrects it (isSubsequentEntry).
THEOREM AlteredReplicasAreStuck == Spec => AlteredReplicasStay
<1>1. ASSUME PrintedInv, [Next]_vars
      PROVE  [\A h \in Holders : IsAltered(replica[h]) => replica'[h] = replica[h]]_vars
  BY <1>1, PrintedInvStep
<1> QED
  BY PrintedLogsFollow, <1>1, PTL DEF Spec, AlteredReplicasStay

\* An entry of the published log, and what is sent of it.
LEMMA PublishedIs ==
    ASSUME PrintedInv, NEW i \in 1..Len(published.log), NEW flag,
           NEW text, text = published.log[i].shell
    PROVE  /\ text \in Texts /\ published.log[i] = Chain(published, i, text)
           /\ Sent(published.log[i], flag) = Packet(Chain(published, i, Reprinted(text)), flag)
<1>1. published \in Logs /\ IsChain(published, published) /\ Len(published.log) \in Nat
  BY LogIs DEF PrintedInv
<1>2. published.log[i] = Chain(published, i, text)
  BY <1>1 DEF IsChain
<1>3. Len(published.log) <= Len(published.log)
  BY <1>1
<1>4. /\ published.log[i].shell \in Texts
      /\ Sent(published.log[i], flag) =
             Packet(Chain(published, i, Reprinted(published.log[i].shell)), flag)
  BY ONLY PrintedInv, i \in 1..Len(published.log), <1>1, <1>3, ArrivingIs
<1> QED BY ONLY text = published.log[i].shell, <1>2, <1>4

\* Everything of a packet but the content arrives as it was sent, whatever
\* texts the contents hold: delimiters, parentheses and words of the format
\* among them (Printer, helpFunction).
THEOREM EnvelopesSurvive == Spec => []EnvelopeSurvives
<1>1. ASSUME PrintedInv, NEW i \in 1..Len(published.log), NEW flag \in {0, 1}
      PROVE  LET packet == Packet(published.log[i], flag)
             IN  [Sent(published.log[i], flag) EXCEPT !.shell.shell = packet.shell.shell] = packet
  <2> DEFINE text == published.log[i].shell
             hash == IF i = 1 THEN NoHash ELSE <<published.log[i - 1].shell>>
             entry == published.log[i]
  <2>1. /\ entry = Chain(published, i, text)
        /\ Sent(entry, flag) = Packet(Chain(published, i, Reprinted(text)), flag)
    BY ONLY <1>1, PublishedIs DEF text
  <2>2. /\ entry = LogShell(i - 1, hash, Author, sign(i - 1), text)
        /\ Sent(entry, flag) =
               Packet(LogShell(i - 1, hash, Author, sign(i - 1), Reprinted(text)), flag)
    BY <2>1, Zenon DEF Chain
  <2> HIDE DEF text, hash, entry
  <2>3. Packet(entry, flag).shell.shell = text
    BY <2>2 DEF Packet, LogShell
  <2>4. [Sent(entry, flag) EXCEPT !.shell.shell = text] = Packet(entry, flag)
    BY <2>2 DEF Packet, LogShell
  <2> QED BY <2>3, <2>4 DEF entry
<1>2. PrintedInv => EnvelopeSurvives
  BY <1>1 DEF EnvelopeSurvives
<1> QED
  BY PrintedLogsFollow, <1>2, PTL

\* A content without delimiters of its own arrives as it was sent: parentheses,
\* balanced or not, empty texts and words of the format do no harm (Printer,
\* Parser).
THEOREM PlainContentsSurvive == Spec => []ContentSurvives
<1>1. ASSUME PrintedInv, NEW i \in 1..Len(published.log), IsPlain(published.log[i].shell)
      PROVE  Sent(published.log[i], 0).shell = published.log[i]
  <2> DEFINE text == published.log[i].shell
  <2>1. /\ text \in Texts /\ published.log[i] = Chain(published, i, text)
        /\ Sent(published.log[i], 0) = Packet(Chain(published, i, Reprinted(text)), 0)
    BY ONLY <1>1, PublishedIs DEF text
  <2>2. Reprinted(text) = text
    <3>1. PICK f \in Seq(Alphabet), p \in Seq(Alphabet), m \in Seq(Alphabet) :
              text = PrintContent(ContentShell(f, p, m))
      BY <2>1 DEF Texts
    <3> QED BY <1>1, <3>1, AlphabetIs, PlainIsKept
  <2> QED BY <2>1, <2>2 DEF Packet
<1>2. PrintedInv => ContentSurvives
  BY <1>1 DEF ContentSurvives
<1> QED
  BY PrintedLogsFollow, <1>2, PTL
=============================================================================
