-------------------------- MODULE Configure_proofs --------------------------
(***************************************************************************)
(* Theorems of Configure, for files of any length, any alphabet and any    *)
(* buffer: no newline gets into the table, however lines are cut, and what *)
(* is loaded of a plain file is what it says.                              *)
(***************************************************************************)
EXTENDS Configure, SequenceTheorems, WellFoundedInduction, TLAPS

-----------------------------------------------------------------------------
(* Least and greatest numbers                                              *)

LEMMA LeastNatural ==
    ASSUME NEW T, T \subseteq Nat, T # {}
    PROVE  \E x \in T : \A y \in T : x <= y
<1> DEFINE R == OpToRel(<, Nat)
           Less == {ss \in Nat \X Nat : ss[1] < ss[2]}
<1>1. R = Less
  BY Zenon DEF OpToRel
<1>2. IsWellFoundedOn(R, Nat)
  BY NatLessThanWellFounded, Zenon
<1> HIDE DEF R
<1>3. PICK x \in T : \A y \in T : <<y, x>> \notin Less
  BY <1>1, <1>2, WFMin
<1>4. ASSUME NEW y \in T PROVE x <= y
  <2>1. x \in Nat /\ y \in Nat
    OBVIOUS
  <2>2. <<y, x>> \in Nat \X Nat /\ <<y, x>> \notin Less
    BY <1>3, <2>1
  <2>3. <<y, x>>[1] = y /\ <<y, x>>[2] = x
    OBVIOUS
  <2>4. ~(y < x)
    BY <2>2, <2>3
  <2> QED
    BY <2>1, <2>4
<1> QED
  BY <1>4

LEMMA MinIs ==
    ASSUME NEW T, T \subseteq Nat, T # {}
    PROVE  Min(T) \in T /\ \A y \in T : Min(T) <= y
BY LeastNatural DEF Min

LEMMA MaxIs ==
    ASSUME NEW n \in Nat, NEW T, T \subseteq 0 .. n, T # {}
    PROVE  Max(T) \in T /\ \A y \in T : y <= Max(T)
<1> DEFINE U == {n - y : y \in T}
<1>0. U \subseteq Nat /\ U # {}
  <2>1. \A y \in T : n - y \in Nat
    <3> TAKE y \in T
    <3>1. y \in 0 .. n
      OBVIOUS
    <3> QED
      BY ONLY <3>1, n \in Nat
  <2> QED
    BY <2>1
<1>1. PICK x \in U : \A y \in U : x <= y
  BY <1>0, LeastNatural
<1>2. PICK z \in T : x = n - z
  BY <1>1
<1>3. \A y \in T : y <= z
  BY <1>1, <1>2
<1> QED
  BY <1>3 DEF Max

LEMMA MinOf ==
    ASSUME NEW T, T \subseteq Nat, NEW x \in T, \A y \in T : x <= y
    PROVE  Min(T) = x
<1>1. Min(T) \in T /\ \A y \in T : Min(T) <= y
  BY MinIs
<1>2. Min(T) \in Nat /\ x \in Nat /\ x <= Min(T) /\ Min(T) <= x
  BY <1>1
<1> QED
  BY ONLY <1>2

LEMMA MaxOf ==
    ASSUME NEW n \in Nat, NEW T, T \subseteq 0 .. n, NEW x \in T, \A y \in T : y <= x
    PROVE  Max(T) = x
<1>1. Max(T) \in T /\ \A y \in T : y <= Max(T)
  BY MaxIs
<1>2. Max(T) \in 0 .. n /\ x \in 0 .. n /\ Max(T) <= x /\ x <= Max(T)
  BY <1>1, Zenon
<1> QED
  BY ONLY <1>2

-----------------------------------------------------------------------------
(* Searching, cutting and trimming                                         *)

\* The first place of c
LEMMA FirstIs ==
    ASSUME NEW S, NEW s \in Seq(S), NEW c
    PROVE  /\ First(s, c) \in 0 .. Len(s)
           /\ First(s, c) = 0 <=> \A k \in 1 .. Len(s) : s[k] # c
           /\ First(s, c) # 0 => /\ s[First(s, c)] = c
                                 /\ \A k \in 1 .. First(s, c) - 1 : s[k] # c
<1> DEFINE I == {k \in 1 .. Len(s) : s[k] = c}
<1>1. First(s, c) = IF I # {} THEN Min(I) ELSE 0
  BY DEF First, SelectInSeq
<1>2. Len(s) \in Nat /\ I \subseteq Nat
  BY LenProperties
<1>3. I # {} => Min(I) \in I /\ \A y \in I : Min(I) <= y
  BY <1>2, MinIs
<1>4. CASE I = {}
  BY <1>1, <1>2, <1>4
<1>5. CASE I # {}
  <2>1. First(s, c) = Min(I) /\ Min(I) \in 1 .. Len(s) /\ s[Min(I)] = c
    BY <1>1, <1>3, <1>5
  <2>2. ASSUME NEW k \in 1 .. Min(I) - 1 PROVE s[k] # c
    <3>1. k \in 1 .. Len(s) /\ ~(Min(I) <= k)
      BY <1>2, <2>1
    <3> QED
      BY <1>3, <1>5, <3>1
  <2>3. Min(I) # 0 /\ Min(I) \in 0 .. Len(s)
    BY <1>2, <2>1
  <2> HIDE DEF I
  <2> QED
    BY <2>1, <2>2, <2>3
<1> QED
  BY <1>4, <1>5

\* A part of a sequence
LEMMA Part ==
    ASSUME NEW S, NEW s \in Seq(S), NEW i \in Nat \ {0}, NEW j \in Nat, j <= Len(s)
    PROVE  /\ SubSeq(s, i, j) \in Seq(S)
           /\ Len(SubSeq(s, i, j)) = IF i <= j THEN j - i + 1 ELSE 0
           /\ \A k \in 1 .. Len(SubSeq(s, i, j)) : SubSeq(s, i, j)[k] = s[i + k - 1]
<1>1. \A k \in i .. j : s[k] \in S
  BY LenProperties, ElementOfSeq
<1>2. /\ SubSeq(s, i, j) \in Seq(S)
      /\ Len(SubSeq(s, i, j)) = IF i <= j THEN j - i + 1 ELSE 0
      /\ \A k \in 1 .. j - i + 1 : SubSeq(s, i, j)[k] = s[i + k - 1]
  BY <1>1, SubSeqProperties
<1> QED
  BY <1>2

\* trim() cuts from the first character that is no blank to the last.
LEMMA TrimIs ==
    ASSUME NEW S, NEW s \in Seq(S)
    PROVE  \/ (\A k \in 1 .. Len(s) : s[k] = Blank) /\ trim(s) = s
           \/ \E f, l \in 1 .. Len(s) :
                 /\ f <= l /\ s[f] # Blank /\ s[l] # Blank
                 /\ \A k \in 1 .. Len(s) : k < f \/ k > l => s[k] = Blank
                 /\ trim(s) = SubSeq(s, f, l)
<1> DEFINE I == {k \in 1 .. Len(s) : s[k] # Blank}
<1>1. Len(s) \in Nat /\ I \subseteq Nat /\ I \subseteq 0 .. Len(s)
  BY LenProperties
<1>2. trim(s) = IF I = {} THEN s ELSE SubSeq(s, Min(I), Max(I))
  <2>1. I # {} => Min(I) # 0
    BY <1>1, MinIs
  <2> QED
    BY <2>1 DEF trim, SelectInSeq, SelectLastInSeq
<1>3. CASE I = {}
  BY <1>2, <1>3
<1>4. CASE I # {}
  <2>1. /\ Min(I) \in I /\ \A y \in I : Min(I) <= y
        /\ Max(I) \in I /\ \A y \in I : y <= Max(I)
    BY <1>1, <1>4, MinIs, MaxIs
  <2>2. Min(I) \in 1 .. Len(s) /\ Max(I) \in Min(I) .. Len(s)
    BY <1>1, <2>1
  <2>3. \A k \in 1 .. Len(s) : k < Min(I) \/ k > Max(I) => s[k] = Blank
    BY <1>1, <2>1, <2>2
  <2> QED
    BY <1>2, <1>4, <2>1, <2>2, <2>3
<1> QED
  BY <1>3, <1>4

LEMMA TrimType ==
    ASSUME NEW S, NEW s \in Seq(S)
    PROVE  trim(s) \in Seq(S)
<1>1. CASE trim(s) = s
  BY <1>1
<1>2. ASSUME NEW f \in 1 .. Len(s), NEW l \in 1 .. Len(s), f <= l, trim(s) = SubSeq(s, f, l)
      PROVE  trim(s) \in Seq(S)
  <2>1. Len(s) \in Nat /\ f \in Nat \ {0} /\ l \in Nat /\ l <= Len(s)
    BY LenProperties
  <2> QED
    BY <1>2, <2>1, Part
<1> QED
  BY <1>1, <1>2, TrimIs

\* fgets() stops after a newline, at the end, or when the buffer is full.
LEMMA FgetsIs ==
    ASSUME NEW S, NEW rest \in Seq(S)
    PROVE  \E n \in 0 .. Len(rest) :
              /\ fgets(rest) = SubSeq(rest, 1, n)
              /\ fgets(rest) \in Seq(S) /\ Len(fgets(rest)) = n
              /\ \A k \in 1 .. n : fgets(rest)[k] = rest[k]
              /\ \A k \in 1 .. n - 1 : rest[k] # Newline
              /\ n = Min({IF First(rest, Newline) = 0 THEN Len(rest)
                          ELSE First(rest, Newline), BufferSize - 1})
<1> DEFINE end == IF First(rest, Newline) = 0 THEN Len(rest) ELSE First(rest, Newline)
           n == Min({end, BufferSize - 1})
<1>1. /\ end \in 0 .. Len(rest) /\ Len(rest) \in Nat
      /\ \A k \in 1 .. end - 1 : rest[k] # Newline
  BY FirstIs, LenProperties
<1>2. BufferSize - 1 \in Nat
  BY BufferAssumption
<1> HIDE DEF end
<1>3. n \in {end, BufferSize - 1} /\ n <= end /\ n <= BufferSize - 1
  <2>1. {end, BufferSize - 1} \subseteq Nat /\ {end, BufferSize - 1} # {}
    BY <1>1, <1>2
  <2> QED
    BY <2>1, MinIs
<1>4. fgets(rest) = SubSeq(rest, 1, n)
  BY DEF fgets, end
<1> HIDE DEF n
<1>5. n \in 0 .. Len(rest) /\ \A k \in 1 .. n - 1 : rest[k] # Newline
  BY <1>1, <1>2, <1>3
<1>6. /\ fgets(rest) \in Seq(S) /\ Len(fgets(rest)) = n
      /\ \A k \in 1 .. n : fgets(rest)[k] = rest[k]
  <2>1. /\ SubSeq(rest, 1, n) \in Seq(S)
        /\ Len(SubSeq(rest, 1, n)) = IF 1 <= n THEN n - 1 + 1 ELSE 0
        /\ \A k \in 1 .. Len(SubSeq(rest, 1, n)) : SubSeq(rest, 1, n)[k] = rest[1 + k - 1]
    BY <1>1, <1>5, Part
  <2> QED
    BY <1>1, <1>4, <1>5, <2>1
<1> QED
  BY <1>4, <1>5, <1>6 DEF n, end

-----------------------------------------------------------------------------
(* Types                                                                   *)

Text == Chars \ {Newline}

\* A line's newline is its last character, if it has one.
Lined(s) == s \in Seq(Chars) /\ \A k \in 1 .. Len(s) - 1 : s[k] # Newline

LEMMA TrimLined ==
    ASSUME NEW s, Lined(s)
    PROVE  Lined(trim(s))
<1>1. s \in Seq(Chars) /\ trim(s) \in Seq(Chars)
  BY TrimType DEF Lined
<1>2. CASE trim(s) = s
  BY <1>2
<1>3. ASSUME NEW f \in 1 .. Len(s), NEW l \in 1 .. Len(s), f <= l, trim(s) = SubSeq(s, f, l)
      PROVE  Lined(trim(s))
  <2>1. Len(s) \in Nat /\ f \in Nat \ {0} /\ l \in Nat /\ f <= l /\ l <= Len(s)
    BY <1>1, <1>3, LenProperties
  <2>2. /\ Len(trim(s)) = l - f + 1
        /\ \A k \in 1 .. l - f + 1 : trim(s)[k] = s[f + k - 1]
    BY <1>1, <1>3, <2>1, Part
  <2>3. ASSUME NEW k \in 1 .. l - f PROVE trim(s)[k] # Newline
    <3>1. trim(s)[k] = s[f + k - 1]
      BY <2>1, <2>2
    <3>2. f + k - 1 \in 1 .. Len(s) - 1
      BY <2>1
    <3> QED
      BY <3>1, <3>2 DEF Lined
  <2> QED
    BY <1>1, <2>1, <2>2, <2>3 DEF Lined
<1> QED
  BY <1>1, <1>2, <1>3, TrimIs

LEMMA KeyText ==
    ASSUME NEW s, Lined(s), First(s, Equals) # 0
    PROVE  Key(s) \in Seq(Text)
<1> DEFINE e == First(s, Equals)
<1>1. s \in Seq(Chars) /\ Len(s) \in Nat /\ e \in 1 .. Len(s)
  BY FirstIs, LenProperties DEF Lined
<1> HIDE DEF e
<1>2. ASSUME NEW k \in 1 .. e - 1 PROVE s[k] \in Text
  <2>1. k \in 1 .. Len(s) /\ k \in 1 .. Len(s) - 1
    BY <1>1
  <2> QED
    BY <1>1, <2>1, ElementOfSeq DEF Lined, Text
<1>3. SubSeq(s, 1, e - 1) \in Seq(Text)
  <2>1. e - 1 \in Int /\ 1 \in Int
    BY <1>1
  <2> QED
    BY <1>2, <2>1, SubSeqProperties
<1> QED
  BY <1>3, TrimType DEF Key, e

LEMMA ValueText ==
    ASSUME NEW s, Lined(s), First(s, Equals) # 0
    PROVE  /\ Value(s) \in Seq(Chars)
           /\ Value(s) # <<>> => Stored(Value(s)) \in Seq(Text)
<1> DEFINE e == First(s, Equals)
           v == Value(s)
           w == [v EXCEPT ![Len(v)] = Blank]
<1>1. s \in Seq(Chars) /\ Len(s) \in Nat /\ e \in 1 .. Len(s)
  BY FirstIs, LenProperties DEF Lined
<1>2. v = SubSeq(s, e + 1, Len(s))
  BY DEF Value, From
<1>3. /\ v \in Seq(Chars) /\ Len(v) = IF e + 1 <= Len(s) THEN Len(s) - e ELSE 0
      /\ \A k \in 1 .. Len(v) : v[k] = s[e + k]
  <2>1. e + 1 \in Nat \ {0} /\ Len(s) <= Len(s)
    BY <1>1
  <2>2. /\ SubSeq(s, e + 1, Len(s)) \in Seq(Chars)
        /\ Len(SubSeq(s, e + 1, Len(s))) = IF e + 1 <= Len(s) THEN Len(s) - (e + 1) + 1 ELSE 0
        /\ \A k \in 1 .. Len(SubSeq(s, e + 1, Len(s))) :
              SubSeq(s, e + 1, Len(s))[k] = s[e + 1 + k - 1]
    BY <1>1, <2>1, Part
  <2>3. /\ v \in Seq(Chars) /\ Len(v) = IF e + 1 <= Len(s) THEN Len(s) - (e + 1) + 1 ELSE 0
        /\ \A k \in 1 .. Len(v) : v[k] = s[e + 1 + k - 1]
    BY <1>2, <2>2
  <2> HIDE DEF e, v
  <2>4. Len(v) \in Nat
    BY <1>1, <2>3
  <2>5. \A k \in 1 .. Len(v) : e + 1 + k - 1 = e + k
    BY <1>1, <2>4
  <2> QED
    BY <1>1, <2>3, <2>4, <2>5
<1> HIDE DEF e, v
<1>4. ASSUME v # <<>> PROVE trim(w) \in Seq(Text)
  <2>1. Len(v) \in Nat \ {0} /\ Len(v) = Len(s) - e
    BY <1>1, <1>3, <1>4, EmptySeq
  <2>2. w = [k \in 1 .. Len(v) |-> IF k = Len(v) THEN Blank ELSE v[k]]
    BY <1>3, <2>1, LenProperties
  <2>3. ASSUME NEW k \in 1 .. Len(v) PROVE w[k] \in Text
    <3>1. CASE k = Len(v)
      BY <2>2, <3>1, LetterAssumption DEF Text, Chars, Blank, Newline
    <3>2. CASE k # Len(v)
      <4>1. v[k] = s[e + k] /\ e + k \in 1 .. Len(s) - 1 /\ e + k \in 1 .. Len(s)
        <5>1. v[k] = s[e + k]
          BY <1>3
        <5>2. Len(v) = Len(s) - e /\ k \in 1 .. Len(v) /\ k # Len(v) /\ Len(s) \in Nat /\ e \in 1 .. Len(s)
          BY <1>1, <2>1, <3>2
        <5>3. e + k \in 1 .. Len(s) - 1 /\ e + k \in 1 .. Len(s)
          BY ONLY <5>2
        <5> QED
          BY <5>1, <5>3
      <4> QED
        BY <1>1, <2>2, <3>2, <4>1, ElementOfSeq DEF Lined, Text
    <3> QED
      BY <3>1, <3>2
  <2>4. w \in [1 .. Len(v) -> Text]
    BY <2>2, <2>3
  <2> HIDE DEF w
  <2>5. w \in Seq(Text)
    BY ONLY <2>1, <2>4, SeqDef
  <2> QED
    BY <2>5, TrimType
<1> QED
  BY <1>3, <1>4 DEF Stored, v

\* What is read next
LEMMA RestIs ==
    ASSUME file \in Seq(Chars), pos \in 0 .. Len(file)
    PROVE  /\ From(file, pos + 1) \in Seq(Chars)
           /\ Len(From(file, pos + 1)) = Len(file) - pos
           /\ \A k \in 1 .. Len(file) - pos : From(file, pos + 1)[k] = file[pos + k]
<1> DEFINE t == SubSeq(file, pos + 1, Len(file))
<1>1. Len(file) \in Nat /\ pos \in Nat /\ pos <= Len(file)
  BY LenProperties
<1>2. /\ t \in Seq(Chars)
      /\ Len(t) = IF pos + 1 <= Len(file) THEN Len(file) - (pos + 1) + 1 ELSE 0
      /\ \A k \in 1 .. Len(t) : t[k] = file[pos + 1 + k - 1]
  BY <1>1, Part
<1>3. From(file, pos + 1) = t
  BY DEF From
<1> HIDE DEF t
<1>4. Len(t) = Len(file) - pos
  BY <1>1, <1>2
<1>5. \A k \in 1 .. Len(file) - pos : pos + 1 + k - 1 = pos + k
  BY <1>1
<1> QED
  BY <1>2, <1>3, <1>4, <1>5

\* The table's words
Words == \A key \in DOMAIN configure_map :
            key \in Seq(Text) /\ configure_map[key] \in Seq(Text)

LEMMA InsertWords ==
    ASSUME Words, NEW key \in Seq(Text), NEW value \in Seq(Text),
           configure_map' = Insert(key, value)
    PROVE  Words'
<1>1. /\ DOMAIN configure_map' = DOMAIN configure_map \cup {key}
      /\ \A k \in DOMAIN configure_map' :
            configure_map'[k] = IF k \in DOMAIN configure_map THEN configure_map[k] ELSE value
  BY DEF Insert
<1> QED
  BY <1>1 DEF Words

LEMMA TypeIs ==
    TypeOK <=> /\ file \in Seq(Chars) /\ pos \in 0 .. Len(file)
               /\ eof \in BOOLEAN /\ aborted \in BOOLEAN /\ Words
BY DEF TypeOK, Words, find, Text

LEMMA LineTypes ==
    ASSUME TypeOK, ReadLine
    PROVE  TypeOK'
<1> USE TypeIs
<1> DEFINE rest == From(file, pos + 1)
           buf  == fgets(rest)
           line == trim(buf)
<1>1. Len(file) \in Nat /\ rest \in Seq(Chars) /\ Len(rest) = Len(file) - pos
  BY RestIs, LenProperties
<1>2. PICK n \in 0 .. Len(rest) :
         /\ buf \in Seq(Chars) /\ Len(buf) = n
         /\ \A k \in 1 .. n : buf[k] = rest[k]
         /\ \A k \in 1 .. n - 1 : rest[k] # Newline
  BY <1>1, FgetsIs
<1>3. /\ pos' = pos + Len(buf) /\ eof' = MeetsEnd(rest) /\ file' = file
      /\ IF Skipped(line) THEN UNCHANGED <<configure_map, aborted>>
         ELSE Set(Key(line), Value(line))
  BY DEF ReadLine
<1> HIDE DEF rest, buf
<1>4. pos' \in 0 .. Len(file)
  BY <1>1, <1>2, <1>3
<1>5. Lined(line)
  <2>1. \A k \in 1 .. n - 1 : buf[k] # Newline
    BY <1>1, <1>2
  <2> QED
    BY <1>2, <2>1, TrimLined DEF Lined
<1> HIDE DEF line
<1>6. eof' \in BOOLEAN
  BY <1>3 DEF MeetsEnd
<1>7. Words' /\ aborted' \in BOOLEAN
  <2>1. CASE Skipped(line)
    BY <1>3, <2>1 DEF Words
  <2>2. CASE ~Skipped(line)
    <3>1. First(line, Equals) # 0
      BY <2>2 DEF Skipped
    <3>2. /\ Key(line) \in Seq(Text)
          /\ Value(line) # <<>> => Stored(Value(line)) \in Seq(Text)
      BY <1>5, <3>1, KeyText, ValueText
    <3>3. Set(Key(line), Value(line))
      BY <1>3, <2>2
    <3>4. CASE Value(line) # <<>> /\ aborted' = aborted
               /\ configure_map' = Insert(Key(line), Stored(Value(line)))
      BY <3>2, <3>4, InsertWords
    <3>5. CASE aborted' = aborted /\ configure_map' = Insert(Key(line), <<>>)
      BY <3>2, <3>5, EmptySeq, InsertWords
    <3>6. CASE aborted' = TRUE /\ configure_map' = configure_map
      BY <3>6 DEF Words
    <3> QED
      BY <3>3, <3>4, <3>5, <3>6 DEF Set
  <2> QED
    BY <2>1, <2>2
<1>8. file' \in Seq(Chars)
  BY <1>3
<1> QED
  BY <1>3, <1>4, <1>6, <1>7, <1>8 DEF TypeOK, Words, find, Text

LEMMA InitTypes == Init => TypeOK
<1> SUFFICES ASSUME Init PROVE TypeOK
  OBVIOUS
<1>1. file \in Seq(Chars) /\ Len(file) \in Nat
  <2>1. PICK n \in 0 .. MaxFile : file \in [1 .. n -> Chars]
    BY DEF Init
  <2>2. n \in Nat
    BY <2>1, BufferAssumption
  <2>3. file \in Seq(Chars)
    BY <2>1, <2>2, SeqDef
  <2> QED
    BY <2>3, LenProperties
<1>2. DOMAIN configure_map = {}
  BY DEF Init
<1>3. Words
  BY <1>2 DEF Words
<1>4. 0 \in 0 .. Len(file)
  BY <1>1
<1> QED
  BY <1>1, <1>3, <1>4, TypeIs DEF Init

LEMMA NextTypes == TypeOK /\ [Next]_vars => TypeOK'
<1> SUFFICES ASSUME TypeOK, [Next]_vars PROVE TypeOK'
  OBVIOUS
<1>1. CASE Next
  BY <1>1, LineTypes DEF Next
<1>2. CASE UNCHANGED vars
  BY <1>2 DEF vars, TypeOK, find
<1> QED
  BY <1>1, <1>2

\* Types, and with them: whatever the file, and wherever fgets() cuts a line
\* that the buffer does not hold, no key and no value has a newline in it
\* (configure.hpp:76 replaces the only one there can be).
THEOREM TypeCorrect == Spec => []TypeOK
BY InitTypes, NextTypes, PTL DEF Spec

-----------------------------------------------------------------------------
(* What a line of the file is, read or looked at                           *)

LEMMA CharsDiffer ==
    /\ Blank # Hash /\ Blank # Equals /\ Blank # Newline
    /\ Hash # Equals /\ Hash # Newline /\ Equals # Newline
BY DEF Blank, Hash, Equals, Newline

LEMMA EndIs ==
    ASSUME file \in Seq(Chars), NEW i \in 1 .. Len(file) + 1
    PROVE  /\ End(i) \in i .. Len(file) + 1
           /\ \A k \in i .. End(i) - 1 : file[k] # Newline
           /\ End(i) <= Len(file) => file[End(i)] = Newline
<1> DEFINE T == {j \in i .. Len(file) : file[j] = Newline} \cup {Len(file) + 1}
<1>1. Len(file) \in Nat
  BY LenProperties
<1>2. T \subseteq Nat /\ T # {}
  BY <1>1
<1>3. End(i) \in T /\ \A y \in T : End(i) <= y
  BY <1>2, MinIs DEF End
<1>4. End(i) \in i .. Len(file) + 1
  BY <1>1, <1>3
<1>5. ASSUME NEW k \in i .. End(i) - 1 PROVE file[k] # Newline
  <2>1. k \in i .. Len(file) /\ ~(End(i) <= k)
    BY <1>1, <1>4
  <2> QED
    BY <1>3, <2>1
<1>6. End(i) <= Len(file) => file[End(i)] = Newline
  BY <1>1, <1>3
<1> QED
  BY <1>4, <1>5, <1>6

LEMMA NoWord ==
    ASSUME NEW i, NEW b, \A k \in i .. b : file[k] = Blank
    PROVE  WordIn(i, b) = <<>>
BY DEF WordIn

\* s is what the file has from a on, with blanks after b.
Shows(s, a, b) ==
    \A k \in 1 .. Len(s) : s[k] = IF a + k - 1 <= b THEN file[a + k - 1] ELSE Blank

\* Trimming a copy of what stands between a and b, with more blanks around it,
\* gives the word there.
LEMMA WordIs ==
    ASSUME file \in Seq(Chars), NEW s \in Seq(Chars),
           NEW i \in Nat \ {0}, NEW a \in Nat \ {0}, i <= a,
           NEW b \in Nat, b <= Len(file), b <= a + Len(s) - 1,
           \A k \in i .. a - 1 : file[k] = Blank,
           Shows(s, a, b),
           NEW w \in a .. b, file[w] # Blank
    PROVE  trim(s) = WordIn(i, b)
<1> DEFINE solid == {k \in i .. b : file[k] # Blank}
<1>1. Len(s) \in Nat /\ Len(file) \in Nat
  BY LenProperties
<1>0. \A k \in 1 .. Len(s) : s[k] = IF a + k - 1 <= b THEN file[a + k - 1] ELSE Blank
  BY DEF Shows
<1>2. ~\A k \in 1 .. Len(s) : s[k] = Blank
  <2>1. w - a + 1 \in 1 .. Len(s) /\ a + (w - a + 1) - 1 = w /\ w <= b
    BY <1>1
  <2>2. s[w - a + 1] = file[w]
    BY <1>0, <2>1
  <2> QED
    BY <2>1, <2>2
<1>3. PICK f, l \in 1 .. Len(s) :
         /\ f <= l /\ s[f] # Blank /\ s[l] # Blank
         /\ \A k \in 1 .. Len(s) : k < f \/ k > l => s[k] = Blank
         /\ trim(s) = SubSeq(s, f, l)
  BY <1>2, TrimIs
<1>4. /\ f \in Nat \ {0} /\ l \in Nat /\ f <= l /\ l <= Len(s)
      /\ a + f - 1 <= b /\ a + l - 1 <= b
      /\ file[a + f - 1] # Blank /\ file[a + l - 1] # Blank
  <2>1. f \in 1 .. Len(s) /\ l \in 1 .. Len(s)
    BY <1>1
  <2>2. s[f] = (IF a + f - 1 <= b THEN file[a + f - 1] ELSE Blank)
    BY <1>0, <2>1
  <2>3. s[l] = (IF a + l - 1 <= b THEN file[a + l - 1] ELSE Blank)
    BY <1>0, <2>1
  <2> QED
    BY <1>1, <1>3, <2>1, <2>2, <2>3
<1>5. a + f - 1 \in solid /\ a + l - 1 \in solid
  <2>1. a + f - 1 \in i .. b /\ a + l - 1 \in i .. b
    BY <1>1, <1>4
  <2> QED
    BY <1>4, <2>1
<1>6. ASSUME NEW k \in solid PROVE a + f - 1 <= k /\ k <= a + l - 1
  <2>1. k \in i .. b /\ file[k] # Blank
    OBVIOUS
  <2>2. a <= k
    BY <2>1
  <2>3. k - a + 1 \in 1 .. Len(s) /\ a + (k - a + 1) - 1 = k /\ k <= b
    BY <1>1, <2>1, <2>2
  <2>4. s[k - a + 1] = file[k]
    BY <1>0, <2>3
  <2>5. ~(k - a + 1 < f) /\ ~(k - a + 1 > l)
    BY <1>3, <2>1, <2>3, <2>4
  <2> QED
    BY <1>4, <2>1, <2>5
<1>7. solid \subseteq 0 .. b /\ solid \subseteq Nat
  OBVIOUS
<1> HIDE DEF solid
<1>8. Min(solid) = a + f - 1 /\ Max(solid) = a + l - 1
  BY <1>5, <1>6, <1>7, MinOf, MaxOf
<1>9. WordIn(i, b) = SubSeq(file, a + f - 1, a + l - 1)
  BY <1>5, <1>8 DEF WordIn, solid
<1>10. SubSeq(s, f, l) = SubSeq(file, a + f - 1, a + l - 1)
  <2> DEFINE u == SubSeq(s, f, l)
             v == SubSeq(file, a + f - 1, a + l - 1)
  <2>1. /\ u \in Seq(Chars) /\ Len(u) = l - f + 1
        /\ \A k \in 1 .. Len(u) : u[k] = s[f + k - 1]
    BY <1>4, Part
  <2>2. a + f - 1 \in Nat \ {0} /\ a + l - 1 \in Nat /\ a + l - 1 <= Len(file)
    <3>1. /\ a \in Nat \ {0} /\ b <= Len(file) /\ b \in Nat /\ Len(file) \in Nat
          /\ f \in Nat \ {0} /\ l \in Nat \ {0} /\ a + l - 1 <= b
      BY <1>1, <1>4
    <3> QED
      BY ONLY <3>1
  <2>3. /\ v \in Seq(Chars)
        /\ Len(v) = IF a + f - 1 <= a + l - 1 THEN (a + l - 1) - (a + f - 1) + 1 ELSE 0
        /\ \A k \in 1 .. Len(v) : v[k] = file[(a + f - 1) + k - 1]
    BY <2>2, Part
  <2> HIDE DEF u, v
  <2>4. Len(v) = Len(u)
    BY <1>4, <2>1, <2>3
  <2>5. ASSUME NEW k \in 1 .. Len(u) PROVE u[k] = v[k]
    <3>1. /\ f + k - 1 \in 1 .. Len(s) /\ a + (f + k - 1) - 1 <= b
          /\ a + (f + k - 1) - 1 = (a + f - 1) + k - 1
      BY <1>1, <1>4, <2>1
    <3>2. s[f + k - 1] = file[(a + f - 1) + k - 1]
      BY <1>0, <3>1
    <3> QED
      BY <2>1, <2>3, <2>4, <3>2
  <2>6. u = v
    BY <2>1, <2>3, <2>4, <2>5, SeqEqual
  <2> QED
    BY <2>6 DEF u, v
<1> QED
  BY <1>3, <1>9, <1>10

\* Of the line that starts at i and whose newline is at e, trim() leaves s,
\* which starts at f.
Line(i, f, e, s) ==
    /\ i \in Nat \ {0} /\ f \in i .. e /\ e \in i .. Len(file)
    /\ e = End(i) /\ file[e] = Newline
    /\ \A k \in i .. e - 1 : file[k] # Newline
    /\ file[f] # Blank /\ \A k \in i .. f - 1 : file[k] = Blank
    /\ s \in Seq(Chars) /\ Len(s) = e - f + 1
    /\ \A k \in 1 .. Len(s) : s[k] = file[f + k - 1]

\* The loop is at the start of a line.
AtStart == pos = 0 \/ file[pos] = Newline

LEMMA ReadsLine ==
    ASSUME TypeOK, Plain, AtStart, pos < Len(file),
           NEW rest, rest = From(file, pos + 1)
    PROVE  /\ ~MeetsEnd(rest)
           /\ pos + Len(fgets(rest)) = End(pos + 1)
           /\ \E f \in Nat : Line(pos + 1, f, End(pos + 1), trim(fgets(rest)))
<1> DEFINE i == pos + 1
           e == End(i)
           buf == fgets(rest)
           m == First(rest, Newline)
<1>1. /\ file \in Seq(Chars) /\ Len(file) \in Nat /\ pos \in Nat
      /\ i \in 1 .. Len(file) /\ i \in 1 .. Len(file) + 1
      /\ rest \in Seq(Chars) /\ Len(rest) = Len(file) - pos
      /\ \A k \in 1 .. Len(file) - pos : rest[k] = file[pos + k]
  <2>1. file \in Seq(Chars) /\ pos \in 0 .. Len(file) /\ Len(file) \in Nat
    BY LenProperties DEF TypeOK
  <2> QED
    BY <2>1, RestIs
<1>2. /\ file[Len(file)] = Newline
      /\ i \in Starts => e - i < BufferSize - 1
  BY DEF Plain, Last
<1>3. i \in Starts
  <2>1. pos # 0 => pos \in DOMAIN file
    BY <1>1, LenProperties
  <2> QED
    BY <2>1 DEF AtStart, Starts
<1>4. /\ e \in i .. Len(file) + 1 /\ \A k \in i .. e - 1 : file[k] # Newline
      /\ e <= Len(file) => file[e] = Newline
  BY <1>1, EndIs
<1> HIDE DEF e
<1>5. e \in i .. Len(file) /\ file[e] = Newline
  <2>1. CASE e = Len(file) + 1
    <3>1. Len(file) \in i .. e - 1
      BY <1>1, <2>1
    <3> QED
      BY <1>2, <1>4, <3>1
  <2>2. CASE e # Len(file) + 1
    <3>0. Len(file) \in Nat /\ i \in 1 .. Len(file) /\ e \in i .. Len(file) + 1
      BY <1>1, <1>4
    <3>1. e \in i .. Len(file)
      BY ONLY <3>0, <2>2
    <3>2. e <= Len(file)
      BY <1>1, <3>1
    <3> QED
      BY <1>4, <3>1, <3>2
  <2> QED
    BY <2>1, <2>2
<1>6. /\ m \in 0 .. Len(rest)
      /\ m = 0 => \A k \in 1 .. Len(rest) : rest[k] # Newline
      /\ m # 0 => rest[m] = Newline /\ \A k \in 1 .. m - 1 : rest[k] # Newline
  BY <1>1, FirstIs
<1> HIDE DEF m
<1>7. m = e - pos /\ m # 0
  <2>1. e - pos \in 1 .. Len(rest) /\ pos + (e - pos) = e /\ e - pos \in 1 .. Len(file) - pos
    BY <1>1, <1>5
  <2>2. rest[e - pos] = Newline
    BY <1>1, <1>5, <2>1
  <2>3. m # 0
    BY <1>6, <2>1, <2>2
  <2>4. rest[m] = file[pos + m] /\ m \in 1 .. Len(file) - pos
    BY <1>1, <1>6, <2>3
  <2>5. ~(pos + m \in i .. e - 1)
    BY <1>4, <1>6, <2>3, <2>4
  <2>6. ~(e - pos \in 1 .. m - 1)
    BY <1>6, <2>2, <2>3
  <2> QED
    BY <1>1, <1>5, <2>1, <2>3, <2>4, <2>5, <2>6
<1>8. PICK n \in 0 .. Len(rest) :
         /\ buf \in Seq(Chars) /\ Len(buf) = n
         /\ \A k \in 1 .. n : buf[k] = rest[k]
         /\ n = Min({IF m = 0 THEN Len(rest) ELSE m, BufferSize - 1})
  BY <1>1, FgetsIs DEF m
<1> HIDE DEF buf
<1>9. n = e - pos
  <2>1. m \in Nat /\ BufferSize - 1 \in Nat /\ m <= BufferSize - 1
    BY <1>1, <1>2, <1>3, <1>5, <1>7, BufferAssumption
  <2>2. n = Min({m, BufferSize - 1})
    BY <1>7, <1>8
  <2>3. Min({m, BufferSize - 1}) = m
    <3> DEFINE T == {m, BufferSize - 1}
    <3>1. T \subseteq Nat /\ m \in T /\ \A y \in T : m <= y
      BY <2>1
    <3> HIDE DEF T
    <3>2. Min(T) = m
      BY <3>1, MinOf
    <3> QED
      BY <3>2 DEF T
  <2> QED
    BY <1>7, <2>2, <2>3
<1>10. ~MeetsEnd(rest)
  BY <1>7 DEF MeetsEnd, m
<1>11. ASSUME NEW k \in 1 .. n PROVE buf[k] = file[pos + k]
  <2>1. k \in 1 .. Len(file) - pos
    BY <1>1, <1>8
  <2> QED
    BY <1>1, <1>8, <2>1
<1>12. n \in 1 .. Len(buf) /\ buf[n] = Newline /\ Len(buf) = n
  <2>1. n \in 1 .. n /\ pos + n = e
    BY <1>1, <1>5, <1>9
  <2> QED
    BY <1>5, <1>8, <1>11, <2>1
<1>13. \E f \in Nat : Line(i, f, e, trim(buf))
  <2>1. PICK f0, l \in 1 .. Len(buf) :
           /\ f0 <= l /\ buf[f0] # Blank /\ buf[l] # Blank
           /\ \A k \in 1 .. Len(buf) : k < f0 \/ k > l => buf[k] = Blank
           /\ trim(buf) = SubSeq(buf, f0, l)
    BY <1>8, <1>12, TrimIs, CharsDiffer
  <2>2. l = n
    <3>1. ~(n > l)
      BY <1>12, <2>1, CharsDiffer
    <3>2. l \in 1 .. n /\ n \in Nat
      BY <1>1, <1>8, <1>12
    <3> QED
      BY ONLY <3>1, <3>2
  <2>3. /\ f0 \in Nat \ {0} /\ n \in Nat /\ f0 <= n /\ n <= Len(buf)
    BY <1>8, <1>12, <2>1, <2>2
  <2>4. /\ trim(buf) \in Seq(Chars) /\ Len(trim(buf)) = n - f0 + 1
        /\ \A k \in 1 .. n - f0 + 1 : trim(buf)[k] = buf[f0 + k - 1]
    <3>1. trim(buf) = SubSeq(buf, f0, n)
      BY <2>1, <2>2
    <3>0. buf \in Seq(Chars)
      BY <1>8
    <3>2. /\ SubSeq(buf, f0, n) \in Seq(Chars)
          /\ Len(SubSeq(buf, f0, n)) = IF f0 <= n THEN n - f0 + 1 ELSE 0
          /\ \A k \in 1 .. Len(SubSeq(buf, f0, n)) : SubSeq(buf, f0, n)[k] = buf[f0 + k - 1]
      BY ONLY <3>0, <2>3, Part
    <3> QED
      BY <2>3, <3>1, <3>2
  <2>5. pos + f0 \in Nat /\ pos + f0 \in i .. e /\ e - (pos + f0) + 1 = n - f0 + 1
    BY <1>1, <1>5, <1>9, <2>3
  <2>6. file[pos + f0] # Blank
    BY <1>11, <1>12, <2>1
  <2>7. ASSUME NEW k \in i .. (pos + f0) - 1 PROVE file[k] = Blank
    <3>1. k - pos \in 1 .. n /\ k - pos < f0 /\ pos + (k - pos) = k
      BY <1>1, <2>3
    <3> QED
      BY <1>11, <1>12, <2>1, <3>1
  <2>8. ASSUME NEW k \in 1 .. n - f0 + 1 PROVE trim(buf)[k] = file[(pos + f0) + k - 1]
    <3>1. f0 + k - 1 \in 1 .. n /\ pos + (f0 + k - 1) = (pos + f0) + k - 1
      BY <1>1, <2>3
    <3> QED
      BY <1>11, <2>4, <3>1
  <2> HIDE DEF i
  <2>9. i \in Nat \ {0} /\ e = End(i)
    BY <1>1 DEF e, i
  <2> QED
    BY <1>4, <1>5, <2>4, <2>5, <2>6, <2>7, <2>8, <2>9 DEF Line
<1>14. pos + Len(buf) = e
  <2>1. pos \in Nat /\ Len(file) \in Nat /\ e \in pos + 1 .. Len(file) /\ Len(buf) = e - pos
    BY <1>1, <1>5, <1>8, <1>9
  <2> QED
    BY ONLY <2>1
<1> QED
  BY <1>10, <1>13, <1>14 DEF buf, e

LEMMA WordHere ==
    ASSUME file \in Seq(Chars), NEW s \in Seq(Chars),
           NEW a \in Nat \ {0}, NEW b \in Nat, b <= Len(file), b <= a + Len(s) - 1,
           Shows(s, a, b),
           NEW w \in a .. b, file[w] # Blank
    PROVE  trim(s) = WordIn(a, b)
<1>1. a <= a /\ \A k \in a .. a - 1 : file[k] = Blank
  OBVIOUS
<1>2. /\ file \in Seq(Chars) /\ s \in Seq(Chars)
      /\ a \in Nat \ {0} /\ b \in Nat /\ b <= Len(file) /\ b <= a + Len(s) - 1
      /\ w \in a .. b /\ file[w] # Blank
  OBVIOUS
<1>3. Shows(s, a, b)
  OBVIOUS
<1> QED
  BY ONLY <1>1, <1>2, <1>3, WordIs

LEMMA LineFacts ==
    ASSUME file \in Seq(Chars), NEW i, NEW f, NEW e, NEW s, Line(i, f, e, s)
    PROVE  /\ i \in Nat \ {0} /\ f \in Nat \ {0} /\ e \in Nat \ {0} /\ Len(file) \in Nat
           /\ i <= f /\ f <= e /\ e <= Len(file)
           /\ Len(s) \in Nat \ {0} /\ s[1] = file[f]
           /\ \A k \in i .. e : file[k] # Blank => f <= k
           /\ \A k \in f .. e : k - f + 1 \in 1 .. Len(s) /\ s[k - f + 1] = file[k]
<1>1. /\ i \in Nat \ {0} /\ f \in Nat \ {0} /\ e \in Nat \ {0} /\ Len(file) \in Nat
      /\ i <= f /\ f <= e /\ e <= Len(file) /\ Len(s) = e - f + 1
  BY LenProperties DEF Line
<1>2. Len(s) \in Nat \ {0}
  BY <1>1
<1>3. s[1] = file[f]
  <2>1. 1 \in 1 .. Len(s) /\ f + 1 - 1 = f
    BY <1>1, <1>2
  <2> QED
    BY <2>1 DEF Line
<1>4. ASSUME NEW k \in i .. e, file[k] # Blank PROVE f <= k
  <2>1. ~(k \in i .. f - 1)
    BY <1>4 DEF Line
  <2> QED
    BY <1>1, <2>1
<1>5. ASSUME NEW k \in f .. e PROVE k - f + 1 \in 1 .. Len(s) /\ s[k - f + 1] = file[k]
  <2>1. k - f + 1 \in 1 .. Len(s) /\ f + (k - f + 1) - 1 = k
    BY <1>1
  <2> QED
    BY <2>1 DEF Line
<1> QED
  BY <1>1, <1>2, <1>3, <1>4, <1>5

\* The first '='
LEMMA EqualsIs ==
    ASSUME file \in Seq(Chars), NEW i, NEW f, NEW e, NEW s, Line(i, f, e, s)
    PROVE  /\ First(s, Equals) = 0 <=> EqualsIn(i) = {}
           /\ First(s, Equals) # 0 =>
                 /\ Min(EqualsIn(i)) = f + First(s, Equals) - 1
                 /\ f + First(s, Equals) - 1 \in f .. e - 1
<1> DEFINE g == First(s, Equals)
<1>1. EqualsIn(i) = {k \in i .. e - 1 : file[k] = Equals}
  BY DEF EqualsIn, Line
<1>2. /\ g \in 0 .. Len(s)
      /\ g = 0 <=> \A k \in 1 .. Len(s) : s[k] # Equals
      /\ g # 0 => s[g] = Equals /\ \A k \in 1 .. g - 1 : s[k] # Equals
  BY FirstIs DEF Line
<1> HIDE DEF g
<1>3. ASSUME NEW x \in EqualsIn(i)
      PROVE  x \in f .. e - 1 /\ x - f + 1 \in 1 .. Len(s) /\ s[x - f + 1] = Equals
  <2>1. x \in i .. e - 1 /\ x \in i .. e /\ file[x] = Equals
    BY <1>1, LineFacts
  <2>2. f <= x
    BY <2>1, LineFacts, CharsDiffer
  <2>3. x \in f .. e - 1 /\ x \in f .. e
    BY <2>1, <2>2, LineFacts
  <2> QED
    BY <2>1, <2>3, LineFacts
<1>4. ASSUME g # 0 PROVE f + g - 1 \in f .. e - 1 /\ f + g - 1 \in EqualsIn(i)
  <2>0. /\ f \in Nat /\ e \in Nat /\ i \in Nat /\ i <= f /\ f <= e
        /\ Len(s) \in Nat
    BY LineFacts
  <2>1. /\ g \in 1 .. Len(s) /\ Len(s) = e - f + 1
        /\ f \in Nat /\ e \in Nat /\ i \in Nat /\ i <= f /\ f <= e
    <3>1. g \in 1 .. Len(s)
      BY <1>2, <1>4, <2>0
    <3>2. Len(s) = e - f + 1
      BY DEF Line
    <3> QED
      BY <2>0, <3>1, <3>2
  <2>2. file[f + g - 1] = Equals
    BY <1>2, <1>4, <2>1 DEF Line
  <2>3. f + g - 1 # e
    BY <2>2, CharsDiffer DEF Line
  <2>4. f + g - 1 \in f .. e - 1 /\ f + g - 1 \in i .. e - 1
    BY ONLY <2>1, <2>3
  <2> QED
    BY <1>1, <2>2, <2>4
<1>5. g = 0 <=> EqualsIn(i) = {}
  BY <1>2, <1>3, <1>4
<1>6. ASSUME g # 0 PROVE Min(EqualsIn(i)) = f + g - 1
  <2>1. ASSUME NEW x \in EqualsIn(i) PROVE f + g - 1 <= x
    <3>1. x \in f .. e - 1 /\ ~(x - f + 1 \in 1 .. g - 1)
      BY <1>2, <1>3, <1>6
    <3>2. f \in Nat /\ e \in Nat /\ g \in Nat
      BY <1>2, LineFacts
    <3> QED
      BY ONLY <3>1, <3>2
  <2>2. EqualsIn(i) \subseteq Nat
    BY <1>1, LineFacts
  <2> QED
    BY <1>4, <1>6, <2>1, <2>2, MinOf
<1> QED
  BY <1>4, <1>5, <1>6 DEF g

\* What the loop passes over is no setting.
LEMMA SettingIs ==
    ASSUME file \in Seq(Chars), NEW i \in Starts, NEW f, NEW e, NEW s, Line(i, f, e, s)
    PROVE  Skipped(s) <=> i \notin Settings
<1>1. s # <<>>
  BY LineFacts, EmptySeq DEF Line
<1>2. /\ i \in Nat \ {0} /\ f \in Nat \ {0} /\ e \in Nat \ {0}
      /\ i <= f /\ f <= e /\ e = End(i) /\ file[e] = Newline
  BY LineFacts DEF Line
<1>3. s[1] = Hash <=> IsComment(i)
  <2>1. ASSUME file[f] = Hash PROVE IsComment(i)
    <3>1. f # e
      BY <1>2, <2>1, CharsDiffer
    <3>2. f \in i .. e - 1
      BY <1>2, <3>1
    <3>3. \A j \in i .. f - 1 : file[j] = Blank
      BY DEF Line
    <3> QED
      BY <1>2, <2>1, <3>2, <3>3 DEF IsComment
  <2>2. ASSUME IsComment(i) PROVE file[f] = Hash
    <3>1. PICK x \in i .. e - 1 : file[x] = Hash /\ \A j \in i .. x - 1 : file[j] = Blank
      BY <1>2, <2>2 DEF IsComment
    <3>2. x \in i .. e /\ file[x] # Blank
      BY <1>2, <3>1, CharsDiffer
    <3>3. f <= x
      BY <3>2, LineFacts
    <3>4. ~(f \in i .. x - 1)
      BY <3>1 DEF Line
    <3>5. f = x
      BY <1>2, <3>2, <3>3, <3>4
    <3> QED
      BY <3>1, <3>5
  <2> QED
    BY <2>1, <2>2, LineFacts
<1>4. ASSUME s[1] = Newline PROVE EqualsIn(i) = {}
  <2>1. file[f] = Newline
    BY <1>4, LineFacts
  <2>2. ~(f \in i .. e - 1)
    BY <2>1 DEF Line
  <2>3. f = e
    BY <1>2, <2>2
  <2>4. First(s, Equals) = 0
    <3>1. First(s, Equals) # 0 => f + First(s, Equals) - 1 \in f .. e - 1
      BY EqualsIs
    <3> QED
      BY <1>2, <2>3, <3>1
  <2> QED
    BY <2>4, EqualsIs
<1> QED
  BY <1>1, <1>3, <1>4, EqualsIs DEF Skipped, Settings

\* What the loop sets is what the line says.
LEMMA KeyIs ==
    ASSUME file \in Seq(Chars), NEW i \in Settings, NEW f, NEW e, NEW s, Line(i, f, e, s)
    PROVE  Key(s) = KeyOf(i)
<1> DEFINE g == First(s, Equals)
           q == f + g - 1
           t == SubSeq(s, 1, g - 1)
<1>1. EqualsIn(i) # {}
  BY DEF Settings
<1>2. g \in 1 .. Len(s) /\ Min(EqualsIn(i)) = q /\ q \in f .. e - 1
  <2>0. s \in Seq(Chars)
    BY DEF Line
  <2>1. g \in 0 .. Len(s) /\ g # 0
    BY <1>1, <2>0, EqualsIs, FirstIs
  <2> QED
    BY <2>1, EqualsIs, LineFacts
<1>3. Key(s) = trim(t) /\ KeyOf(i) = WordIn(i, q - 1)
  BY <1>2 DEF Key, KeyOf
<1> HIDE DEF g
<1>4. /\ i \in Nat \ {0} /\ f \in Nat \ {0} /\ e \in Nat \ {0} /\ Len(file) \in Nat
      /\ i <= f /\ f <= e /\ e <= Len(file) /\ Len(s) \in Nat \ {0}
  BY LineFacts
<1>5. /\ t \in Seq(Chars) /\ Len(t) = g - 1
      /\ \A k \in 1 .. Len(t) : t[k] = s[k]
  <2>1. s \in Seq(Chars) /\ g - 1 \in Nat /\ g - 1 <= Len(s)
    BY <1>2, <1>4 DEF Line
  <2>2. /\ t \in Seq(Chars) /\ Len(t) = IF 1 <= g - 1 THEN (g - 1) - 1 + 1 ELSE 0
        /\ \A k \in 1 .. Len(t) : t[k] = s[1 + k - 1]
    BY <2>1, Part
  <2> HIDE DEF t
  <2>3. Len(t) = g - 1
    BY <2>1, <2>2
  <2>4. \A k \in 1 .. Len(t) : 1 + k - 1 = k
    BY <2>1, <2>3
  <2> QED
    BY <2>2, <2>3, <2>4
<1> HIDE DEF t
<1>6. CASE g = 1
  <2>1. Len(t) = 0
    BY <1>5, <1>6
  <2>2. t = <<>>
    BY <1>5, <2>1, EmptySeq
  <2>3. trim(t) = t
    <3>1. ~\E a, b \in 1 .. Len(t) : TRUE
      BY <2>1
    <3> QED
      BY <1>5, <3>1, TrimIs
  <2>4. \A k \in i .. q - 1 : file[k] = Blank
    BY <1>4, <1>6 DEF Line
  <2> QED
    BY <1>3, <2>2, <2>3, <2>4, NoWord
<1>7. CASE g # 1
  <2> DEFINE b == q - 1
  <2>1. b \in Nat /\ b <= Len(file) /\ b <= f + Len(t) - 1 /\ f \in f .. b
    BY <1>2, <1>4, <1>5, <1>7
  <2>2. file[f] # Blank /\ \A k \in i .. f - 1 : file[k] = Blank
    BY DEF Line
  <2>3. Shows(t, f, b)
    <3> SUFFICES \A k \in 1 .. Len(t) :
                    t[k] = IF f + k - 1 <= b THEN file[f + k - 1] ELSE Blank
      BY DEF Shows
    <3> TAKE k \in 1 .. Len(t)
    <3>1. f + k - 1 <= b /\ k \in 1 .. Len(s)
      BY <1>2, <1>4, <1>5
    <3>2. t[k] = s[k] /\ s[k] = file[f + k - 1]
      BY <1>5, <3>1 DEF Line
    <3> QED
      BY <3>1, <3>2
  <2> HIDE DEF b
  <2>4. file \in Seq(Chars) /\ t \in Seq(Chars)
    BY <1>5
  <2>6. i \in Nat \ {0} /\ f \in Nat \ {0} /\ i <= f
    BY <1>4
  <2>7. file[f] # Blank /\ b \in Nat /\ b <= Len(file) /\ b <= f + Len(t) - 1 /\ f \in f .. b
    BY <2>1, <2>2
  <2>8. \A k \in i .. f - 1 : file[k] = Blank
    BY <2>2
  <2>5. trim(t) = WordIn(i, b)
    BY ONLY <2>3, <2>4, <2>6, <2>7, <2>8, WordIs
  <2> QED
    BY <1>3, <2>5 DEF b
<1> QED
  BY <1>6, <1>7

LEMMA ValueIs ==
    ASSUME file \in Seq(Chars), NEW i \in Settings, NEW f, NEW e, NEW s, Line(i, f, e, s),
           ValueOf(i) # <<>>
    PROVE  Value(s) # <<>> /\ Stored(Value(s)) = ValueOf(i)
<1> DEFINE g == First(s, Equals)
           q == f + g - 1
           v == Value(s)
           u == [v EXCEPT ![Len(v)] = Blank]
<1>1. EqualsIn(i) # {} /\ e = End(i)
  BY DEF Settings, Line
<1>2. g \in 1 .. Len(s) /\ Min(EqualsIn(i)) = q /\ q \in f .. e - 1
  <2>0. s \in Seq(Chars)
    BY DEF Line
  <2>1. g \in 0 .. Len(s) /\ g # 0
    BY <1>1, <2>0, EqualsIs, FirstIs
  <2> QED
    BY <2>1, EqualsIs, LineFacts
<1>3. v = SubSeq(s, g + 1, Len(s)) /\ ValueOf(i) = WordIn(q + 1, e - 1)
  BY <1>1, <1>2 DEF Value, From, ValueOf
<1> HIDE DEF g, v
<1>4. /\ f \in Nat \ {0} /\ e \in Nat \ {0} /\ Len(file) \in Nat
      /\ f <= e /\ e <= Len(file) /\ Len(s) \in Nat \ {0} /\ Len(s) = e - f + 1
      /\ g \in Nat \ {0} /\ q \in Nat \ {0} /\ q < e
  <2>1. /\ f \in Nat \ {0} /\ e \in Nat \ {0} /\ Len(file) \in Nat
        /\ f <= e /\ e <= Len(file) /\ Len(s) \in Nat \ {0}
    BY LineFacts
  <2>2. Len(s) = e - f + 1
    BY DEF Line
  <2>3. g \in Nat \ {0} /\ q \in Nat \ {0} /\ q < e
    <3>1. g \in 1 .. Len(s) /\ f + g - 1 \in f .. e - 1
      BY <1>2
    <3>2. f \in Nat \ {0} /\ e \in Nat /\ Len(s) \in Nat
      BY <2>1
    <3>3. g \in Nat \ {0} /\ f + g - 1 \in Nat \ {0} /\ f + g - 1 < e
      BY ONLY <3>1, <3>2
    <3> QED
      BY <3>3
  <2> QED
    BY <2>1, <2>2, <2>3
<1>5. v \in Seq(Chars) /\ Len(v) = e - q /\ \A k \in 1 .. Len(v) : v[k] = s[g + k]
  <2>1. s \in Seq(Chars) /\ g + 1 \in Nat \ {0} /\ Len(s) \in Nat /\ Len(s) <= Len(s)
    BY <1>4 DEF Line
  <2>2. /\ v \in Seq(Chars) /\ Len(v) = IF g + 1 <= Len(s) THEN Len(s) - (g + 1) + 1 ELSE 0
        /\ \A k \in 1 .. Len(v) : v[k] = s[(g + 1) + k - 1]
    BY <1>3, <2>1, Part
  <2>3. Len(v) = e - q
    BY <1>4, <2>2
  <2>4. \A k \in 1 .. Len(v) : (g + 1) + k - 1 = g + k
    BY <1>4, <2>3
  <2> QED
    BY <2>2, <2>3, <2>4
<1>6. v # <<>> /\ Len(v) \in 1 .. Len(v) /\ Len(v) \in Nat
  BY <1>4, <1>5, EmptySeq
<1>7. /\ u \in Seq(Chars) /\ Len(u) = Len(v)
      /\ \A k \in 1 .. Len(v) : u[k] = IF k = Len(v) THEN Blank ELSE v[k]
  <2>1. Blank \in Chars
    BY DEF Chars
  <2> QED
    BY <1>5, <1>6, <2>1, ExceptSeq
<1> HIDE DEF u
<1>8. PICK w \in q + 1 .. e - 1 : file[w] # Blank
  BY <1>3, NoWord
<1>9. ASSUME NEW k \in 1 .. Len(u)
      PROVE  u[k] = IF (q + 1) + k - 1 <= e - 1 THEN file[(q + 1) + k - 1] ELSE Blank
  <2>1. k \in 1 .. Len(v) /\ Len(v) = e - q
    BY <1>5, <1>7
  <2>2. CASE k = Len(v)
    <3>1. ~((q + 1) + k - 1 <= e - 1)
      BY <1>4, <2>1, <2>2
    <3> QED
      BY <1>7, <2>1, <2>2, <3>1
  <2>3. CASE k # Len(v)
    <3>1. /\ (q + 1) + k - 1 <= e - 1 /\ g + k \in 1 .. Len(s)
          /\ f + (g + k) - 1 = (q + 1) + k - 1
      BY <1>4, <2>1, <2>3
    <3>2. u[k] = s[g + k]
      BY <1>5, <1>7, <2>1, <2>3
    <3>3. s[g + k] = file[f + (g + k) - 1]
      BY <3>1 DEF Line
    <3> QED
      BY <3>1, <3>2, <3>3
  <2> QED
    BY <2>2, <2>3
<1> DEFINE a == q + 1
           b == e - 1
<1>10. /\ a \in Nat \ {0} /\ b \in Nat /\ b <= Len(file)
       /\ b <= a + Len(u) - 1
  BY <1>4, <1>5, <1>7
<1>11. trim(u) = WordIn(a, b)
  <2>1. Shows(u, a, b)
    BY <1>9 DEF Shows
  <2>2. w \in a .. b /\ file[w] # Blank /\ file \in Seq(Chars) /\ u \in Seq(Chars)
    BY <1>7, <1>8
  <2> HIDE DEF a, b
  <2> QED
    BY ONLY <1>10, <2>1, <2>2, WordHere
<1> QED
  BY <1>3, <1>6, <1>11 DEF Stored, u, v

-----------------------------------------------------------------------------
(* The table holds what the lines that have been read say                  *)

Done == {i \in Settings : i <= pos}

\* The table is what the lines that start in D say.
Holds(table, D) ==
    /\ DOMAIN table = {KeyOf(i) : i \in D}
    /\ \A i \in D :
          (\A j \in D : KeyOf(j) = KeyOf(i) => j >= i) => table[KeyOf(i)] = ValueOf(i)

LoadInv == Plain => /\ ~aborted /\ AtStart /\ Holds(configure_map, Done)
                    /\ eof => pos = Len(file)

LEMMA SettingsType ==
    ASSUME file \in Seq(Chars)
    PROVE  Settings \subseteq 1 .. Len(file)
<1> SUFFICES ASSUME NEW i \in Settings PROVE i \in 1 .. Len(file)
  OBVIOUS
<1>1. i \in 1 .. Len(file) + 1 /\ Len(file) \in Nat
  BY LenProperties DEF Settings, Starts
<1>2. PICK x \in i .. End(i) - 1 : TRUE
  BY DEF Settings, EqualsIn
<1>3. End(i) \in i .. Len(file) + 1
  BY <1>1, EndIs
<1> QED
  BY <1>1, <1>2, <1>3

\* No line starts inside a line.
LEMMA NextSetting ==
    ASSUME file \in Seq(Chars), pos \in 0 .. Len(file), pos + 1 \in 1 .. Len(file)
    PROVE  {i \in Settings : i <= End(pos + 1)} = Done \cup ({pos + 1} \cap Settings)
<1>1. /\ End(pos + 1) \in pos + 1 .. Len(file) + 1
      /\ \A k \in pos + 1 .. End(pos + 1) - 1 : file[k] # Newline
      /\ Len(file) \in Nat
  BY EndIs, LenProperties
<1>2. ASSUME NEW i \in Settings, i <= End(pos + 1), i > pos + 1 PROVE FALSE
  <2>1. i \in 1 .. Len(file) /\ i \in Starts
    BY SettingsType DEF Settings
  <2>2. file[i - 1] = Newline
    BY <1>1, <1>2, <2>1 DEF Starts
  <2>3. i - 1 \in pos + 1 .. End(pos + 1) - 1
    BY <1>1, <1>2, <2>1
  <2> QED
    BY <1>1, <2>2, <2>3
<1>3. \A i \in Settings : i \in Nat
  BY SettingsType
<1>4. ASSUME NEW i \in Settings PROVE i <= End(pos + 1) <=> i <= pos \/ i = pos + 1
  BY <1>1, <1>2, <1>3
<1> QED
  BY <1>4 DEF Done

LEMMA InsertHolds ==
    ASSUME file \in Seq(Chars), NEW D, D \subseteq Nat, NEW i \in Nat, \A j \in D : j < i,
           Holds(configure_map, D)
    PROVE  Holds(Insert(KeyOf(i), ValueOf(i)), D \cup {i})
<1> DEFINE key == KeyOf(i)
           value == ValueOf(i)
           table == Insert(key, value)
<1>1. /\ DOMAIN table = DOMAIN configure_map \cup {key}
      /\ \A k \in DOMAIN table :
            table[k] = IF k \in DOMAIN configure_map THEN configure_map[k] ELSE value
  BY DEF Insert
<1>2. DOMAIN configure_map = {KeyOf(j) : j \in D}
  BY DEF Holds
<1> HIDE DEF table
<1>3. DOMAIN table = {KeyOf(j) : j \in D \cup {i}}
  BY <1>1, <1>2
<1>4. ASSUME NEW j \in D \cup {i}, \A k \in D \cup {i} : KeyOf(k) = KeyOf(j) => k >= j
      PROVE  table[KeyOf(j)] = ValueOf(j)
  <2>1. CASE j \in D
    <3>1. configure_map[KeyOf(j)] = ValueOf(j)
      BY <1>4, <2>1 DEF Holds
    <3>2. KeyOf(j) \in DOMAIN configure_map /\ KeyOf(j) \in DOMAIN table
      BY <1>1, <1>2, <2>1
    <3> QED
      BY <1>1, <3>1, <3>2
  <2>2. CASE j = i
    <3>1. KeyOf(i) \notin DOMAIN configure_map
      <4>1. ASSUME NEW k \in D, KeyOf(k) = KeyOf(i) PROVE FALSE
        <5>1. k >= i /\ k < i /\ k \in Nat
          BY <1>4, <2>2, <4>1
        <5> QED
          BY <5>1
      <4> QED
        BY <1>2, <4>1
    <3>2. KeyOf(i) \in DOMAIN table
      BY <1>1
    <3> QED
      BY <1>1, <2>2, <3>1, <3>2
  <2> QED
    BY <2>1, <2>2
<1> QED
  BY <1>3, <1>4 DEF table, Holds

LEMMA FileStays ==
    ASSUME file' = file
    PROVE  /\ Plain' <=> Plain
           /\ Settings' = Settings
           /\ \A table, D : Holds(table, D)' <=> Holds(table, D)
<1>1. /\ Starts' = Starts
      /\ \A i : End(i)' = End(i)
      /\ \A i, j : WordIn(i, j)' = WordIn(i, j)
  BY DEF Starts, End, WordIn
<1>2. \A i : EqualsIn(i)' = EqualsIn(i) /\ IsComment(i)' = IsComment(i)
  BY <1>1 DEF EqualsIn, IsComment
<1>3. \A i : KeyOf(i)' = KeyOf(i) /\ ValueOf(i)' = ValueOf(i)
  BY <1>1, <1>2 DEF KeyOf, ValueOf
<1>4. Settings' = Settings
  BY <1>1, <1>2 DEF Settings
<1>5. Plain' <=> Plain
  BY <1>1, <1>3, <1>4 DEF Plain
<1>6. \A table, D : Holds(table, D)' <=> Holds(table, D)
  BY <1>3 DEF Holds
<1> QED
  BY <1>4, <1>5, <1>6

LEMMA LineLoads ==
    ASSUME TypeOK, TypeOK', Plain, LoadInv, ReadLine
    PROVE  LoadInv'
<1> DEFINE rest == From(file, pos + 1)
           buf  == fgets(rest)
           line == trim(buf)
<1>1. /\ ~eof /\ file' = file /\ pos' = pos + Len(buf) /\ eof' = MeetsEnd(rest)
      /\ IF Skipped(line) THEN UNCHANGED <<configure_map, aborted>>
         ELSE Set(Key(line), Value(line))
  BY DEF ReadLine
<1>2. /\ file \in Seq(Chars) /\ pos \in 0 .. Len(file) /\ Len(file) \in Nat
      /\ rest \in Seq(Chars) /\ Len(rest) = Len(file) - pos
  BY RestIs, LenProperties DEF TypeOK
<1>3. ~aborted /\ AtStart /\ Holds(configure_map, Done)
  BY DEF LoadInv
<1>4. CASE pos = Len(file)
  <2>1. rest = <<>> /\ Len(rest) = 0
    BY <1>2, <1>4, EmptySeq
  <2>2. Len(buf) = 0 /\ buf = <<>>
    <3>1. Len(buf) \in 0 .. 0 /\ buf \in Seq(Chars)
      BY <1>2, <2>1, FgetsIs
    <3> QED
      BY <3>1, EmptySeq
  <2>3. line = <<>>
    <3> HIDE DEF buf
    <3>1. buf \in Seq(Chars)
      BY <2>2, EmptySeq
    <3>2. ~\E a, b \in 1 .. Len(buf) : TRUE
      BY <2>2
    <3> QED
      BY <2>2, <3>1, <3>2, TrimIs
  <2>4. Skipped(line)
    BY <2>3 DEF Skipped
  <2>5. pos' = pos /\ configure_map' = configure_map /\ aborted' = aborted
    BY <1>1, <1>2, <2>2, <2>4
  <2>6. Done' = Done /\ AtStart'
    BY <1>1, <1>3, <2>5, FileStays DEF Done, AtStart
  <2>7. Holds(configure_map, Done)'
    BY <1>1, <1>3, <2>5, <2>6, FileStays
  <2> QED
    BY <1>1, <1>3, <1>4, <2>5, <2>6, <2>7 DEF LoadInv
<1>5. CASE pos < Len(file)
  <2> DEFINE i == pos + 1
             e == End(i)
  <2>1. i \in 1 .. Len(file) /\ i \in Starts /\ i \in Nat
    <3>1. pos # 0 => pos \in DOMAIN file
      BY <1>2, LenProperties
    <3> QED
      BY <1>2, <1>3, <1>5, <3>1 DEF AtStart, Starts
  <2>2. /\ eof' = FALSE /\ pos' = e
        /\ \E f \in Nat : Line(i, f, e, line)
    BY <1>1, <1>3, <1>5, ReadsLine
  <2>3. PICK f \in Nat : Line(i, f, e, line)
    BY <2>2
  <2> HIDE DEF i, e, rest, buf, line
  <2>4. AtStart'
    BY <1>1, <2>2, <2>3 DEF AtStart, Line
  <2>5. Done' = Done \cup ({i} \cap Settings)
    <3>1. {j \in Settings : j <= e} = Done \cup ({i} \cap Settings)
      BY <1>2, <2>1, NextSetting DEF i, e
    <3> QED
      BY <1>1, <2>2, <3>1, FileStays DEF Done
  <2>6. CASE i \notin Settings
    <3>1. Skipped(line)
      BY <1>2, <2>1, <2>3, <2>6, SettingIs
    <3>2. configure_map' = configure_map /\ aborted' = aborted /\ Done' = Done
      BY <1>1, <2>5, <2>6, <3>1
    <3>3. Holds(configure_map, Done)'
      BY <1>1, <1>3, <3>2, FileStays
    <3> QED
      BY <1>3, <2>2, <2>4, <3>2, <3>3 DEF LoadInv
  <2>7. CASE i \in Settings
    <3>1. ~Skipped(line)
      BY <1>2, <2>1, <2>3, <2>7, SettingIs
    <3>2. ValueOf(i) # <<>>
      BY <2>7 DEF Plain
    <3>3. Key(line) = KeyOf(i) /\ Value(line) # <<>> /\ Stored(Value(line)) = ValueOf(i)
      BY <1>2, <2>3, <2>7, <3>2, KeyIs, ValueIs
    <3>4. configure_map' = Insert(KeyOf(i), ValueOf(i)) /\ aborted' = aborted
      BY <1>1, <3>1, <3>3 DEF Set
    <3>5. Done' = Done \cup {i}
      BY <2>5, <2>7
    <3>6. Done \subseteq Nat /\ \A j \in Done : j < i
      BY <1>2, SettingsType DEF Done, i
    <3>7. Holds(configure_map', Done')
      BY <1>2, <1>3, <2>1, <3>4, <3>5, <3>6, InsertHolds
    <3>8. Holds(configure_map, Done)'
      BY <1>1, <3>7, FileStays
    <3> QED
      BY <1>3, <2>2, <2>4, <3>4, <3>8 DEF LoadInv
  <2> QED
    BY <2>6, <2>7
<1> QED
  BY <1>2, <1>4, <1>5

LEMMA LoadInit == TypeOK /\ Init => LoadInv
<1> SUFFICES ASSUME TypeOK, Init PROVE LoadInv
  OBVIOUS
<1>1. Done = {}
  <2>1. \A i \in Settings : i \in Nat \ {0}
    BY SettingsType DEF TypeOK
  <2> QED
    BY <2>1 DEF Init, Done
<1>2. DOMAIN configure_map = {}
  BY DEF Init
<1> QED
  BY <1>1, <1>2 DEF Init, LoadInv, AtStart, Holds

LEMMA LoadNext == TypeOK /\ TypeOK' /\ LoadInv /\ [Next]_vars => LoadInv'
<1> SUFFICES ASSUME TypeOK, TypeOK', LoadInv, [Next]_vars PROVE LoadInv'
  OBVIOUS
<1>1. Plain' <=> Plain
  BY FileStays DEF Next, ReadLine, vars
<1>2. CASE ~Plain
  BY <1>1, <1>2 DEF LoadInv
<1>3. CASE Plain /\ Next
  BY <1>3, LineLoads DEF Next
<1>4. CASE Plain /\ UNCHANGED vars
  <2>1. Holds(configure_map, Done)
    BY <1>4 DEF LoadInv
  <2>2. file' = file /\ Done' = Done /\ configure_map' = configure_map
    BY <1>4, FileStays DEF vars, Done
  <2>3. Holds(configure_map, Done)'
    BY <2>1, <2>2, FileStays
  <2> QED
    BY <1>4, <2>3 DEF vars, LoadInv, AtStart
<1> QED
  BY <1>2, <1>3, <1>4

\* Of every file of the form load() is made for (configure.hpp:47: comments,
\* correct settings, blanks around them), of any length and with any key as
\* often as it likes, the table is what the file says, and the process goes on.
THEOREM LoadedAsWritten == Spec => []LoadsWhatIsWritten
<1>1. TypeOK /\ LoadInv => LoadsWhatIsWritten
  <2> SUFFICES ASSUME TypeOK, LoadInv, Plain
               PROVE  /\ ~aborted
                      /\ eof => /\ DOMAIN configure_map = {KeyOf(i) : i \in Settings}
                                /\ \A i \in Settings :
                                      (\A j \in Settings : KeyOf(j) = KeyOf(i) => j >= i)
                                          => find(KeyOf(i)) = ValueOf(i)
    BY DEF LoadsWhatIsWritten
  <2>1. ~aborted /\ Holds(configure_map, Done) /\ (eof => pos = Len(file))
    BY DEF LoadInv
  <2>2. ASSUME eof PROVE Done = Settings
    <3>1. Settings \subseteq 1 .. Len(file) /\ Len(file) \in Nat /\ pos = Len(file)
      BY <2>1, <2>2, SettingsType, LenProperties DEF TypeOK
    <3>2. \A i \in Settings : i <= pos
      BY <3>1
    <3> QED
      BY <3>2 DEF Done
  <2> QED
    BY <2>1, <2>2 DEF Holds, find
<1> QED
  BY <1>1, InitTypes, NextTypes, LoadInit, LoadNext, PTL DEF Spec

=============================================================================
