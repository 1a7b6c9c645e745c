----------------------------- MODULE Configure -----------------------------
(***************************************************************************)
(* How RpcConfigure reads rpc.conf (configure.hpp): one line of the file    *)
(* after another, into a table that keeps the first value of a key.         *)
(*                                                                           *)
(* A file is a sequence of characters.  Only the four that load() tells     *)
(* from others have names; it is given every file of at most MaxFile        *)
(* characters.  A file that cannot be opened is not modelled.               *)
(***************************************************************************)
EXTENDS SequencesExt, Integers

CONSTANTS
    Letters,    \* the characters that mean nothing to load()
    BufferSize, \* BUFFER_SIZE, 128 in the code
    MaxFile     \* bound: the length of a file

Blank   == " "
Hash    == "#"
Equals  == "="
Newline == "\n"
Chars   == Letters \cup {Blank, Hash, Equals, Newline}

ASSUME LetterAssumption == Letters \cap {Blank, Hash, Equals, Newline} = {}
ASSUME BufferAssumption == BufferSize \in Nat \ {0, 1} /\ MaxFile \in Nat

VARIABLES
    file,           \* what rpc.conf holds
    pos,            \* how much of it is read
    eof,            \* feof(pf)
    configure_map,  \* configure_map_
    aborted         \* whether the process has ended in load()

vars == <<file, pos, eof, configure_map, aborted>>

-----------------------------------------------------------------------------
From(s, i)   == SubSeq(s, i, Len(s))
First(s, c)  == SelectInSeq(s, LAMBDA d : d = c)

\* trim() leaves a string of blanks as it is.
trim(s) ==
    LET first == SelectInSeq(s, LAMBDA c : c # Blank)
        last  == SelectLastInSeq(s, LAMBDA c : c # Blank)
    IN  IF first = 0 THEN s ELSE SubSeq(s, first, last)

\* fgets(): the rest of the line, as far as the buffer holds it.
fgets(rest) ==
    LET line == First(rest, Newline)
        end  == IF line = 0 THEN Len(rest) ELSE line
    IN  SubSeq(rest, 1, Min({end, BufferSize - 1}))

\* Mutant: the end is not noticed unless something was read.
NoticedWithText(rest) == /\ rest # <<>>
                         /\ Len(rest) < BufferSize - 1
                         /\ First(rest, Newline) = 0

\* fgets() meets the end of the file only if nothing else stops it.
MeetsEnd(rest) == Len(rest) < BufferSize - 1 /\ First(rest, Newline) = 0

\* Comments, empty lines and lines without '=' are passed over.
Skipped(s) == \/ s = <<>>
              \/ s[1] \in {Hash, Newline}
              \/ First(s, Equals) = 0

Key(s)   == trim(SubSeq(s, 1, First(s, Equals) - 1))
Value(s) == From(s, First(s, Equals) + 1)

\* Mutant: the newline stays.
NewlineKept(v) == trim(v)

\* The last character, the newline as a rule, is replaced by a blank.
Stored(v) == trim([v EXCEPT ![Len(v)] = Blank])

\* Mutant: the value is overwritten.
Overwrite(key, value) ==
    [k \in DOMAIN configure_map \cup {key} |->
        IF k = key THEN value ELSE configure_map[k]]

\* insert() keeps the value a key has.
Insert(key, value) ==
    [k \in DOMAIN configure_map \cup {key} |->
        IF k \in DOMAIN configure_map THEN configure_map[k] ELSE value]

\* What a line with an '=' sets.  Of an empty value the character before the
\* first is overwritten, which ends the process or goes unnoticed.
Set(key, value) ==
    \/ /\ value # <<>>
       /\ \E stored \in {Stored(value)} : configure_map' = Insert(key, stored)
       /\ UNCHANGED aborted
    \/ /\ value = <<>>
       /\ configure_map' = Insert(key, <<>>)
       /\ UNCHANGED aborted
    \/ /\ value = <<>>
       /\ aborted' = TRUE
       /\ UNCHANGED configure_map

\* One turn of the loop
ReadLine ==
    /\ ~eof /\ ~aborted
    /\ \E rest \in {From(file, pos + 1)} : \E buf \in {fgets(rest)} :
          /\ pos' = pos + Len(buf)
          /\ eof' = MeetsEnd(rest)
          /\ \E line \in {trim(buf)} :
                IF Skipped(line) THEN UNCHANGED <<configure_map, aborted>>
                ELSE \E key \in {Key(line)}, value \in {Value(line)} : Set(key, value)
    /\ UNCHANGED file

\* find(), which the constructor of rpc_server uses
find(key) == IF key \in DOMAIN configure_map THEN configure_map[key] ELSE <<>>

Init ==
    /\ \E n \in 0 .. MaxFile : file \in [1 .. n -> Chars]
    /\ pos = 0
    /\ eof = FALSE
    /\ configure_map = <<>>
    /\ aborted = FALSE

Next == ReadLine

Spec == Init /\ [][Next]_vars /\ WF_vars(Next)

-----------------------------------------------------------------------------
(* What a file says, by the places in it, not by reading it in pieces *)

\* A line starts at i and ends before End(i).
Starts == {1} \cup {i + 1 : i \in {j \in DOMAIN file : file[j] = Newline}}
End(i) == Min({j \in i .. Len(file) : file[j] = Newline} \cup {Len(file) + 1})

\* What stands between i and j, up to blanks around it
WordIn(i, j) ==
    LET solid == {k \in i .. j : file[k] # Blank}
    IN  IF solid = {} THEN <<>> ELSE SubSeq(file, Min(solid), Max(solid))

EqualsIn(i)  == {e \in i .. End(i) - 1 : file[e] = Equals}
IsComment(i) == \E e \in i .. End(i) - 1 :
    file[e] = Hash /\ \A j \in i .. e - 1 : file[j] = Blank

\* The lines that set a key, and what they set
Settings   == {i \in Starts : EqualsIn(i) # {} /\ ~IsComment(i)}
KeyOf(i)   == WordIn(i, Min(EqualsIn(i)) - 1)
ValueOf(i) == WordIn(Min(EqualsIn(i)) + 1, End(i) - 1)

\* The files load() is made for: every line ends in a newline and fits into
\* the buffer with it, and every key has a value.
Plain ==
    /\ file # <<>> /\ Last(file) = Newline
    /\ \A i \in Starts : End(i) - i < BufferSize - 1
    /\ \A i \in Settings : ValueOf(i) # <<>>

(* Properties *)

\* Every variable keeps its type; whatever the file, and however its lines are
\* cut, no key and no value has a newline in it.
TypeOK ==
    /\ file \in Seq(Chars)
    /\ pos \in 0 .. Len(file)
    /\ eof \in BOOLEAN /\ aborted \in BOOLEAN
    /\ \A key \in DOMAIN configure_map :
          /\ key \in Seq(Chars \ {Newline})
          /\ find(key) \in Seq(Chars \ {Newline})

\* Of a plain file the whole is read: a key has the value of the first line that
\* sets it, with inner blanks and further '=' in it and no others, comments and
\* other lines leave no trace, and the process goes on.
LoadsWhatIsWritten == Plain =>
    /\ ~aborted
    /\ eof => /\ DOMAIN configure_map = {KeyOf(i) : i \in Settings}
              /\ \A i \in Settings :
                    (\A j \in Settings : KeyOf(j) = KeyOf(i) => j >= i)
                        => find(KeyOf(i)) = ValueOf(i)

\* load() ends, and has then read the whole file or ended the process.
LoadEnds == <>[](aborted \/ (eof /\ pos = Len(file)))

=============================================================================
