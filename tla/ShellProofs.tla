----------------------------- MODULE ShellProofs ----------------------------
(***************************************************************************)
(* Proofs about the shell, for any lines, any length of the buffer and any *)
(* number of pipes, waiting shells and files.                              *)
(***************************************************************************)
EXTENDS Shell, FiniteSetTheorems, SequenceTheorems, TLAPS

(* A nonempty set of naturals has a least element.                         *)
LEMMA LeastNat ==
    ASSUME NEW S \in SUBSET Nat, S # {}
    PROVE  \E m \in S : \A n \in S : m <= n
<1>1. \E R : IsWellFoundedOn(R, Nat) /\ \A x, y \in Nat : x < y => <<x, y>> \in R
  <2>1. IsWellFoundedOn(OpToRel(<, Nat), Nat)
    BY NatLessThanWellFounded
  <2>2. \A x, y \in Nat : x < y => <<x, y>> \in OpToRel(<, Nat)
    BY Zenon DEF OpToRel
  <2> QED
    BY <2>1, <2>2, Zenon
<1>2. PICK R : IsWellFoundedOn(R, Nat) /\ \A x, y \in Nat : x < y => <<x, y>> \in R
  BY <1>1
<1>3. \E x \in S : \A y \in S : ~ (<<y, x>> \in R)
  <2>1. IsWellFoundedOn(R, Nat)
    BY <1>2
  <2>2. S \subseteq Nat /\ S # {}
    OBVIOUS
  <2> QED
    BY ONLY <2>1, <2>2, WFMin, Zenon
<1>4. PICK x \in S : \A y \in S : ~ (<<y, x>> \in R)
  BY <1>3
<1>5. \A y \in S : x <= y
  <2>1. ASSUME NEW y \in S PROVE ~(y < x)
    BY <1>2, <1>4
  <2> QED
    BY <2>1
<1> QED
  BY <1>5

----------------------------------------------------------------------------
(* The line.                                                               *)

(* What readline has accepted is in front of pos, holds no control key and *)
(* no end of string, and is what the screen shows.                         *)
LineInv ==
    /\ cmd_line \in [0 .. COUNT -> Chars] /\ pos \in 0 .. COUNT
    /\ pc = "read" => /\ \A i \in 0 .. (pos - 1) : cmd_line[i] \notin Edits \cup {Nul}
                      /\ shown = Text

(* The string that starts at cmd_line ends at the first Nul.               *)
LEMMA StringAt ==
    ASSUME NEW b \in [0 .. COUNT -> Chars], NEW p \in 0 .. COUNT, b[p] = Nul,
           \A i \in 0 .. (p - 1) : b[i] # Nul
    PROVE  StringIn(b) = [i \in 1 .. p |-> b[i - 1]]
<1> DEFINE ends == {i \in 0 .. COUNT : b[i] = Nul}
           least == CHOOSE i \in ends : \A j \in ends : i <= j
<1>0. COUNT \in Nat
  BY ShAssumption
<1>1. p \in ends /\ \A j \in ends : p <= j
  BY <1>0
<1>2. least \in ends /\ \A j \in ends : least <= j
  BY <1>1
<1>3. least = p
  BY <1>0, <1>1, <1>2
<1> QED
  BY <1>1, <1>3 DEF StringIn

(* A string is a sequence of characters.                                   *)
LEMMA StringType ==
    ASSUME NEW b \in [0 .. COUNT -> Chars]
    PROVE  StringIn(b) \in Seq(Chars)
<1> DEFINE ends == {i \in 0 .. COUNT : b[i] = Nul}
           least == CHOOSE i \in ends : \A j \in ends : i <= j
           n == IF ends = {} THEN COUNT + 1 ELSE least
<1>0. COUNT \in Nat
  BY ShAssumption
<1>1. n \in 0 .. (COUNT + 1)
  <2>1. CASE ends = {}
    BY <1>0, <2>1
  <2>2. CASE ends # {}
    <3>1. \E i \in ends : \A j \in ends : i <= j
      <4>1. ends \in SUBSET Nat
        BY <1>0
      <4> HIDE DEF ends
      <4> QED
        BY <4>1, <2>2, LeastNat
    <3>2. least \in ends
      BY <3>1
    <3> QED
      BY <1>0, <2>2, <3>2
  <2> QED
    BY <2>1, <2>2
<1>2. StringIn(b) = [i \in 1 .. n |-> b[i - 1]]
  BY DEF StringIn
<1> HIDE DEF n
<1>3. \A i \in 1 .. n : b[i - 1] \in Chars
  BY <1>0, <1>1
<1> QED
  BY <1>0, <1>1, <1>2, <1>3

(* A key is a character and not 0.                                         *)
LEMMA KeysType ==
    ASSUME NEW k \in Keys, pos \in Nat
    PROVE  k \in Chars /\ k # Nul
<1>1. CASE k \in Edits
  BY <1>1 DEF Chars, Edits, Enter, Back, CtrlL, CtrlU, Nul
<1>2. CASE k \notin Edits
  <2>1. PICK l \in Lines : Len(l) > pos /\ k = l[pos + 1]
    BY <1>2 DEF Keys
  <2>2. l \in Seq(Chars \ {Nul})
    BY ShAssumption
  <2> QED
    BY <2>1, <2>2
<1> QED
  BY <1>1, <1>2

(* What the steps outside readline do to the line: nothing while another   *)
(* command runs, or a new prompt.                                          *)
LEMMA LineElsewhere ==
    ASSUME ShNext, ~ \E k \in Keys : Readline(k)
    PROVE  \/ cmd_line' = Blank /\ pos' = 0 /\ shown' = <<>>
           \/ UNCHANGED lineVars /\ (pc' # "read" \/ pc' = pc)
<1>1. ASSUME NEW open, Finish(open)
      PROVE  \/ cmd_line' = Blank /\ pos' = 0 /\ shown' = <<>>
             \/ UNCHANGED lineVars /\ pc' # "read"
  BY <1>1 DEF Finish, NewPrompt
<1>2. ASSUME Ends
      PROVE  \/ cmd_line' = Blank /\ pos' = 0 /\ shown' = <<>>
             \/ UNCHANGED lineVars /\ pc' # "read"
  BY <1>1, <1>2, Zenon DEF Ends
<1>3. ASSUME NEW why, Stops(why) PROVE UNCHANGED lineVars /\ pc' = pc
  BY <1>3 DEF Stops
<1>4. CASE ParseLine
  BY <1>4 DEF ParseLine, NewPrompt
<1>5. CASE CmdNothing
  BY <1>3, <1>5 DEF CmdNothing
<1>6. CASE BuildinCd
  BY <1>2, <1>3, <1>6, Zenon DEF BuildinCd
<1>7. ASSUME NEW name \in {"mkdir", "rmdir", "rm"}, BuildinPath(name)
      PROVE  Ends \/ Stops("cwd")
  BY <1>7, Zenon DEF BuildinPath
<1>8. CASE BuildinPwd
  BY <1>2, <1>3, <1>8, Zenon DEF BuildinPwd
<1>9. CASE BuildinLs
  BY <1>2, <1>3, <1>9 DEF BuildinLs
<1>10. CASE LsOpen
  BY <1>2, <1>3, <1>10, Zenon DEF LsOpen
<1>11. CASE ForkFails
  BY <1>3, <1>11, Zenon DEF ForkFails
<1>12. CASE ChildStat
  BY <1>2, <1>3, <1>12 DEF ChildStat
<1>13. CASE ExecStarts
  BY <1>13 DEF ExecStarts
<1>14. CASE ChildExits
  BY <1>1, <1>14, Zenon DEF ChildExits
<1>15. CASE ExecFails
  BY <1>1, <1>15, Zenon DEF ExecFails
<1>16. ASSUME NEW d, NEW n, NEW type, OthersMake(d, n, type) PROVE UNCHANGED <<lineVars, pc>>
  BY <1>16, Zenon DEF OthersMake
<1>17. ASSUME NEW i, OthersRemove(i) PROVE UNCHANGED <<lineVars, pc>>
  BY <1>17, Zenon DEF OthersRemove
<1>18. CASE \E name \in {"mkdir", "rmdir", "rm"} : BuildinPath(name)
  BY <1>2, <1>3, <1>7, <1>18, Zenon
<1>19. CASE \E d \in 0 .. MaxIno, n \in Names, type \in {"dir", "file", "program"} :
               OthersMake(d, n, type)
  BY <1>16, <1>19, Zenon
<1>20. CASE \E i \in Inodes : OthersRemove(i)
  BY <1>17, <1>20, Zenon
<1> QED
  BY <1>4, <1>5, <1>6, <1>8, <1>9, <1>10, <1>11, <1>12, <1>13, <1>14, <1>15,
     <1>18, <1>19, <1>20, Zenon DEF ShNext

LEMMA LineStep ==
    ASSUME LineInv, [ShNext]_shVars
    PROVE  LineInv'
<1>0. COUNT \in Nat /\ COUNT > 0
  BY ShAssumption
<1>1. CASE UNCHANGED shVars
  BY <1>1 DEF LineInv, shVars, lineVars, Text
<1>2. CASE ShNext /\ ~ \E k \in Keys : Readline(k)
  <2>1. CASE cmd_line' = Blank /\ pos' = 0 /\ shown' = <<>>
    <3>1. Blank \in [0 .. COUNT -> Chars] /\ 0 \in 0 .. COUNT
      BY <1>0 DEF Blank, Chars
    <3>2. (\A i \in 0 .. 0 - 1 : cmd_line'[i] \notin Edits \cup {Nul}) /\ Text' = <<>>
      BY <1>0, <2>1 DEF Text
    <3> QED
      BY <2>1, <3>1, <3>2 DEF LineInv
  <2>2. CASE UNCHANGED lineVars /\ (pc' # "read" \/ pc' = pc)
    BY <2>2 DEF LineInv, lineVars, Text
  <2> QED
    BY <1>2, <2>1, <2>2, LineElsewhere
<1>3. ASSUME NEW k \in Keys, Readline(k) PROVE LineInv'
  <2>0. pos \in 0 .. COUNT /\ pos \in Nat /\ cmd_line \in [0 .. COUNT -> Chars]
    BY <1>0 DEF LineInv
  <2>1. k \in Chars /\ k # Nul
    BY <2>0, KeysType
  <2>2. pc = "read" /\ shown = Text
        /\ \A i \in 0 .. (pos - 1) : cmd_line[i] \notin Edits \cup {Nul}
    BY <1>3 DEF LineInv, Readline
  <2>3. Text \in Seq(Chars) /\ Len(Text) = pos
    BY <1>0, <2>0 DEF Text
  <2>4. CASE pos >= COUNT
    <3>1. cmd_line' = [cmd_line EXCEPT ![pos] = k] /\ pc' = "parse" /\ pos' = pos
      BY <1>0, <1>3, <2>0, <2>4 DEF Readline
    <3> QED
      BY <2>0, <2>1, <3>1 DEF LineInv
  <2>5. CASE pos < COUNT
    <3> DEFINE b == [cmd_line EXCEPT ![pos] = k]
    <3>0. Typed(k)
      BY <1>0, <1>3, <2>5 DEF Readline
    <3>1. /\ b \in [0 .. COUNT -> Chars] /\ b[pos] = k
          /\ \A i \in 0 .. (pos - 1) : b[i] = cmd_line[i]
          /\ \A i \in 0 .. (pos - 1) : b[i] \notin Edits \cup {Nul}
      BY <1>0, <2>0, <2>1, <2>2
    <3>2. Nul \in Chars
      BY DEF Chars
    <3>3. CASE k = Enter
      <4>1. cmd_line' = [b EXCEPT ![pos] = Nul] /\ pc' = "parse" /\ pos' = pos
        BY <3>0, <3>3 DEF Typed, Edits, Enter, Back, CtrlL, CtrlU
      <4> QED
        BY <2>0, <3>1, <3>2, <4>1 DEF LineInv
    <3>4. CASE k = Back
      <4>1. /\ cmd_line' = b /\ pc' = pc
            /\ IF b[0] # Back THEN pos' = pos - 1 /\ shown' = Drop(shown, 1)
               ELSE pos' = pos /\ shown' = shown
        BY <3>0, <3>4 DEF Typed, Edits, Enter, Back, CtrlL, CtrlU
      <4>2. CASE pos = 0
        <5>1. pos' = pos /\ shown' = shown
          BY <3>1, <3>4, <4>1, <4>2
        <5> HIDE DEF b
        <5> QED
          BY <2>0, <2>2, <3>1, <4>1, <4>2, <5>1 DEF LineInv, Text
      <4>3. CASE pos # 0
        <5>1. pos > 0 /\ b[0] # Back
          BY <2>0, <2>2, <3>1, <4>3 DEF Edits
        <5>2. pos' = pos - 1 /\ shown' = SubSeq(Text, 1, pos - 1)
          BY <2>2, <2>3, <4>1, <5>1 DEF Drop
        <5> HIDE DEF b
        <5>3. SubSeq(Text, 1, pos - 1) = [i \in 1 .. (pos - 1) |-> b[i - 1]]
          <6>1. SubSeq(Text, 1, pos - 1) = [i \in 1 .. (pos - 1) |-> Text[i]]
            BY <2>0, <2>3, <5>1
          <6>2. \A i \in 1 .. (pos - 1) : Text[i] = b[i - 1]
            BY <2>0, <3>1, <5>1 DEF Text
          <6> QED
            BY <6>1, <6>2
        <5>4. shown' = Text'
          BY <4>1, <5>2, <5>3 DEF Text
        <5>5. pos' \in 0 .. COUNT /\ \A i \in 0 .. (pos' - 1) : b[i] \notin Edits \cup {Nul}
          BY <1>0, <2>0, <3>1, <5>1, <5>2
        <5>6. cmd_line' \in [0 .. COUNT -> Chars]
          BY <3>1, <4>1
        <5> QED
          BY <4>1, <5>4, <5>5, <5>6 DEF LineInv
      <4> QED
        BY <4>2, <4>3
    <3>5. CASE k = CtrlL
      <4> DEFINE c == [b EXCEPT ![pos] = Nul]
      <4>1. cmd_line' = c /\ pc' = pc /\ pos' = pos /\ shown' = StringIn(c)
        BY <3>0, <3>5 DEF Typed, Redrawn, Edits, Enter, Back, CtrlL, CtrlU
      <4> HIDE DEF b
      <4>2. /\ c \in [0 .. COUNT -> Chars] /\ c[pos] = Nul
            /\ \A i \in 0 .. (pos - 1) : c[i] = cmd_line[i]
        BY <1>0, <2>0, <3>1, <3>2
      <4> HIDE DEF c
      <4>3. StringIn(c) = [i \in 1 .. pos |-> c[i - 1]]
        BY <2>0, <2>2, <4>2, StringAt
      <4> QED
        BY <2>0, <2>2, <4>1, <4>2, <4>3 DEF LineInv, Text
    <3>6. CASE k = CtrlU
      <4>1. /\ cmd_line' = [i \in 0 .. COUNT |-> IF i \in 1 .. pos THEN Nul ELSE b[i]]
            /\ shown' = Drop(shown, pos) /\ pos' = 0 /\ pc' = pc
        BY <3>0, <3>6 DEF Typed, Edits, Enter, Back, CtrlL, CtrlU
      <4>2. shown' = <<>>
        BY <2>0, <2>2, <2>3, <4>1 DEF Drop
      <4>3. cmd_line' \in [0 .. COUNT -> Chars]
        BY <3>1, <3>2, <4>1
      <4> QED
        BY <1>0, <4>1, <4>2, <4>3 DEF LineInv, Text
    <3>7. CASE k \notin Edits
      <4>1. cmd_line' = b /\ pos' = pos + 1 /\ shown' = Append(Text, k) /\ pc' = pc
        BY <2>2, <3>0, <3>7 DEF Typed, Edits, Enter, Back, CtrlL, CtrlU
      <4> HIDE DEF b
      <4>2. Append(Text, k) = [i \in 1 .. (pos + 1) |-> b[i - 1]]
        <5> DEFINE t == Append(Text, k)
                   u == [i \in 1 .. (pos + 1) |-> b[i - 1]]
        <5>1. /\ t \in Seq(Chars) /\ Len(t) = pos + 1 /\ t[pos + 1] = k
              /\ \A i \in 1 .. pos : t[i] = Text[i]
          BY <2>1, <2>3, AppendProperties
        <5>2. u \in Seq(Chars) /\ Len(u) = pos + 1
          BY <1>0, <2>0, <2>5, <3>1
        <5>3. \A i \in 1 .. pos : Text[i] = b[i - 1]
          BY <2>0, <3>1 DEF Text
        <5>4. \A i \in 1 .. (pos + 1) : t[i] = u[i]
          <6> HIDE DEF t
          <6> QED BY <2>0, <3>1, <5>1, <5>3
        <5> HIDE DEF t, u
        <5>5. t = u
          BY <5>1, <5>2, <5>4, SeqEqual
        <5> QED
          BY <5>5 DEF t, u
      <4>3. shown' = Text'
        BY <4>1, <4>2 DEF Text
      <4>4. \A i \in 0 .. pos : b[i] \notin Edits \cup {Nul}
        BY <2>0, <2>1, <3>1, <3>7
      <4>5. pos' \in 0 .. COUNT /\ \A i \in 0 .. (pos' - 1) : b[i] \notin Edits \cup {Nul}
        BY <1>0, <2>0, <2>5, <4>1, <4>4
      <4>6. cmd_line' \in [0 .. COUNT -> Chars]
        BY <3>1, <4>1
      <4> QED
        BY <4>1, <4>3, <4>5, <4>6 DEF LineInv
    <3> QED
      BY <3>3, <3>4, <3>5, <3>6, <3>7 DEF Edits
  <2> QED
    BY <1>0, <2>0, <2>4, <2>5
<1> QED
  BY <1>1, <1>2, <1>3

(* The screen shows what readline has in front of pos, for lines of any    *)
(* keys and a buffer of any length.                                        *)
THEOREM LineShownHolds == ShSpec => []LineShown
<1>1. ShInit => LineInv
  BY ShAssumption DEF ShInit, LineInv, Blank, Text, Chars
<1>2. LineInv => LineShown
  BY DEF LineInv, LineShown
<1> QED
  BY <1>1, <1>2, LineStep, PTL DEF ShSpec

----------------------------------------------------------------------------
(* The descriptors and the pipes.                                          *)

TreeInv == DOMAIN tree = Inodes /\ cwd \in 0 .. MaxIno /\ trusted \in BOOLEAN

Pcs == {"read", "parse", "run", "ls", "exec", "wait"}
Running == pc \notin {"read", "parse"}

(* todo is a sequence, whatever it holds.                                  *)
Commands == todo = [i \in 1 .. Len(todo) |-> todo[i]] /\ Len(todo) \in Nat \ {0}

FdTypes ==
    /\ pc \in Pcs
    /\ fd \in [0 .. (MaxFd - 1) -> {None} \cup (0 .. (Slots + 2))]
    /\ pipe \in 0 .. Slots /\ waiting \in Seq(0 .. Slots)
    /\ opens \in [1 .. Slots -> Nat]

(* The ends of the pipe are two descriptors, and where input and output go *)
(* tells how many commands are left.                                       *)
PipeFds ==
    /\ \E i, j \in 3 .. (MaxFd - 1) : i # j /\ fd[i] = pipe + 2 /\ fd[j] = pipe + 2
    /\ Len(todo) = 1 <=> fd[1] = 1
    /\ (fd[0] = 0) => Len(todo) > 1

OpensExact ==
    \A s \in 1 .. Slots :
        opens[s] = 2 * Holders(s) + (IF s = pipe THEN 2 + ChildOpens ELSE 0)

FdInv ==
    /\ FdTypes
    /\ pipe = 0 => fd = Std
    /\ pipe # 0 => PipeFds
    /\ OpensExact
    /\ ~Running => pipe = 0
    /\ Running => Commands

DescInv == TreeInv /\ LineInv /\ FdInv

LEMMA DescExact == DescInv => DescriptorsExact
<1> SUFFICES ASSUME DescInv PROVE DescriptorsExact
  OBVIOUS
<1>1. ShTypeOK
  BY DEF DescInv, TreeInv, LineInv, FdInv, FdTypes, Pcs, ShTypeOK
<1> QED
  BY <1>1 DEF DescInv, FdInv, PipeFds, OpensExact, DescriptorsExact

LEMMA HoldersNat ==
    ASSUME waiting \in Seq(0 .. Slots), NEW s
    PROVE  Holders(s) \in Nat
<1> DEFINE H == {i \in 1 .. Len(waiting) : waiting[i] = s}
<1>1. IsFiniteSet(1 .. Len(waiting))
  BY FS_Interval
<1>2. IsFiniteSet(H)
  BY <1>1, FS_Subset
<1> QED
  BY <1>2, FS_CardinalityType DEF Holders

(* The tail of a sequence of commands.                                     *)
LEMMA TailCommands ==
    ASSUME Commands, Len(todo) > 1, todo' = Tail(todo)
    PROVE  Commands' /\ Len(todo') = Len(todo) - 1
<1> DEFINE X == {todo[i] : i \in 1 .. Len(todo)}
<1>1. todo \in Seq(X)
  <2>1. Len(todo) \in Nat /\ todo = [i \in 1 .. Len(todo) |-> todo[i]]
    BY DEF Commands
  <2> DEFINE n == Len(todo)
  <2>2. n \in Nat /\ [i \in 1 .. n |-> todo[i]] \in Seq(X)
    <3>1. n \in Nat /\ \A i \in 1 .. n : todo[i] \in X
      BY <2>1
    <3> HIDE DEF n, X
    <3> QED
      BY <3>1
  <2> QED
    BY <2>1, <2>2
<1> HIDE DEF X
<1>2. Tail(todo) \in Seq(X) /\ Len(Tail(todo)) = Len(todo) - 1
  BY <1>1
<1>3. Tail(todo) \in [1 .. Len(Tail(todo)) -> X] /\ Len(Tail(todo)) \in Nat
  BY <1>2, LenProperties
<1> DEFINE t == Tail(todo)
<1>4. t = [i \in 1 .. Len(t) |-> t[i]] /\ Len(t) \in Nat \ {0} /\ Len(t) = Len(todo) - 1
  <2>1. Len(todo) \in Nat
    BY DEF Commands
  <2> HIDE DEF t
  <2>2. t \in [1 .. Len(t) -> X] /\ Len(t) \in Nat /\ Len(t) = Len(todo) - 1
    BY <1>2, <1>3 DEF t
  <2> QED
    BY <2>1, <2>2
<1> HIDE DEF t
<1>5. todo' = t
  BY DEF t
<1> QED
  BY <1>4, <1>5 DEF Commands

(* The commands of a line with a bar are at least two.                     *)
LEMMA CutAtLen ==
    ASSUME NEW s \in Seq(Chars), NEW token
    PROVE  LET c == CutAt(s, token)
           IN  /\ c = [i \in 1 .. Len(c) |-> c[i]] /\ Len(c) \in Nat
               /\ (\E i \in 1 .. Len(s) : s[i] = token) => Len(c) >= 2
<1> DEFINE ends == {0, Len(s) + 1} \cup {i \in 1 .. Len(s) : s[i] = token}
           n == Cardinality(ends) - 1
           c == CutAt(s, token)
<1>1. Len(s) \in Nat
  OBVIOUS
<1>2. ends \subseteq 0 .. (Len(s) + 1) /\ IsFiniteSet(0 .. (Len(s) + 1))
  <2>1. \A i \in ends : i \in 0 .. (Len(s) + 1)
    BY <1>1
  <2>2. 0 \in Int /\ Len(s) + 1 \in Int
    BY <1>1
  <2> HIDE DEF ends
  <2> QED
    BY <2>1, <2>2, FS_Interval
<1>3. IsFiniteSet(ends)
  BY <1>2, FS_Subset
<1>4. Cardinality(ends) \in Nat
  BY <1>3, FS_CardinalityType
<1>5. /\ {0, Len(s) + 1} \subseteq ends
      /\ IsFiniteSet({0, Len(s) + 1}) /\ Cardinality({0, Len(s) + 1}) = 2
  <2>1. IsFiniteSet({0}) /\ Cardinality({0}) = 1
    BY FS_Singleton
  <2>2. Len(s) + 1 \notin {0} /\ {0, Len(s) + 1} = {0} \cup {Len(s) + 1}
    BY <1>1
  <2>3. /\ IsFiniteSet({0} \cup {Len(s) + 1})
        /\ Cardinality({0} \cup {Len(s) + 1}) = Cardinality({0}) + 1
    BY <2>1, <2>2, FS_AddElement
  <2>4. {0, Len(s) + 1} \subseteq ends
    OBVIOUS
  <2>5. Cardinality({0, Len(s) + 1}) = 1 + 1
    BY <2>1, <2>2, <2>3, Zenon
  <2>6. IsFiniteSet({0, Len(s) + 1})
    BY <2>2, <2>3, Zenon
  <2>7. 1 + 1 = 2
    OBVIOUS
  <2> HIDE DEF ends
  <2> QED
    BY <2>4, <2>5, <2>6, <2>7, Zenon
<1>6. Cardinality(ends) >= 2
  <2>1. Cardinality({0, Len(s) + 1}) <= Cardinality(ends)
    BY <1>3, <1>5, FS_Subset
  <2> QED
    BY <1>4, <1>5, <2>1
<1>7. n \in Nat /\ DOMAIN c = 1 .. n /\ c = [i \in 1 .. n |-> c[i]]
  <2> DEFINE end(k) == CHOOSE e \in ends : Cardinality({j \in ends : j < e}) = k
  <2>1. c = [k \in 1 .. n |-> SubSeq(s, end(k - 1) + 1, end(k) - 1)]
    BY Zenon DEF CutAt
  <2>2. n \in Nat
    <3> HIDE DEF ends
    <3> QED BY <1>4, <1>6
  <2> HIDE DEF n, c, end
  <2> QED
    BY <2>1, <2>2
<1>8. Len(c) = n
  <2> HIDE DEF c, n
  <2> QED
    BY <1>7
<1>9. ASSUME NEW i \in 1 .. Len(s), s[i] = token PROVE Len(c) >= 2
  <2>1. {0, Len(s) + 1} \cup {i} \subseteq ends /\ i \notin {0, Len(s) + 1}
    BY <1>1, <1>9
  <2>2. IsFiniteSet({0, Len(s) + 1})
    BY <1>5
  <2>3. Cardinality({0, Len(s) + 1} \cup {i}) = 3
    <3> DEFINE D == {0, Len(s) + 1}
    <3>1. IsFiniteSet(D) /\ Cardinality(D) = 2 /\ i \notin D
      BY <1>5, <2>1
    <3> HIDE DEF D
    <3>2. Cardinality(D \cup {i}) = Cardinality(D) + 1
      BY <3>1, FS_AddElement
    <3>3. Cardinality(D \cup {i}) = 3
      BY <3>1, <3>2
    <3> QED
      BY <3>3 DEF D
  <2>4. Cardinality({0, Len(s) + 1} \cup {i}) <= Cardinality(ends)
    BY <1>3, <2>1, FS_Subset
  <2>5. Cardinality(ends) >= 3
    <3> HIDE DEF ends
    <3> QED BY <1>4, <2>3, <2>4
  <2>6. n = Cardinality(ends) - 1
    BY DEF n
  <2> HIDE DEF ends, n, c
  <2> QED
    BY <1>4, <1>8, <2>5, <2>6
<1> HIDE DEF c, n, ends
<1>10. c = [i \in 1 .. Len(c) |-> c[i]] /\ Len(c) \in Nat
  BY <1>7, <1>8
<1> QED
  BY <1>9, <1>10 DEF c

LEMMA TreeStep ==
    ASSUME TreeInv, ShNext
    PROVE  TreeInv'
<1>0. MaxIno \in Nat
  BY ShAssumption
<1>1. ASSUME UNCHANGED fsVars PROVE TreeInv'
  BY <1>1 DEF fsVars, TreeInv
<1>2. ASSUME UNCHANGED <<tree, cwd>>, trusted' \in BOOLEAN PROVE TreeInv'
  BY <1>2 DEF TreeInv
<1>3. ASSUME NEW why, Stops(why) PROVE TreeInv'
  BY <1>1, <1>3 DEF Stops
<1>4. ASSUME NEW path, NEW type, MakeNode(path, type) PROVE DOMAIN tree' = Inodes
  BY <1>4 DEF MakeNode, TreeInv
<1>5. ASSUME NEW i, RemoveNode(i) PROVE DOMAIN tree' = Inodes /\ trusted' \in BOOLEAN
  <2>1. DOMAIN tree' = Inodes
    BY <1>5 DEF RemoveNode, TreeInv
  <2>2. trusted' \in BOOLEAN
    BY <1>5, Zenon DEF RemoveNode
  <2> QED
    BY <2>1, <2>2
<1>6. CASE \E k \in Keys : Readline(k)
  <2>1. UNCHANGED <<tree, cwd>>
    BY <1>6 DEF Readline
  <2>2. trusted' \in BOOLEAN
    BY <1>6, Zenon DEF Readline, TreeInv
  <2> QED
    BY <1>2, <2>1, <2>2
<1>7. CASE ParseLine \/ ExecStarts \/ ChildExits \/ ExecFails
  BY <1>1, <1>7, Zenon DEF ParseLine, ExecStarts, ChildExits, ExecFails
<1>8. CASE CmdNothing \/ ForkFails
  BY <1>3, <1>8, Zenon DEF CmdNothing, ForkFails
<1>9. CASE BuildinPwd \/ BuildinLs \/ LsOpen \/ ChildStat
  BY <1>1, <1>3, <1>9, Zenon DEF BuildinPwd, BuildinLs, LsOpen, ChildStat
<1>10. CASE BuildinCd
  <2>1. ASSUME NEW path, Chdir(path) PROVE cwd' \in 0 .. MaxIno /\ trusted' \in BOOLEAN
    <3>1. cwd' \in 0 .. MaxIno
      BY <1>0, <2>1 DEF Chdir, IsDir, Inodes, TreeInv
    <3>2. trusted' \in BOOLEAN
      BY <2>1, Zenon DEF Chdir, TreeInv
    <3> QED
      BY <3>1, <3>2
  <2>2. \/ Stops("cwd") \/ UNCHANGED fsVars
        \/ UNCHANGED tree /\ \E path : Chdir(path)
    BY <1>10, Zenon DEF BuildinCd
  <2>3. CASE UNCHANGED tree /\ \E path : Chdir(path)
    BY <2>1, <2>3 DEF TreeInv
  <2> QED
    BY <1>1, <1>3, <2>2, <2>3
<1>11. CASE \E name \in {"mkdir", "rmdir", "rm"} : BuildinPath(name)
  <2>1. PICK name : BuildinPath(name)
    BY <1>11
  <2>2. CASE OnPath(name) /\ UNCHANGED <<cwd, cache>>
    <3>1. \/ (\E path : MakeNode(path, "dir")) /\ trusted' = trusted
          \/ \E i : RemoveNode(i)
          \/ UNCHANGED <<tree, trusted>>
      BY <2>2, Zenon DEF OnPath
    <3>2. DOMAIN tree' = Inodes
      BY <1>4, <1>5, <3>1 DEF TreeInv
    <3>3. trusted' \in BOOLEAN
      BY <1>5, <3>1, Zenon DEF TreeInv
    <3> QED
      BY <2>2, <3>2, <3>3 DEF TreeInv
  <2> QED
    BY <1>1, <1>3, <2>1, <2>2, Zenon DEF BuildinPath
<1>12. CASE \E d \in 0 .. MaxIno, n \in Names, type \in {"dir", "file", "program"} :
               OthersMake(d, n, type)
  <2>1. /\ UNCHANGED <<cwd, trusted>>
        /\ \E path, type : MakeNode(path, type)
    BY <1>12, Zenon DEF OthersMake
  <2> QED
    BY <1>4, <2>1 DEF TreeInv
<1>13. CASE \E i \in Inodes : OthersRemove(i)
  <2>1. cwd' = cwd /\ \E i : RemoveNode(i)
    BY <1>13, Zenon DEF OthersRemove
  <2> QED
    BY <1>5, <2>1 DEF TreeInv
<1> QED
  BY <1>6, <1>7, <1>8, <1>9, <1>10, <1>11, <1>12, <1>13, Zenon DEF ShNext

(* The descriptors after a command, when the pipe is open as often as the  *)
(* shells that are left account for.                                       *)
LEMMA FinishStep ==
    ASSUME FdInv, Running, NEW open, Finish(open), waiting' \in Seq(0 .. Slots),
           NEW p, p = pipe, p # 0 => open = 2 * Holders(p)' + 2,
           p # 0 => Holders(p)' \in Nat,
           \A s \in 1 .. Slots : s # pipe => Holders(s)' = Holders(s)
    PROVE  FdInv'
<1>0. Slots \in Nat /\ MaxFd \in Nat /\ MaxFd >= 5 /\ FdTypes
  BY ShAssumption DEF FdInv
<1>1. CASE pipe = 0 /\ NewPrompt /\ UNCHANGED <<fd, pipe, opens>>
  <2>1. FdTypes'
    BY <1>0, <1>1 DEF FdTypes, NewPrompt, Pcs
  <2>2. OpensExact'
    <3>1. ASSUME NEW s \in 1 .. Slots PROVE opens'[s] = 2 * Holders(s)' /\ s # pipe'
      <4>1. s # pipe /\ Holders(s)' = Holders(s) /\ opens'[s] = opens[s] /\ pipe' = pipe
        BY <1>1
      <4>2. opens[s] = 2 * Holders(s) + 0
        BY <4>1 DEF FdInv, OpensExact
      <4>3. Holders(s) \in Nat
        BY <1>0, HoldersNat DEF FdTypes
      <4> QED
        BY <4>1, <4>2, <4>3
    <3> HIDE DEF Holders
    <3>2. ASSUME NEW s \in 1 .. Slots PROVE Holders(s)' \in Nat
      <4>1. Holders(s)' = Holders(s) /\ Holders(s) \in Nat
        BY <1>0, <1>1, HoldersNat DEF FdTypes
      <4> QED
        BY <4>1
    <3> QED
      BY <3>1, <3>2 DEF OpensExact
  <2> QED
    BY <1>1, <2>1, <2>2 DEF FdInv, NewPrompt, Running
<1>2. CASE /\ pipe # 0 /\ Len(todo) > 1
           /\ fd' = Redirected /\ opens' = [opens EXCEPT ![pipe] = open]
           /\ todo' = Tail(todo) /\ pc' = "run" /\ pipe' = pipe
  <2>0. pipe \in 1 .. Slots /\ Len(todo) \in Nat
    BY <1>0, <1>2 DEF FdInv, FdTypes, Commands
  <2>1. Commands' /\ Len(todo') = Len(todo) - 1
    BY <1>2, TailCommands DEF FdInv
  <2>2. fd' = [fd EXCEPT ![0] = pipe + 2, ![1] = IF Len(todo) = 2 THEN 1 ELSE @]
    <3>1. ASSUME NEW n \in Nat, n > 1 PROVE n # 1
      BY <3>1
    <3>2. Len(todo) # 1
      BY <1>2, <2>0, <3>1
    <3> QED
      BY <1>2, <3>2 DEF Redirected
  <2>3. FdTypes'
    <3>1. fd' \in [0 .. (MaxFd - 1) -> {None} \cup (0 .. (Slots + 2))]
      <4>1. /\ fd \in [0 .. (MaxFd - 1) -> {None} \cup (0 .. (Slots + 2))]
            /\ pipe + 2 \in 0 .. (Slots + 2) /\ 1 \in 0 .. (Slots + 2)
        BY <1>0, <2>0 DEF FdTypes
      <4>2. CASE Len(todo) = 2
        BY <2>2, <4>1, <4>2
      <4>3. CASE Len(todo) # 2
        BY <2>2, <4>1, <4>3
      <4> QED
        BY <4>2, <4>3
    <3>2. opens' \in [1 .. Slots -> Nat]
      BY <1>0, <1>2, <2>0 DEF FdTypes
    <3> QED
      BY <1>0, <1>2, <3>1, <3>2 DEF FdTypes, Pcs
  <2>4. PipeFds'
    <3>1. /\ \A i \in 3 .. (MaxFd - 1) : fd'[i] = fd[i]
          /\ fd'[0] = pipe + 2 /\ fd'[1] = IF Len(todo) = 2 THEN 1 ELSE fd[1]
      BY <1>0, <2>2 DEF FdTypes
    <3>2. \E i, j \in 3 .. (MaxFd - 1) : i # j /\ fd'[i] = pipe' + 2 /\ fd'[j] = pipe' + 2
      BY <1>2, <3>1 DEF FdInv, PipeFds
    <3>3. Len(todo') = 1 <=> fd'[1] = 1
      <4>1. ASSUME NEW n \in Nat, n > 1 PROVE n # 1 /\ (n - 1 = 1 <=> n = 2)
        BY <4>1
      <4>2. Len(todo) # 1 /\ (Len(todo') = 1 <=> Len(todo) = 2)
        BY <1>2, <2>0, <2>1, <4>1, Zenon
      <4>3. fd[1] # 1
        BY <1>2, <4>2, Zenon DEF FdInv, PipeFds
      <4> QED
        BY <3>1, <4>2, <4>3, Zenon
    <3>4. fd'[0] # 0
      BY <2>0, <3>1
    <3> QED
      BY <3>2, <3>3, <3>4 DEF PipeFds
  <2>5. OpensExact'
    <3>1. ASSUME NEW s \in 1 .. Slots
          PROVE  opens'[s] = 2 * Holders(s)' + (IF s = pipe' THEN 2 + ChildOpens' ELSE 0)
      <4>1. ChildOpens' = 0 /\ pipe' = pipe
        BY <1>2 DEF ChildOpens
      <4>2. CASE s = pipe
        BY <1>0, <1>2, <2>0, <4>1, <4>2 DEF FdTypes
      <4>3. CASE s # pipe
        <5>1. opens'[s] = opens[s] /\ Holders(s)' = Holders(s)
          BY <1>0, <1>2, <2>0, <4>3 DEF FdTypes
        <5> QED
          BY <4>1, <4>3, <5>1 DEF FdInv, OpensExact
      <4> QED
        BY <4>2, <4>3
    <3> QED
      BY <3>1 DEF OpensExact
  <2> QED
    BY <1>2, <2>1, <2>3, <2>4, <2>5 DEF FdInv, Running
<1>3. CASE /\ pipe # 0 /\ Len(todo) = 1 /\ NewPrompt
           /\ fd' = Redirected /\ opens' = [opens EXCEPT ![pipe] = open - 2] /\ pipe' = 0
  <2>0. pipe \in 1 .. Slots
    BY <1>0, <1>3 DEF FdTypes
  <2>1. fd' = Std
    BY <1>3 DEF Redirected
  <2>2. FdTypes'
    <3>1. fd' \in [0 .. (MaxFd - 1) -> {None} \cup (0 .. (Slots + 2))]
      BY <1>0, <2>1 DEF Std
    <3>2. opens' \in [1 .. Slots -> Nat]
      BY <1>0, <1>3, <2>0 DEF FdTypes
    <3> QED
      BY <1>0, <1>3, <3>1, <3>2 DEF FdTypes, Pcs, NewPrompt
  <2>3. OpensExact'
    <3>1. ASSUME NEW s \in 1 .. Slots
          PROVE  opens'[s] = 2 * Holders(s)' + (IF s = pipe' THEN 2 + ChildOpens' ELSE 0)
      <4>1. pipe' # s
        BY <1>3
      <4>2. CASE s = pipe
        <5>1. opens'[s] = open - 2
          BY <1>0, <1>3, <2>0, <4>2 DEF FdTypes
        <5>2. open = 2 * Holders(s)' + 2 /\ Holders(s)' \in Nat
          BY <1>3, <4>2
        <5> QED
          BY <4>1, <5>1, <5>2
      <4>3. CASE s # pipe
        <5>1. opens'[s] = opens[s] /\ Holders(s)' = Holders(s)
          BY <1>0, <1>3, <2>0, <4>3 DEF FdTypes
        <5> QED
          BY <4>1, <4>3, <5>1 DEF FdInv, OpensExact
      <4> QED
        BY <4>2, <4>3
    <3> QED
      BY <3>1 DEF OpensExact
  <2> QED
    BY <1>3, <2>1, <2>2, <2>3 DEF FdInv, NewPrompt, Running, Std
<1> QED
  BY <1>1, <1>2, <1>3 DEF Finish

(* The steps that leave descriptors, pipes and commands alone.             *)
LEMMA FdSame ==
    ASSUME FdInv, UNCHANGED <<fd, pipe, opens, waiting, todo>>, pc' \in Pcs,
           ChildOpens' = ChildOpens \/ pipe = 0, Running' <=> Running
    PROVE  FdInv'
<1>1. FdTypes'
  BY DEF FdInv, FdTypes
<1>2. \A s : Holders(s)' = Holders(s)
  BY DEF Holders
<1>3. OpensExact'
  <2>1. CASE ChildOpens' = ChildOpens
    BY <1>2, <2>1 DEF FdInv, OpensExact
  <2>2. CASE pipe = 0
    BY <1>2, <2>2 DEF FdInv, OpensExact
  <2> QED
    BY <2>1, <2>2
<1>4. Commands' <=> Commands
  BY DEF Commands
<1>5. PipeFds' <=> PipeFds
  BY DEF PipeFds
<1> QED
  BY <1>1, <1>3, <1>4, <1>5 DEF FdInv, Std

(* The end of a command that left the pipe alone.                          *)
LEMMA EndsStep ==
    ASSUME FdInv, Running, pc \notin {"exec", "wait"}, Ends
    PROVE  FdInv'
<1>1. Finish(Opens) /\ waiting' = waiting /\ FdTypes
  BY DEF Ends, FdInv
<1>2. \A s : Holders(s)' = Holders(s)
  BY <1>1 DEF Holders
<1>3. ASSUME NEW p, p = pipe, p # 0
      PROVE  Opens = 2 * Holders(p)' + 2 /\ Holders(p)' \in Nat
  <2>1. p \in 1 .. Slots
    BY <1>1, <1>3 DEF FdTypes
  <2>2. Opens = opens[p] /\ ChildOpens = 0
    BY <1>3 DEF Opens, ChildOpens
  <2>3. Holders(p) \in Nat
    BY <1>1, HoldersNat DEF FdTypes
  <2>4. opens[p] = 2 * Holders(p) + (2 + ChildOpens)
    BY <1>3, <2>1 DEF FdInv, OpensExact
  <2> QED
    BY <1>2, <2>2, <2>3, <2>4
<1>4. waiting' \in Seq(0 .. Slots)
  BY <1>1 DEF FdTypes
<1> QED
  BY <1>1, <1>2, <1>3, <1>4, FinishStep

LEMMA ChildExitsStep ==
    ASSUME FdInv, ChildExits
    PROVE  FdInv'
<1>1. Finish(Opens - 2) /\ waiting' = waiting /\ FdTypes /\ pc = "wait" /\ Running
  BY DEF ChildExits, FdInv, Running
<1>2. \A s : Holders(s)' = Holders(s)
  BY <1>1 DEF Holders
<1>3. ASSUME NEW p, p = pipe, p # 0
      PROVE  Opens - 2 = 2 * Holders(p)' + 2 /\ Holders(p)' \in Nat
  <2>1. p \in 1 .. Slots
    BY <1>1, <1>3 DEF FdTypes
  <2>2. Opens = opens[p] /\ ChildOpens = 2
    BY <1>1, <1>3 DEF Opens, ChildOpens
  <2>3. Holders(p) \in Nat
    BY <1>1, HoldersNat DEF FdTypes
  <2>4. opens[p] = 2 * Holders(p) + (2 + ChildOpens)
    BY <1>3, <2>1 DEF FdInv, OpensExact
  <2> QED
    BY <1>2, <2>2, <2>3, <2>4
<1>4. waiting' \in Seq(0 .. Slots)
  BY <1>1 DEF FdTypes
<1> QED
  BY <1>1, <1>2, <1>3, <1>4, FinishStep

(* A child that becomes the shell leaves its parent waiting, with the pipe *)
(* open in both.                                                           *)
LEMMA ExecFailsStep ==
    ASSUME FdInv, ExecFails
    PROVE  FdInv'
<1>1. /\ Finish(Opens) /\ waiting' = Append(waiting, pipe) /\ pc = "exec"
      /\ FdTypes /\ Running
  BY DEF ExecFails, FdInv, Running
<1> DEFINE H(s) == {i \in 1 .. Len(waiting) : waiting[i] = s}
           n == Len(waiting)
<1>2. /\ waiting \in Seq(0 .. Slots) /\ pipe \in 0 .. Slots /\ n \in Nat
      /\ waiting' \in Seq(0 .. Slots) /\ Len(waiting') = n + 1
      /\ waiting'[n + 1] = pipe /\ \A i \in 1 .. n : waiting'[i] = waiting[i]
  <2>1. waiting \in Seq(0 .. Slots) /\ pipe \in 0 .. Slots
    BY <1>1 DEF FdTypes
  <2> QED
    BY <1>1, <2>1, AppendProperties
<1>3. \A s : IsFiniteSet(H(s)) /\ Cardinality(H(s)) \in Nat
  <2>1. IsFiniteSet(1 .. n)
    BY <1>2, FS_Interval
  <2> QED
    BY <2>1, FS_Subset, FS_CardinalityType
<1>4. ASSUME NEW s, s # pipe PROVE Holders(s)' = Holders(s)
  <2>1. {i \in 1 .. Len(waiting') : waiting'[i] = s} = H(s)
    BY <1>2, <1>4
  <2> QED
    BY <2>1 DEF Holders
<1>5. ASSUME NEW p, p = pipe PROVE Holders(p)' = Holders(p) + 1 /\ Holders(p) \in Nat
  <2>1. {i \in 1 .. Len(waiting') : waiting'[i] = p} = H(p) \cup {n + 1}
    BY <1>2, <1>5
  <2>2. n + 1 \notin H(p)
    BY <1>2
  <2>3. Holders(p) = Cardinality(H(p)) /\ Holders(p)' = Cardinality(H(p) \cup {n + 1})
    BY <2>1 DEF Holders
  <2> HIDE DEF H
  <2>4. Cardinality(H(p) \cup {n + 1}) = Cardinality(H(p)) + 1
    BY <1>3, <2>2, FS_AddElement
  <2> QED
    BY <1>3, <2>3, <2>4
<1> HIDE DEF H
<1>6. ASSUME NEW p, p = pipe, p # 0
      PROVE  Opens = 2 * Holders(p)' + 2 /\ Holders(p)' \in Nat
  <2>1. p \in 1 .. Slots
    BY <1>2, <1>6
  <2>2. Opens = opens[p] /\ ChildOpens = 2
    BY <1>1, <1>6 DEF Opens, ChildOpens
  <2>3. opens[p] = 2 * Holders(p) + (2 + ChildOpens)
    BY <1>6, <2>1 DEF FdInv, OpensExact
  <2> QED
    BY <1>5, <1>6, <2>2, <2>3
<1>7. \A s \in 1 .. Slots : s # pipe => Holders(s)' = Holders(s)
  BY <1>4
<1> QED
  BY <1>1, <1>2, <1>6, <1>7, FinishStep

LEMMA ChildStatStep ==
    ASSUME FdInv, ChildStat
    PROVE  FdInv'
<1>1. pc = "run" /\ Running /\ FdTypes
  BY DEF ChildStat, External, Running, FdInv
<1>2. CASE Stops("cwd")
  BY <1>1, <1>2, FdSame DEF Stops, fdVars, ChildOpens, Running, FdTypes
<1>3. CASE Ends
  BY <1>1, <1>3, EndsStep
<1>4. CASE /\ pc' = "exec" /\ UNCHANGED <<fd, pipe, waiting, todo>>
           /\ opens' = IF pipe = 0 THEN opens ELSE [opens EXCEPT ![pipe] = @ + 2]
  <2>1. CASE pipe = 0
    BY <1>1, <1>4, <2>1, FdSame DEF Running, Pcs
  <2>2. CASE pipe # 0
    <3>1. pipe \in 1 .. Slots /\ opens' = [opens EXCEPT ![pipe] = @ + 2]
      BY <1>1, <1>4, <2>2 DEF FdTypes
    <3>2. FdTypes'
      BY <1>1, <1>4, <3>1 DEF FdTypes, Pcs
    <3>3. \A s : Holders(s)' = Holders(s)
      BY <1>4 DEF Holders
    <3>4. ChildOpens = 0 /\ ChildOpens' = 2
      BY <1>1, <1>4 DEF ChildOpens
    <3>5. ASSUME NEW s \in 1 .. Slots
          PROVE  opens'[s] = 2 * Holders(s)' + (IF s = pipe' THEN 2 + ChildOpens' ELSE 0)
      <4>1. opens[s] = 2 * Holders(s) + (IF s = pipe THEN 2 + ChildOpens ELSE 0)
        BY DEF FdInv, OpensExact
      <4>2. Holders(s) \in Nat
        BY <1>1, HoldersNat DEF FdTypes
      <4>3. opens'[s] = IF s = pipe THEN opens[s] + 2 ELSE opens[s]
        BY <1>1, <3>1 DEF FdTypes
      <4> QED
        BY <1>4, <3>3, <3>4, <4>1, <4>2, <4>3
    <3>6. OpensExact'
      BY <3>5 DEF OpensExact
    <3>7. (Commands' <=> Commands) /\ (PipeFds' <=> PipeFds) /\ Running'
      BY <1>4 DEF Commands, PipeFds, Running
    <3> QED
      BY <1>1, <1>4, <2>2, <3>2, <3>6, <3>7 DEF FdInv
  <2> QED
    BY <2>1, <2>2
<1> QED
  BY <1>2, <1>3, <1>4 DEF ChildStat

LEMMA ParseLineStep ==
    ASSUME FdInv, LineInv, ParseLine
    PROVE  FdInv'
<1>0. /\ Slots \in Nat /\ MaxFd \in Nat /\ MaxFd >= 5
      /\ pc = "parse" /\ ~Running /\ FdTypes /\ pipe = 0 /\ fd = Std
  BY ShAssumption DEF ParseLine, Running, FdInv
<1> DEFINE str == StringIn(cmd_line)
           free == {i \in 1 .. Slots : opens[i] = 0}
           slot == CHOOSE i \in free : \A j \in free : i <= j
           f1 == [fd EXCEPT ![GetSlot(fd)] = slot + 2]
           f2 == [f1 EXCEPT ![GetSlot(f1)] = slot + 2]
<1>1. CASE NewPrompt /\ UNCHANGED fdVars
  <2>1. FdTypes'
    BY <1>0, <1>1 DEF FdTypes, Pcs, NewPrompt, fdVars
  <2>2. \A s : Holders(s)' = Holders(s)
    BY <1>1 DEF Holders, fdVars
  <2>3. OpensExact'
    BY <1>0, <1>1, <2>2 DEF FdInv, OpensExact, fdVars
  <2> QED
    BY <1>0, <1>1, <2>1, <2>3 DEF FdInv, NewPrompt, Running, fdVars, Std
<1>2. CASE todo' = <<str>> /\ pc' = "run" /\ UNCHANGED fdVars
  <2>1. FdTypes'
    BY <1>0, <1>2 DEF FdTypes, Pcs, fdVars
  <2>2. \A s : Holders(s)' = Holders(s)
    BY <1>2 DEF Holders, fdVars
  <2>3. OpensExact'
    BY <1>0, <1>2, <2>2 DEF FdInv, OpensExact, fdVars
  <2>4. Commands'
    <3> HIDE DEF str
    <3> QED
      BY <1>2 DEF Commands
  <2> QED
    BY <1>0, <1>2, <2>1, <2>3, <2>4 DEF FdInv, Running, fdVars, Std
<1>3. CASE /\ "|" \in Range(str) /\ free # {}
           /\ todo' = CutAt(str, "|") /\ pc' = "run" /\ pipe' = slot
           /\ opens' = [opens EXCEPT ![slot] = 2]
           /\ fd' = [f2 EXCEPT ![1] = slot + 2] /\ waiting' = waiting
  <2>1. slot \in 1 .. Slots /\ opens[slot] = 0
    <3>1. \E i \in free : \A j \in free : i <= j
      <4>1. free \in SUBSET Nat
        BY <1>0
      <4> HIDE DEF free
      <4> QED
        BY <4>1, <1>3, LeastNat
    <3>2. slot \in free
      BY <3>1
    <3> QED
      BY <3>2
  <2> HIDE DEF slot
  <2>2. GetSlot(fd) = 3
    <3>1. 3 \in 3 .. (MaxFd - 1) /\ fd[3] = None /\ \A j \in 3 .. (3 - 1) : fd[j] # None
      BY <1>0 DEF Std, None
    <3>2. ASSUME NEW i \in 3 .. (MaxFd - 1), fd[i] = None, \A j \in 3 .. (i - 1) : fd[j] # None
          PROVE  i = 3
      <4>1. i \in Int /\ ~(3 \in 3 .. (i - 1))
        BY <3>1, <3>2
      <4> QED
        BY <4>1, <3>2
    <3> QED
      BY <3>1, <3>2 DEF GetSlot
  <2>3. /\ f1 \in [0 .. (MaxFd - 1) -> {None} \cup (0 .. (Slots + 2))]
        /\ f1[3] = slot + 2 /\ \A i \in 0 .. (MaxFd - 1) : i # 3 => f1[i] = Std[i]
    BY <1>0, <2>1, <2>2 DEF FdTypes
  <2> HIDE DEF f1
  <2>4. GetSlot(f1) = 4
    <3>1. 4 \in 3 .. (MaxFd - 1) /\ f1[4] = None /\ f1[3] # None
      BY <1>0, <2>1, <2>3 DEF Std, None
    <3>2. \A j \in 3 .. (4 - 1) : f1[j] # None
      BY <3>1
    <3>3. ASSUME NEW i \in 3 .. (MaxFd - 1), f1[i] = None, \A j \in 3 .. (i - 1) : f1[j] # None
          PROVE  i = 4
      <4>1. i \in Int /\ ~(4 \in 3 .. (i - 1)) /\ i # 3
        BY <3>1, <3>3
      <4> QED
        BY <4>1, <3>3
    <3> QED
      BY <3>1, <3>2, <3>3 DEF GetSlot
  <2>5. /\ fd' \in [0 .. (MaxFd - 1) -> {None} \cup (0 .. (Slots + 2))]
        /\ fd'[3] = slot + 2 /\ fd'[4] = slot + 2 /\ fd'[1] = slot + 2
    BY <1>0, <1>3, <2>1, <2>3, <2>4
  <2>6. FdTypes'
    <3>1. opens' \in [1 .. Slots -> Nat]
      BY <1>0, <1>3, <2>1 DEF FdTypes
    <3>2. pc' \in Pcs /\ pipe' \in 0 .. Slots /\ waiting' \in Seq(0 .. Slots)
      BY <1>0, <1>3, <2>1 DEF FdTypes, Pcs
    <3> QED
      BY <2>5, <3>1, <3>2 DEF FdTypes
  <2>7. Commands' /\ Len(todo') >= 2 /\ Len(todo') \in Nat
    <3>1. str \in Seq(Chars)
      BY StringType DEF LineInv
    <3> HIDE DEF str
    <3>2. \E i \in 1 .. Len(str) : str[i] = "|"
      BY <1>3, <3>1 DEF Range
    <3> DEFINE c == CutAt(str, "|")
    <3>3. c = [i \in 1 .. Len(c) |-> c[i]] /\ Len(c) \in Nat /\ Len(c) >= 2
      BY <3>1, <3>2, CutAtLen, Zenon
    <3> HIDE DEF c
    <3>4. todo' = c
      BY <1>3 DEF c
    <3> QED
      BY <3>3, <3>4 DEF Commands
  <2>8. PipeFds'
    <3>1. \E i, j \in 3 .. (MaxFd - 1) : i # j /\ fd'[i] = pipe' + 2 /\ fd'[j] = pipe' + 2
      <4>1. 3 \in 3 .. (MaxFd - 1) /\ 4 \in 3 .. (MaxFd - 1) /\ 3 # 4
        BY <1>0
      <4> QED
        BY <1>3, <2>5, <4>1
    <3>2. Len(todo') # 1 /\ fd'[1] # 1 /\ Len(todo') > 1
      <4>1. ASSUME NEW n \in Nat, n >= 2 PROVE n # 1 /\ n > 1
        BY <4>1
      <4>2. fd'[1] # 1
        BY <1>0, <2>1, <2>5
      <4> QED
        BY <2>7, <4>1, <4>2, Zenon
    <3> QED
      BY <3>1, <3>2 DEF PipeFds
  <2>9. OpensExact'
    <3>1. ASSUME NEW s \in 1 .. Slots
          PROVE  opens'[s] = 2 * Holders(s)' + (IF s = pipe' THEN 2 + ChildOpens' ELSE 0)
      <4>1. Holders(s)' = Holders(s) /\ Holders(s) \in Nat /\ ChildOpens' = 0
        BY <1>0, <1>3, HoldersNat DEF Holders, ChildOpens, FdTypes
      <4>2. s # pipe
        BY <1>0
      <4>3. opens[s] = 2 * Holders(s) + 0
        BY <4>2 DEF FdInv, OpensExact
      <4>4. opens'[s] = IF s = slot THEN 2 ELSE opens[s]
        BY <1>0, <1>3, <2>1 DEF FdTypes
      <4>5. CASE s = slot
        BY <1>3, <2>1, <4>1, <4>3, <4>4, <4>5
      <4>6. CASE s # slot
        BY <1>3, <4>1, <4>3, <4>4, <4>6
      <4> QED
        BY <4>5, <4>6
    <3> QED
      BY <3>1 DEF OpensExact
  <2> QED
    BY <1>3, <2>1, <2>6, <2>7, <2>8, <2>9 DEF FdInv, Running
<1>4. CASE UNCHANGED <<lineVars, fdVars, pc, todo, final_path>>
  BY <1>0, <1>4, FdSame DEF fdVars, Running, FdTypes
<1> QED
  BY <1>1, <1>2, <1>3, <1>4, Zenon DEF ParseLine

LEMMA FdStep ==
    ASSUME FdInv, LineInv, ShNext
    PROVE  FdInv'
<1>0. pc \in Pcs
  BY DEF FdInv, FdTypes
<1>1. ASSUME NEW why, Stops(why) PROVE FdInv'
  <2>1. UNCHANGED <<fd, pipe, opens, waiting, todo, pc>>
    BY <1>1 DEF Stops, fdVars
  <2> QED
    BY <1>0, <2>1, FdSame DEF ChildOpens, Running
<1>2. ASSUME Ends, pc \in {"run", "ls"} PROVE FdInv'
  BY <1>2, EndsStep DEF Running
<1>3. CASE \E k \in Keys : Readline(k)
  <2>1. /\ UNCHANGED <<fd, pipe, opens, waiting, todo>> /\ pc = "read"
        /\ pc' \in {"read", "parse"}
    BY <1>3 DEF Readline, Typed, fdVars
  <2> QED
    BY <2>1, FdSame DEF ChildOpens, Running, Pcs
<1>4. CASE CmdNothing \/ ForkFails
  BY <1>1, <1>4 DEF CmdNothing, ForkFails
<1>5. CASE BuildinCd
  <2>1. pc = "run" /\ (Stops("cwd") \/ Ends)
    BY <1>5, Zenon DEF BuildinCd, Runs
  <2> QED
    BY <1>1, <1>2, <2>1
<1>6. CASE \E name \in {"mkdir", "rmdir", "rm"} : BuildinPath(name)
  <2>1. pc = "run" /\ (Stops("cwd") \/ Ends)
    BY <1>6, Zenon DEF BuildinPath, Runs
  <2> QED
    BY <1>1, <1>2, <2>1
<1>7. CASE BuildinPwd
  <2>1. pc = "run" /\ (Stops("cwd") \/ Ends)
    BY <1>7, Zenon DEF BuildinPwd, Runs
  <2> QED
    BY <1>1, <1>2, <2>1
<1>8. CASE BuildinLs
  <2>1. pc = "run"
    BY <1>8 DEF BuildinLs, Runs
  <2>2. CASE pc' = "ls" /\ UNCHANGED <<fdVars, todo>>
    BY <2>1, <2>2, FdSame DEF fdVars, ChildOpens, Running, Pcs
  <2> QED
    BY <1>1, <1>2, <1>8, <2>1, <2>2 DEF BuildinLs
<1>9. CASE LsOpen
  <2>1. pc = "ls" /\ (Stops("no dir") \/ Ends)
    BY <1>9, Zenon DEF LsOpen
  <2> QED
    BY <1>1, <1>2, <2>1
<1>10. CASE ExecStarts
  BY <1>10, FdSame DEF ExecStarts, fdVars, ChildOpens, Running, Pcs
<1>11. CASE \E d \in 0 .. MaxIno, n \in Names, type \in {"dir", "file", "program"} :
               OthersMake(d, n, type)
  <2>1. UNCHANGED <<fdVars, pc, todo>>
    BY <1>11, Zenon DEF OthersMake
  <2> QED
    BY <1>0, <2>1, FdSame DEF fdVars, ChildOpens, Running
<1>12. CASE \E i \in Inodes : OthersRemove(i)
  <2>1. UNCHANGED <<fdVars, pc, todo>>
    BY <1>12, Zenon DEF OthersRemove
  <2> QED
    BY <1>0, <2>1, FdSame DEF fdVars, ChildOpens, Running
<1> QED
  BY <1>3, <1>4, <1>5, <1>6, <1>7, <1>8, <1>9, <1>10, <1>11, <1>12, ParseLineStep,
     ChildStatStep, ChildExitsStep, ExecFailsStep, Zenon DEF ShNext

(* For any number of descriptors, pipes and shells that wait: at a prompt  *)
(* the shell has its standard descriptors, in a pipeline the ends of the   *)
(* pipe, and a pipe is open exactly as often as shells and children have   *)
(* it.                                                                     *)
THEOREM DescriptorsExactHolds == ShSpec => []DescriptorsExact
<1>1. ShInit => DescInv
  <2> SUFFICES ASSUME ShInit PROVE DescInv
    OBVIOUS
  <2>0. Slots \in Nat /\ MaxFd \in Nat /\ MaxFd >= 5 /\ MaxIno \in Nat /\ COUNT \in Nat
    BY ShAssumption
  <2>1. TreeInv
    BY <2>0 DEF ShInit, TreeInv
  <2>2. LineInv
    BY <2>0 DEF ShInit, LineInv, Blank, Text, Chars
  <2>3. FdTypes
    BY <2>0 DEF ShInit, FdTypes, Pcs, Std
  <2>4. OpensExact
    <3>1. ASSUME NEW s \in 1 .. Slots PROVE opens[s] = 0 /\ s # pipe /\ Holders(s) = 0
      <4>1. {i \in 1 .. Len(waiting) : waiting[i] = s} = {}
        BY DEF ShInit
      <4> QED
        BY <4>1, FS_EmptySet DEF ShInit, Holders
    <3> QED
      BY <3>1 DEF OpensExact
  <2> QED
    BY <2>1, <2>2, <2>3, <2>4 DEF DescInv, FdInv, ShInit, Running
<1>2. DescInv /\ [ShNext]_shVars => DescInv'
  <2> SUFFICES ASSUME DescInv, [ShNext]_shVars PROVE DescInv'
    OBVIOUS
  <2>1. LineInv'
    BY LineStep DEF DescInv
  <2>2. CASE ShNext
    BY <2>1, <2>2, TreeStep, FdStep DEF DescInv
  <2>3. CASE UNCHANGED shVars
    <3>1. UNCHANGED <<fd, pipe, opens, waiting, todo, pc, tree, cwd, trusted>>
      BY <2>3 DEF shVars, fsVars, fdVars
    <3>2. TreeInv'
      BY <3>1 DEF DescInv, TreeInv
    <3>3. FdInv'
      BY <3>1, FdSame DEF DescInv, FdInv, FdTypes, ChildOpens, Running
    <3> QED
      BY <2>1, <3>2, <3>3 DEF DescInv
  <2> QED
    BY <2>2, <2>3
<1> QED
  BY <1>1, <1>2, DescExact, PTL DEF ShSpec
============================================================================
