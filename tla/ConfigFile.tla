------------------------------ MODULE ConfigFile ------------------------------
(***************************************************************************)
(* loadInitialInfo: loadConfigFile reads config.ini line by line, splits a *)
(* line at '-', has removeWhiteSpaces strip both words in place, and takes *)
(* the value with atoi.  Words are sequences of character codes, as in the *)
(* code; a key is written with its first and its last letter, the value of *)
(* "module" likewise.  A line is shorter than LINE_LENGTH.                 *)
(***************************************************************************)
EXTENDS Integers, SequencesExt

CONSTANT Files    \* the contents config.ini may have: sequences of lines

Blank == 32
Newline == 10
Dash == 45
Zero == 48        \* the code of '0'

(* What stands between blanks, dashes and the end of a line.               *)
Characters == (1 .. 255) \ {Newline, Dash}
Words == {w \in Seq(Characters) :
            w # <<>> /\ w[1] # Blank /\ w[Len(w)] # Blank}

Keys == [frequency |-> <<102, 121>>, bandwidth |-> <<98, 104>>,
         module |-> <<109, 101>>, program_number |-> <<112, 114>>]
DvbT == <<68, 84>>

(* A line: "indent" blanks, the key, "gap" blanks; with a dash, '-',       *)
(* "lead" blanks, the value and "trail" blanks; a newline unless it is     *)
(* the end of the file.                                                    *)
Line == [indent : Nat, key : Words, gap : Nat, dash : BOOLEAN,
         lead : Nat, value : Words, trail : Nat, newline : BOOLEAN]

ASSUME FilesOK == Files \subseteq Seq(Line)

VARIABLES
  file,           \* what config.ini holds
  line,           \* lines read
  configFile,     \* frequency, bandwidth and program_number; the module
  programNumber,
  result          \* "reading", loadInitialInfo's result, or "null": strtok
                  \* found no second word and the code goes on with NULL

vars == <<file, line, configFile, programNumber, result>>

Init ==
  /\ file \in Files
  /\ line = 0
  /\ configFile = [frequency |-> 0, bandwidth |-> 0, program_number |-> 0,
                   module |-> "none"]
  /\ programNumber = 0
  /\ result = "reading"

-----------------------------------------------------------------------------
Blanks(n) == [i \in 1 .. n |-> Blank]

(* The words strtok makes of a line.                                       *)
FirstWord(l) ==
  Blanks(l.indent) \o l.key \o Blanks(l.gap)
    \o (IF l.dash \/ ~l.newline THEN <<>> ELSE <<Newline>>)

SecondWord(l) ==
  Blanks(l.lead) \o l.value \o Blanks(l.trail)
    \o (IF l.newline THEN <<Newline>> ELSE <<>>)

FirstOf(word) == SelectInSeq(word, LAMBDA c : c # Blank)
LastOf(word) == SelectLastInSeq(word, LAMBDA c : c # Blank)

StripsLeft(word) ==
  LET i == FirstOf(word) - 1
      k == LastOf(word)
  IN  [j \in 1 .. k - i - 1 |-> word[j + i]]

(* With i blanks on the left and the last other character at k (from 1),   *)
(* the loop moves all but the last character: that place keeps what it had *)
(* before.  A newline is no blank.                                         *)
removeWhiteSpaces(word) ==
  LET i == FirstOf(word) - 1
      k == LastOf(word)
  IN  [j \in 1 .. k - i |-> IF j < k - i THEN word[j + i] ELSE word[j]]

IsDigit(c) == c \in Zero .. Zero + 9
FirstNoDigit(word) == SelectInSeq(word, LAMBDA c : ~IsDigit(c))

(* atoi: blanks, then digits up to the first other character.              *)
Digits(word) ==
  LET from == FirstOf(word)
      rest == IF from = 0 THEN <<>> ELSE SubSeq(word, from, Len(word))
      end == FirstNoDigit(rest)
  IN  IF end = 0 THEN rest ELSE SubSeq(rest, 1, end - 1)

Decimal(digits) == FoldLeft(LAMBDA n, c : 10 * n + c - Zero, 0, digits)

atoi(word) == Decimal(Digits(word))

Int16(n) == ((n + 32768) % 65536) - 32768

Take(key, word) ==
  IF key # "module"
  THEN /\ configFile' = [configFile EXCEPT ![key] = atoi(word)]
       /\ UNCHANGED result
  ELSE IF word # DvbT
       THEN /\ configFile' = [configFile EXCEPT !.module = "DVB_T"]
            /\ UNCHANGED result
       ELSE result' = "error" /\ UNCHANGED configFile

(* One round of the loop.  strcmp(word, "DVB_T") is true of the words that *)
(* are not "DVB_T".                                                        *)
ReadLine ==
  /\ result = "reading" /\ line < Len(file)
  /\ line' = line + 1
  /\ LET l == file[line + 1]
         known == {key \in DOMAIN Keys :
                     removeWhiteSpaces(FirstWord(l)) = Keys[key]}
     IN  \/ known = {} /\ UNCHANGED <<configFile, result>>
         \/ known # {} /\ ~l.dash /\ result' = "null" /\ UNCHANGED configFile
         \/ l.dash /\ \E key \in known :
              Take(key, removeWhiteSpaces(SecondWord(l)))
  /\ UNCHANGED <<file, programNumber>>

(* The end of the file; loadInitialInfo takes the program.                 *)
EndOfFile ==
  /\ result = "reading" /\ line = Len(file)
  /\ programNumber' = Int16(configFile.program_number)
  /\ result' = "ok"
  /\ UNCHANGED <<file, line, configFile>>

Next == ReadLine \/ EndOfFile

Spec == Init /\ [][Next]_vars

-----------------------------------------------------------------------------
(* Properties.                                                             *)

(* Lines laid out as in the config.ini of the repository: no indent, and   *)
(* the value followed by a blank, or not preceded by one.                  *)
LaidOut(l) ==
  l.indent = 0 /\ l.dash /\ l.newline /\ (l.trail > 0 \/ l.lead = 0)

INT_MAX == 2147483647
INT16_MAX == 32767

(* A number that the int of atoi and, for a program, an int16_t can hold.  *)
Fits(l) ==
  /\ atoi(l.value) \in 0 .. INT_MAX
  /\ l.key = Keys.program_number => atoi(l.value) \in 0 .. INT16_MAX

(* The lines before this one that set the key.                             *)
Setting(key) == {n \in 1 .. line : file[n].key = Keys[key]}

(* The number of the last of them, and 0 without one.                      *)
Written(key) == IF Setting(key) = {} THEN 0
                ELSE atoi(file[Max(Setting(key))].value)

(* The numbers such a file gives are the ones loaded: for each key the     *)
(* value of its last line, if it fits its type, and the program is the     *)
(* one the stream controller starts with; no line ends in a NULL word.     *)
(* (Of the module nothing is said: strcmp is used the wrong way round.)    *)
LoadedAsWritten ==
  (\A n \in DOMAIN file : LaidOut(file[n]) /\ Fits(file[n])) =>
    /\ result # "null"
    /\ \A key \in DOMAIN Keys \ {"module"} : configFile[key] = Written(key)
    /\ result = "ok" => programNumber = configFile.program_number
=============================================================================
