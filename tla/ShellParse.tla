----------------------------- MODULE ShellParse -----------------------------
(***************************************************************************)
(* How user/shell/shell.c takes a command line apart: the words of a       *)
(* command and the stages of a pipeline.  A line is a sequence of          *)
(* characters; " " stands for every character of WHITESPACE.  ParseRef     *)
(* says the same without a cursor.                                         *)
(***************************************************************************)
EXTENDS Integers, Sequences, SequencesExt, FiniteSets, FiniteSetsExt

CONSTANT MAXARGS

ASSUME ParseAssumption == MAXARGS \in Nat \ {0}

Failed == [ok |-> FALSE, out |-> <<>>]
Done(out) == [ok |-> TRUE, out |-> out]

(* The first position of character c in line, or the one after its end.     *)
Find(line, c) == Min({k \in DOMAIN line : line[k] = c} \cup {Len(line) + 1})

RECURSIVE SkipBlanks(_)
SkipBlanks(line) ==
  IF line # <<>> /\ Head(line) = " " THEN SkipBlanks(Tail(line)) ELSE line

(* parse_stage, and the loop of runcmd: the words so far are argv.          *)
RECURSIVE ParseStage(_, _)
ParseStage(line, argv) ==
  LET cmd == SkipBlanks(line)
      end == Find(cmd, " ")
  IN  IF cmd = <<>> THEN Done(argv)
      ELSE IF Len(argv) = MAXARGS - 1 THEN Failed
      ELSE ParseStage(SubSeq(cmd, end, Len(cmd)),
                      Append(argv, SubSeq(cmd, 1, end - 1)))

(* Mutant: the last slot of argv is not kept for the terminator.            *)
RECURSIVE ParseStageFull(_, _)
ParseStageFull(line, argv) ==
  LET cmd == SkipBlanks(line)
      end == Find(cmd, " ")
  IN  IF cmd = <<>> THEN Done(argv)
      ELSE IF Len(argv) = MAXARGS THEN Failed
      ELSE ParseStageFull(SubSeq(cmd, end, Len(cmd)),
                          Append(argv, SubSeq(cmd, 1, end - 1)))

StageFull(line) == ParseStageFull(line, <<>>)

Stage(line) == ParseStage(line, <<>>)

(* parse_pipeline: a stage without a word fails, unless nothing follows it. *)
RECURSIVE ParseStages(_, _)
ParseStages(line, stages) ==
  LET seg == SkipBlanks(line)
      end == Find(seg, "|")
      stage == Stage(SubSeq(seg, 1, end - 1))
  IN  IF seg = <<>> THEN Done(stages)
      ELSE IF Len(stages) = MAXARGS \/ ~stage.ok \/ stage.out = <<>> THEN Failed
      ELSE IF end > Len(seg) THEN Done(Append(stages, stage.out))
      ELSE ParseStages(SubSeq(seg, end + 1, Len(seg)), Append(stages, stage.out))

ParsePipeline(line) == ParseStages(line, <<>>)

-----------------------------------------------------------------------------

(* The pieces of s between separators, and the pieces that are not empty.   *)
Pieces(s, sep) ==
  LET cuts == {0, Len(s) + 1} \cup {k \in DOMAIN s : s[k] = sep}
      cut[k \in 1 .. Cardinality(cuts)] ==
        CHOOSE c \in cuts : Cardinality({d \in cuts : d < c}) = k - 1
  IN  [k \in 1 .. Cardinality(cuts) - 1 |-> SubSeq(s, cut[k] + 1, cut[k + 1] - 1)]

Words(s) == SelectSeq(Pieces(s, " "), LAMBDA w : w # <<>>)

ParseRef(line) ==
  LET pieces == Pieces(line, "|")
      words == [k \in DOMAIN pieces |-> Words(pieces[k])]
      stages == IF Last(words) = <<>> THEN Front(words) ELSE words
  IN  IF /\ Len(stages) <= MAXARGS
         /\ \A k \in DOMAIN stages : Len(stages[k]) \in 1 .. MAXARGS - 1
      THEN Done(stages) ELSE Failed
=============================================================================
