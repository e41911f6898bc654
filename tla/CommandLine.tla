----------------------------- MODULE CommandLine -----------------------------
(***************************************************************************)
(* The command line of a simulation program: the constructor of            *)
(* CommandLineArgs (Source/Utils.cpp) with the getopt_long it comes with   *)
(* for systems that have none (Include/dpsim/Compat/getopt.h), which moves *)
(* positional arguments behind the options while it scans.                 *)
(*                                                                         *)
(* An entry of argv is what the scanner distinguishes: plain, a cluster of *)
(* short options (its last part may be a value), a long option (the        *)
(* options its name is a prefix of, and the value after `=`), or `--`.     *)
(* text is what the entry reads as a value.  Positions are those of argv:  *)
(* argv[0] is the program's name and not kept, and 0 stands for the -1 of  *)
(* nonopt_start and nonopt_end.                                            *)
(***************************************************************************)
EXTENDS Naturals, SequencesExt

CONSTANTS
  ArgLists,   \* the command lines considered
  Numbers,    \* texts std::stod and std::stoi accept
  Dates,      \* texts --start-at accepts
  Pair,       \* KEY=VALUE texts: text -> <<KEY, VALUE>>
  NoArg       \* optarg == NULL

Flags     == {"S", "b", "h"}
WithArg   == {"t", "d", "f", "s", "l", "a", "i", "D", "T", "o", "n"}

(* What an option sets: --start-at and --start-in both set startTime.      *)
Setting(c) == IF c \in {"a", "i"} THEN "startTime" ELSE c
Settings == {Setting(c) : c \in Flags \union WithArg}

ASSUME PairAssumption == DOMAIN Pair \intersect Numbers = {} /\ Numbers # {}

VARIABLES
  status,         \* "parse", "launch", "usage" (exit 0), "error" (exit -1), "threw"
  args,           \* the command line as given
  posixly,        \* POSIXLY_CORRECT is set
  argv,           \* the command line as it is permuted
  optind,         \* next entry to look at
  place,          \* position in a cluster of short options; 0: EMSG
  nonopt_start, nonopt_end,
  settings,       \* Settings -> value given last, or "yes"; NoArg: the default
  options,        \* KEY -> VALUE
  positional

scan   == <<argv, optind, place, nonopt_start, nonopt_end>>
result == <<settings, options, positional>>
cmdVars == <<status, args, posixly, scan, result>>

CmdInit ==
  /\ status = "parse" /\ posixly \in BOOLEAN
  /\ args \in ArgLists /\ argv = args
  /\ optind = 1 /\ place = 0 /\ nonopt_start = 0 /\ nonopt_end = 0
  /\ settings = [c \in Settings |-> NoArg]
  /\ options = <<>> /\ positional = <<>>

-----------------------------------------------------------------------------
Gcd[ab \in Nat \X Nat] ==
  IF ab[1] % ab[2] = 0 THEN ab[2] ELSE Gcd[<<ab[2], ab[1] % ab[2]>>]

(* Mutant of NumCycles: a single cycle.                                    *)
NumCyclesOne(nnonopts, nopts) == 1

NumCycles(nnonopts, nopts) == Gcd[<<nnonopts, nopts>>]

(* permute_args: the entries start .. end-1 and end .. optEnd-1 change     *)
(* places; every cycle swaps its first entry through all its positions.    *)
PermuteArgs(start, end, optEnd, nargv) ==
  LET nnonopts == end - start
      nopts    == optEnd - end
      ncycle   == NumCycles(nnonopts, nopts)
      cyclelen == (optEnd - start) \div ncycle
      Swap(s, j) ==
        LET pos == IF s.pos >= end THEN s.pos - nnonopts ELSE s.pos + nopts
        IN  [s EXCEPT !.pos = pos, !.argv[pos] = s.argv[s.cstart],
                      !.argv[s.cstart] = s.argv[pos]]
      Cycle(v, i) ==
        FoldLeft(Swap, [argv |-> v, cstart |-> end + i - 1, pos |-> end + i - 1],
                 [j \in 1..cyclelen |-> j]).argv
  IN  FoldLeft(Cycle, nargv, [i \in 1..ncycle |-> i])

-----------------------------------------------------------------------------
(* The values the switch of CommandLineArgs takes; otherwise it throws.    *)
Accepts(c, x) ==
  CASE c \in {"t", "d", "f", "s", "i"} -> x \in Numbers
    [] c = "l" -> x \in {"DEBUG", "INFO", "ERROR", "WARN", "NONE"}
    [] c = "D" -> x \in {"DP", "EMT"}
    [] c = "T" -> x = "MNA"
    [] c = "a" -> x \in Dates
    [] c = "o" -> x \in DOMAIN Pair => Pair[x][2] \in Numbers
    [] OTHER   -> TRUE

(* What an option with its argument does to [settings, options, status].   *)
Handle(r, c, x) ==
  CASE c = "?" -> [r EXCEPT !.status = "error"]
    [] c = "h" -> [r EXCEPT !.status = "usage"]
    [] c \notin {"?", "h"} /\ ~Accepts(c, x) -> [r EXCEPT !.status = "threw"]
    [] c = "o" /\ Accepts(c, x) ->
         IF x \in DOMAIN Pair
         THEN [r EXCEPT !.options = [k \in DOMAIN @ \union {Pair[x][1]} |->
                                       IF k = Pair[x][1] THEN Pair[x][2] ELSE @[k]]]
         ELSE r
    [] OTHER   -> [r EXCEPT !.settings[Setting(c)] = IF c \in Flags THEN "yes" ELSE x]

Return(c, x) ==
  LET r == Handle([settings |-> settings, options |-> options, status |-> status], c, x)
  IN  /\ settings' = r.settings /\ options' = r.options /\ status' = r.status
      /\ UNCHANGED positional

(* getopt_long returns -1: the entries from there on are positional.       *)
Finish(v, ind) ==
  /\ status' = "launch"
  /\ argv' = v /\ optind' = ind /\ place' = 0
  /\ nonopt_start' = 0 /\ nonopt_end' = 0
  /\ positional' = SubSeq(v, ind, Len(v))
  /\ UNCHANGED <<settings, options>>

Scanning == status = "parse" /\ UNCHANGED <<args, posixly>>
Start(kind) == /\ Scanning /\ place = 0 /\ optind <= Len(argv)
               /\ argv[optind].kind = kind

EndOfArgs ==
  /\ Scanning /\ place = 0 /\ optind > Len(argv)
  /\ IF nonopt_end # 0
     THEN Finish(PermuteArgs(nonopt_start, nonopt_end, optind, argv),
                 optind - (nonopt_end - nonopt_start))
     ELSE Finish(argv, IF nonopt_start # 0 THEN nonopt_start ELSE optind)

(* A plain entry is skipped; the options found since the last ones are     *)
(* moved in front of those.  With POSIXLY_CORRECT it ends the options.     *)
NonOption ==
  /\ Start("plain")
  /\ \/ posixly /\ Finish(argv, optind)
     \/ /\ ~posixly
        /\ optind' = optind + 1
        /\ IF nonopt_start = 0 THEN nonopt_start' = optind /\ UNCHANGED <<argv, nonopt_end>>
           ELSE IF nonopt_end = 0 THEN UNCHANGED <<argv, nonopt_start, nonopt_end>>
           ELSE /\ argv' = PermuteArgs(nonopt_start, nonopt_end, optind, argv)
                /\ nonopt_start' = optind - (nonopt_end - nonopt_start)
                /\ nonopt_end' = 0
        /\ UNCHANGED <<status, place, result>>

(* nonopt_end once an option is met after entries that were skipped.       *)
MarkEnd == IF nonopt_start # 0 /\ nonopt_end = 0 THEN optind ELSE nonopt_end

DashDash ==
  /\ Start("end")
  /\ IF MarkEnd # 0
     THEN Finish(PermuteArgs(nonopt_start, MarkEnd, optind + 1, argv),
                 optind + 1 - (MarkEnd - nonopt_start))
     ELSE Finish(argv, optind + 1)

(* parse_long_options: the name must be the beginning of one option only;  *)
(* a missing argument is the next entry, or NULL behind the last one.      *)
LongOption ==
  LET tok  == argv[optind]
      unique == Cardinality(tok.matches) = 1
      c    == CHOOSE m \in tok.matches : TRUE
      next == optind + 1 <= Len(argv)
  IN
  /\ Start("long")
  /\ nonopt_end' = MarkEnd
  /\ UNCHANGED <<argv, nonopt_start, place>>
  /\ \/ /\ ~unique
        /\ optind' = optind + 1 /\ Return("?", NoArg)
     \/ /\ unique /\ c \in Flags
        /\ optind' = optind + 1
        /\ Return(IF tok.eq = NoArg THEN c ELSE "?", NoArg)
     \/ /\ unique /\ c \in WithArg /\ tok.eq # NoArg
        /\ optind' = optind + 1 /\ Return(c, tok.eq)
     \/ /\ unique /\ c \in WithArg /\ tok.eq = NoArg /\ next
        /\ optind' = optind + 2 /\ Return(c, argv[optind + 1].text)
     \/ /\ unique /\ c \in WithArg /\ tok.eq = NoArg /\ ~next
        /\ optind' = optind + 1 /\ Return("?", NoArg)

(* The rest of getopt_internal: one letter of a cluster.                   *)
ShortOption ==
  LET chars == argv[optind].chars
      p     == IF place = 0 THEN 1 ELSE place
      c     == chars[p]
      last  == p = Len(chars)
      next  == optind + 1 <= Len(argv)
  IN
  /\ Scanning /\ optind <= Len(argv) /\ argv[optind].kind = "short"
  /\ nonopt_end' = IF place = 0 THEN MarkEnd ELSE nonopt_end
  /\ UNCHANGED <<argv, nonopt_start>>
  /\ \/ /\ c \notin WithArg
        /\ place' = IF last THEN 0 ELSE p + 1
        /\ optind' = IF last THEN optind + 1 ELSE optind
        /\ Return(IF c \in Flags THEN c ELSE "?", NoArg)
     \/ /\ c \in WithArg /\ ~last
        /\ place' = 0 /\ optind' = optind + 1
        /\ Return(c, chars[p + 1])
     \/ /\ c \in WithArg /\ last /\ next
        /\ place' = 0 /\ optind' = optind + 2
        /\ Return(c, argv[optind + 1].text)
     \/ /\ c \in WithArg /\ last /\ ~next
        /\ place' = 0 /\ optind' = optind + 1
        /\ Return("?", NoArg)

Parse == EndOfArgs \/ NonOption \/ DashDash \/ LongOption \/ ShortOption

-----------------------------------------------------------------------------
(* Reference: the command line read once from left to right.  want is the  *)
(* option whose argument comes next; rest: only positional entries follow. *)
RefTake(s, c, x) ==
  LET r == Handle([settings |-> s.settings, options |-> s.options, status |-> s.status], c, x)
  IN  [s EXCEPT !.settings = r.settings, !.options = r.options, !.status = r.status]

RefOption(s, c, more, x) ==
  IF c \in Flags THEN RefTake(s, IF more THEN "?" ELSE c, NoArg)
  ELSE IF c \in WithArg THEN IF more THEN RefTake(s, c, x) ELSE [s EXCEPT !.want = c]
  ELSE RefTake(s, "?", NoArg)

(* A cluster is the flags up to the first letter that takes an argument.   *)
RefCluster(s, chars) ==
  LET stops == {i \in DOMAIN chars : chars[i] \notin Flags}
      n     == IF stops = {} THEN Len(chars) + 1 ELSE Min(stops)
      Flag(r, c) == IF r.status = "parse" THEN RefTake(r, c, NoArg) ELSE r
      f     == FoldLeft(Flag, s, SubSeq(chars, 1, n - 1))
  IN  IF f.status # "parse" \/ n > Len(chars) THEN f
      ELSE RefOption(f, chars[n], n < Len(chars), IF n < Len(chars) THEN chars[n + 1] ELSE NoArg)

RefEntry(s, tok) ==
  IF s.status # "parse" THEN s
  ELSE IF s.want # NoArg THEN [RefTake(s, s.want, tok.text) EXCEPT !.want = NoArg]
  ELSE IF s.rest \/ tok.kind = "plain"
       THEN [s EXCEPT !.positional = Append(@, tok), !.rest = @ \/ posixly]
  ELSE IF tok.kind = "end" THEN [s EXCEPT !.rest = TRUE]
  ELSE IF tok.kind = "short" THEN RefCluster(s, tok.chars)
  ELSE IF Cardinality(tok.matches) # 1 THEN RefTake(s, "?", NoArg)
  ELSE RefOption(s, CHOOSE m \in tok.matches : TRUE, tok.eq # NoArg, tok.eq)

Reference ==
  LET s == FoldLeft(RefEntry,
             [settings |-> [c \in Settings |-> NoArg], options |-> <<>>,
              positional |-> <<>>, status |-> "parse", want |-> NoArg, rest |-> FALSE], args)
  IN  IF s.status = "parse"
      THEN [s EXCEPT !.status = IF s.want = NoArg THEN "launch" ELSE "error"] ELSE s

(* The scan that permutes argv ends as a single reading from left to right *)
(* would: with the same settings and options (the last value given wins),  *)
(* the same error, and every positional argument kept once and in order,   *)
(* however options, their arguments and positional entries alternate.      *)
ReadsLikeReference ==
  status \in {"launch", "usage", "error", "threw"} =>
    /\ status = Reference.status
    /\ settings = Reference.settings /\ options = Reference.options
    /\ status = "launch" => positional = Reference.positional
=============================================================================
