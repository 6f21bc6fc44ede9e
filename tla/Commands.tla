------------------------------ MODULE Commands ------------------------------
(***************************************************************************)
(* How a typed line becomes a command (src/lib/vty/command.c): matching of *)
(* abbreviated words, the strict matching of configuration files, '?' and  *)
(* TAB, with the keys' handlers of src/lib/vty/vty.c.                      *)
(*                                                                         *)
(* A word is a sequence of letters.  A command is a sequence of places,    *)
(* each a set of alternatives.  cmd_vector, a copy of a node's commands in *)
(* which the code clears slot after slot, is the set of those left.  What  *)
(* a command does is in VtySession.                                        *)
(***************************************************************************)
EXTENDS Integers, SequencesExt, FiniteSetsExt

CONSTANTS
    Letters,    \* of words, and of the names of what stands for one
    CmdVec,     \* commands installed in each node
    Others,     \* typed words that are not like any word of a command
    Digit,      \* what each letter that is a digit stands for
    Do,         \* the word "do"
    MaxWords    \* of a line

Nodes == DOMAIN CmdVec

\* An alternative: a word, or what stands for one; a range has its limits.
Word(text) == [kind |-> "word", text |-> text, min |-> 0, max |-> 0]
Variable(name) == [kind |-> "variable", text |-> name, min |-> 0, max |-> 0]
Option(name) == [kind |-> "option", text |-> name, min |-> 0, max |-> 0]
Vararg(name) == [kind |-> "vararg", text |-> name, min |-> 0, max |-> 0]
Interval(a, b) == [kind |-> "range", text |-> <<>>, min |-> a, max |-> b]

Alternatives ==
    [kind : {"word", "variable", "option", "range", "vararg"}, text : Seq(Letters),
     min : Int, max : Int]

ASSUME NodesAssumption == {"ENABLE", "CONFIG"} \subseteq Nodes
ASSUME CommandsAssumption ==
    \A n \in Nodes :
        /\ IsFiniteSet(CmdVec[n])
        /\ \A c \in CmdVec[n] :
             /\ c \in Seq(SUBSET Alternatives) /\ Len(c) > 0
             /\ \A i \in 1 .. Len(c) :
                  /\ IsFiniteSet(c[i])
                  /\ \A d \in c[i] : d.kind = "word" => d = Word(d.text)

\* The installed commands: no word that stands in one place with others begins another,
\* and an empty word stands beside another only.
ASSUME PlacesAssumption ==
    \A n \in Nodes : \A c \in CmdVec[n] : \A i \in 1 .. Len(c) :
        /\ \A d, e \in c[i] :
             /\ d.kind = "word" /\ e.kind = "word"
             /\ d.text # <<>> /\ IsPrefix(d.text, e.text)
             => d = e
        /\ Word(<<>>) \in c[i] => \E d \in c[i] : d.kind = "word" /\ d.text # <<>>

ASSUME TypedAssumption == {Do} \cup Others \subseteq Seq(Letters) \ {<<>>}

At(c, i) == IF i <= Len(c) THEN c[i] ELSE {}

Optional(c, i) == Cardinality(c[i]) = 1 /\ \E d \in c[i] : d.kind = "option"

\* Words a command must have: those before the first place that is an option.
CmdSize(c) == Cardinality({i \in 1 .. Len(c) : \A j \in 1 .. i : ~ Optional(c, j)})

NotOnlyWords(c, i) == \E d \in At(c, i) : d.kind # "word"

\* There may be a word in place i with which both commands go on.
Alike(c, o, i) == At(c, i) \cap At(o, i) # {} \/ (NotOnlyWords(c, i) /\ NotOnlyWords(o, i))

\* The installed commands, more of them.  Two commands differ in a word that one of them
\* must have, and that is not swallowed by a variable number of words.
ASSUME DifferAssumption ==
    \A n \in Nodes : \A c, o \in CmdVec[n] : c # o =>
        \E i \in (1 .. CmdSize(c)) \cup (1 .. CmdSize(o)) :
            /\ ~ Alike(c, o, i)
            /\ \A j \in 1 .. i - 1 : \A d \in At(c, j) \cup At(o, j) : d.kind # "vararg"

\* Options come last.
ASSUME OptionsAssumption ==
    \A n \in Nodes : \A c \in CmdVec[n] : \A i \in 1 .. Len(c) : \A j \in i .. Len(c) :
        Optional(c, i) => Optional(c, j)

\* No number is in two ranges that stand in the same place.
ASSUME RangesAssumption ==
    \A n \in Nodes : \A c, o \in CmdVec[n] : \A i \in 1 .. Len(c) :
        \A d \in c[i], e \in At(o, i) :
            d.kind = "range" /\ e.kind = "range" /\ d # e => d.max < e.min \/ e.max < d.min

ASSUME OthersAssumption ==
    \A w \in Others : \A n \in Nodes : \A c \in CmdVec[n] : \A i \in 1 .. Len(c) :
        \A d \in c[i] : d.kind = "word" => ~ IsPrefix(w, d.text)

VARIABLES
    node,       \* vty->node
    line,       \* the words in vty->buf
    space       \* a space follows them

vars == <<node, line, space>>
-----------------------------------------------------------------------------
(* Matching one word.                                                      *)

Number(w) == FoldLeft(LAMBDA n, l : 10 * n + Digit[l], 0, w)

RangeMatch(d, w) ==
    /\ \A i \in 1 .. Len(w) : w[i] \in DOMAIN Digit
    /\ Number(w) \in d.min .. d.max

Rank == [no |-> 0, extend |-> 1, range |-> 6, vararg |-> 7, partly |-> 8, exact |-> 9]

\* How a word matches an alternative, abbreviated as it may be.
Completes(w, d) ==
    IF d.kind = "vararg" THEN "vararg"
    ELSE IF d.kind = "range" THEN IF RangeMatch(d, w) THEN "range" ELSE "no"
    ELSE IF d.kind \in {"option", "variable"} THEN "extend"
    ELSE IF d.text = w THEN "exact"
    ELSE IF IsPrefix(w, d.text) THEN "partly" ELSE "no"

\* The same of a configuration file's word.
Equals(w, d) == IF Completes(w, d) = "partly" THEN "no" ELSE Completes(w, d)

\* strict: of a configuration file.
Match(strict, w, d) == IF strict THEN Equals(w, d) ELSE Completes(w, d)

\* cmd_filter_by_completion and cmd_filter_by_string: what is left, and the best match.
Filter(strict, left, w, i) == {c \in left : \E d \in At(c, i) : Match(strict, w, d) # "no"}

Best(strict, left, w, i) ==
    LET found == {"no"} \cup {Match(strict, w, d) : d \in UNION {At(c, i) : c \in left}} IN
    CHOOSE m \in found : \A o \in found : Rank[o] <= Rank[m]

\* What counts for is_cmd_ambiguous; a range counts as a variable too.
Counts(type, w, d) ==
    \/ type \in {"exact", "partly"} /\ d.kind = "word" /\ Completes(w, d) \in {type, "exact"}
    \/ type = "range" /\ d.kind = "range" /\ RangeMatch(d, w)
    \/ type = "extend" /\ d.kind \in {"option", "variable", "range"}

\* A variant: the first word that is abbreviated is the one meant.
FirstMeant(type, left, w, i) == FALSE

\* More than one word, or range, is meant.
Ambiguous(type, left, w, i) ==
    /\ type \in {"partly", "range"}
    /\ Cardinality({d \in UNION {At(c, i) : c \in left} : Counts(type, w, d)}) > 1
-----------------------------------------------------------------------------
(* Matching a line.                                                        *)

\* One round of the loop over the words.
Round(strict, Ends, m, w) ==
    LET i == m.words + 1
        left == Filter(strict, m.left, w, i)
        type == Best(strict, m.left, w, i)
    IN  IF m.status # "more" THEN m
        ELSE IF type = "vararg" /\ Ends THEN [m EXCEPT !.left = left, !.status = "vararg"]
        ELSE IF Ambiguous(type, left, w, i) THEN [m EXCEPT !.status = "AMBIGUOUS"]
        ELSE [m EXCEPT !.words = i,
                       !.left = {c \in left : \E d \in At(c, i) : Counts(type, w, d)}]

\* What the first k rounds come to.
Matched(strict, Ends, n, l) ==
    LET after[k \in 0 .. Len(l)] ==
            IF k = 0 THEN [left |-> CmdVec[n], words |-> 0, status |-> "more"]
            ELSE Round(strict, Ends, after[k - 1], l[k])
    IN  after[Len(l)]

\* cmd_execute_command_real, and cmd_execute_command_strict: what is said of a line of k
\* words, and the command it runs.
Verdict(m, k) ==
    LET matched == {c \in m.left : m.status = "vararg" \/ k >= CmdSize(c)}
        Said(status) == [status |-> status, command |-> <<>>]
    IN  IF m.status = "AMBIGUOUS" \/ Cardinality(matched) > 1 THEN Said("AMBIGUOUS")
        ELSE IF matched # {}
             THEN [status |-> "SUCCESS", command |-> CHOOSE c \in matched : TRUE]
        ELSE IF m.left # {} THEN Said("INCOMPLETE") ELSE Said("NO_MATCH")

Executed(strict, n, l) == Verdict(Matched(strict, TRUE, n, l), Len(l))

\* cmd_try_do_shortcut: above the enable node, "do" leads to it.
IsDo(n, l) == n \notin {"VIEW", "ENABLE"} /\ l # <<>> /\ l[1] = Do

InNode(n, l) == IF IsDo(n, l) THEN "ENABLE" ELSE n
WordsOf(n, l) == IF IsDo(n, l) THEN Tail(l) ELSE l

ExecutedHere(n, l) == Executed(FALSE, InNode(n, l), WordsOf(n, l))

\* A node below the configuration node falls back on it.
FallsBack(n, l) ==
    /\ n = "VTY" /\ ~ IsDo(n, l)
    /\ ExecutedHere(n, l).status # "SUCCESS"
    /\ Executed(FALSE, "CONFIG", l).status = "SUCCESS"

\* cmd_execute_command.
CmdExecuteCommand(n, l) ==
    IF FallsBack(n, l) THEN Executed(FALSE, "CONFIG", l) ELSE ExecutedHere(n, l)
-----------------------------------------------------------------------------
(* '?' and TAB.                                                            *)

Cr == [kind |-> "cr", text |-> <<>>, min |-> 0, max |-> 0]

\* What an alternative is shown for, nothing being typed of it yet or some of it.
Shown(w, d) == w = <<>> \/ Completes(w, d) # "no"

\* cmd_describe_command_real: what may come after k words, or for the beginning w of a word
\* more; an empty word is not to be printed.
DescribedAfter(m, k, w) ==
    LET offered == {d \in UNION {At(c, k + 1) : c \in m.left} : Shown(w, d)} IN
    IF m.status = "AMBIGUOUS" THEN {}
    ELSE IF m.status = "vararg" THEN {Cr} \cup UNION {Last(c) : c \in m.left}
    ELSE (offered \ {Word(<<>>)})
            \cup (IF w = <<>> /\ \E c \in m.left : Len(c) = k THEN {Cr} ELSE {})

\* vty_describe_command: what is printed.  Behind a variable number of words no status is
\* assigned (command.c:1602), and the one tested may be that nothing matches.
Printed(m, k, w) ==
    {DescribedAfter(m, k, w)} \cup (IF m.status = "vararg" THEN {{}} ELSE {})

DescribedIn(n, words, sp) ==
    IF sp THEN Printed(Matched(FALSE, TRUE, n, words), Len(words), <<>>)
    ELSE IF words = <<>> THEN {{}}
    ELSE Printed(Matched(FALSE, TRUE, n, Front(words)), Len(words) - 1, Last(words))

\* A variant: "do" is left out, and the node stays.
DescribedHere(n, l, sp) == DescribedIn(n, WordsOf(n, l), sp)

\* cmd_describe_command, and what may be printed of it.
Described(n, l, sp) == DescribedIn(InNode(n, l), WordsOf(n, l), sp)

\* cmd_complete_command_real: the words that may stand at the end of the line.
CompletedAfter(m, k, w) ==
    IF m.status = "AMBIGUOUS" THEN {}
    ELSE {d.text : d \in {e \in UNION {At(c, k + 1) : c \in m.left} :
                            e.kind = "word" /\ IsPrefix(w, e.text)}}

CompletionsIn(n, words, sp) ==
    IF sp THEN CompletedAfter(Matched(FALSE, FALSE, n, words), Len(words), <<>>)
    ELSE IF words = <<>> THEN {}
    ELSE CompletedAfter(Matched(FALSE, FALSE, n, Front(words)), Len(words) - 1, Last(words))

Completions(n, l, sp) == CompletionsIn(InNode(n, l), WordsOf(n, l), sp)

\* cmd_lcd: the longest beginning the words have in common.
Lcd(texts) ==
    LET t == CHOOSE s \in texts : TRUE
        len == CHOOSE k \in 0 .. Len(t) :
                 /\ \A s \in texts : IsPrefix(SubSeq(t, 1, k), s)
                 /\ k = Len(t) \/ \E s \in texts : ~ IsPrefix(SubSeq(t, 1, k + 1), s)
    IN  SubSeq(t, 1, len)

\* The line with its last word written over, or with a word more.
WithLast(w) == IF space THEN Append(line, w) ELSE Append(Front(line), w)
-----------------------------------------------------------------------------
(* The keys.                                                               *)

Init ==
    /\ node \in Nodes
    /\ line = <<>>
    /\ space = FALSE

Abbreviations(t) == {SubSeq(t, 1, k) : k \in 1 .. Len(t)}

\* The words of commands of node n that may follow the words l.
Following(n, l) ==
    {d \in UNION {At(c, Len(l) + 1) : c \in Matched(FALSE, TRUE, n, l).left} : d.kind = "word"}

\* What is worth typing next: abbreviations of the words that may follow.
Typed ==
    Others \cup {Do} \cup
        UNION {Abbreviations(d.text) :
                 d \in Following(InNode(node, line), WordsOf(node, line))
                          \cup (IF node = "VTY" THEN Following("CONFIG", line) ELSE {})}

Type ==
    /\ line = <<>> \/ space
    /\ Len(line) < MaxWords
    /\ \E w \in Typed : line' = Append(line, w)
    /\ space' = FALSE
    /\ UNCHANGED node

TypeSpace ==
    /\ line # <<>> /\ ~space
    /\ space' = TRUE
    /\ UNCHANGED <<node, line>>

\* A variant: the first of the words is taken.
CompleteFirst ==
    /\ line # <<>>
    /\ LET texts == Completions(node, line, space) IN
       /\ texts # {}
       /\ line' = WithLast(CHOOSE t \in texts : TRUE) /\ space' = TRUE
    /\ UNCHANGED node

\* vty_complete_command: one word is written out, of several what they have in common.
VtyCompleteCommand ==
    /\ line # <<>>
    /\ LET texts == Completions(node, line, space) IN
       \/ /\ Cardinality(texts) = 1
          /\ \E t \in texts : line' = WithLast(t)
          /\ space' = TRUE
       \/ /\ Cardinality(texts) > 1 /\ ~space
          /\ Len(Lcd(texts)) > Len(Last(line))
          /\ line' = WithLast(Lcd(texts))
          /\ space' = FALSE
    /\ UNCHANGED node

\* RETURN: the line is executed, which may lead to another node.
VtyExecute ==
    /\ line # <<>>
    /\ node' \in IF CmdExecuteCommand(node, line).status = "SUCCESS" THEN Nodes ELSE {node}
    /\ line' = <<>>
    /\ space' = FALSE

Next == Type \/ TypeSpace \/ VtyCompleteCommand \/ VtyExecute

Spec == Init /\ [][Next]_vars
-----------------------------------------------------------------------------
RunsHere(l) == ExecutedHere(node, l).status = "SUCCESS"

\* RETURN runs a command, of this node or of its parent.
Runs(l) == CmdExecuteCommand(node, l).status = "SUCCESS"

\* Words an alternative stands for.
Examples(d) == IF d.kind = "word" THEN {d.text} ELSE {w \in Others : Completes(w, d) # "no"}

Accepted(l) ==
    LET m == Matched(FALSE, TRUE, InNode(node, l), WordsOf(node, l)) IN
    m.status # "AMBIGUOUS" /\ m.left # {}

\* The rest of the line is a variable number of words, and of it nothing is shown.
Withheld(shown) ==
    /\ shown = {}
    /\ Matched(FALSE, TRUE, InNode(node, line), WordsOf(node, line)).status = "vararg"

\* '?' has told of the word w, or of anything.
Told(shown, w) == \E d \in shown : d = Cr \/ Completes(w, d) # "no"

\* What '?' shows is what may be typed (command.c:1540, 1913): whatever is shown is
\* accepted, and with <cr> the line can be executed.  It is all that may be typed: a word
\* that makes a command of the line was shown, and so was <cr>, or an option, if the line
\* is one.  But what the parent node would run is never shown (command.c:2119), and behind
\* a variable number of words it is chance whether anything is (command.c:1602).
DescribedIsAccepted ==
    line # <<>> /\ space =>
        \A shown \in Described(node, line, TRUE) :
            /\ \A d \in shown \ {Cr} : \A w \in Examples(d) : Accepted(Append(line, w))
            /\ Cr \in shown => RunsHere(line)
            /\ Runs(line) => \/ \E d \in shown : d.kind \in {"cr", "option"}
                             \/ FallsBack(node, line) \/ Withheld(shown)
            /\ \A w \in Typed :
                 Runs(Append(line, w)) => \/ Told(shown, w)
                                          \/ FallsBack(node, Append(line, w)) \/ Withheld(shown)

\* The words of a command that a typed word may stand for.
Meanings(c, w, i) == {d \in At(c, i) : d.kind = "word" /\ IsPrefix(w, d.text)}

\* The line with the words of the command written out.
WrittenOut(c, l) ==
    [i \in 1 .. Len(l) |-> IF Meanings(c, l[i], i) = {} THEN l[i]
                           ELSE (CHOOSE d \in Meanings(c, l[i], i) : TRUE).text]

\* An abbreviated line runs a command only if it can mean no other (command.c:1289): a
\* command that begins with the same words goes on with the same one, or with one the
\* typed word cannot stand for, or the word was typed in full.  With its words written
\* out the line is the one a configuration file names that command by (command.c:2137).
NothingIsGuessed ==
    LET n == IF FallsBack(node, line) THEN "CONFIG" ELSE InNode(node, line)
        l == WordsOf(node, line)
        c == CmdExecuteCommand(node, line).command
    IN  line # <<>> /\ Runs(line) =>
        /\ Executed(TRUE, n, WrittenOut(c, l)).command = c
        /\ \A o \in CmdVec[n], i \in 1 .. Len(l) :
             (\A j \in 1 .. i - 1 : At(o, j) = At(c, j))
                => \A d \in Meanings(o, l[i], i) :
                     d \in At(c, i) \/ Word(l[i]) \in At(c, i)

\* The commands the line may still become.
Open(l) ==
    LET words == WordsOf(node, l) IN
    {c \in CmdVec[InNode(node, l)] :
        \A i \in 1 .. Len(words) : \E d \in At(c, i) : Completes(words[i], d) # "no"}

\* TAB decides nothing (command.c:1722, vty.c:882): the line may still become every
\* command it could have become, and one that runs a command runs the same one.
CompletionKeeps ==
    [][VtyCompleteCommand =>
         /\ Open(line') = Open(line)
         /\ ~space /\ Runs(line)
              => CmdExecuteCommand(node, line') = CmdExecuteCommand(node, line)]_vars
=============================================================================
