----------------------------- MODULE MCCommands -----------------------------
(* The commands that are installed in each node, for TLC. *)
EXTENDS Commands, TLC

\* Of each word the letters that tell it from the others in its place, and one more of
\* a word where its first alone tells it.
Echo == Word(<<"e", "c">>)
Enable == Word(<<"e", "n", "a">>)
End == Word(<<"e", "n", "d">>)
Exit == Word(<<"e", "x">>)
Quit == Word(<<"q">>)
Help == Word(<<"h", "e">>)
Hostname == Word(<<"h", "o">>)
List == Word(<<"l", "i", "s">>)
Line == Word(<<"l", "i", "n">>)
Login == Word(<<"l", "o">>)
Show == Word(<<"s", "h">>)
Service == Word(<<"s", "e">>)
Terminal == Word(<<"t", "e">>)
Who == Word(<<"w", "h">>)
Write == Word(<<"w", "r">>)
Configure == Word(<<"c", "o", "n">>)
Copy == Word(<<"c", "o", "p">>)
Disable == Word(<<"d", "i">>)
Password == Word(<<"p">>)
Banner == Word(<<"b">>)
No == Word(<<"n">>)
Length == Word(<<"l">>)
Monitor == Word(<<"m">>)
Running == Word(<<"r">>)
Startup == Word(<<"s">>)
History == Word(<<"h">>)
Version == Word(<<"v">>)
Vty == Word(<<"v">>)
Motd == Word(<<"m">>)
File == Word(<<"f">>)
Memory == Word(<<"m">>)
Default == Word(<<"d">>)
Advanced == Word(<<"a">>)
Eight == Word(<<"8">>)
Lines == Interval(0, 512)

One(words) == [i \in 1 .. Len(words) |-> {words[i]}]
Hidden == {Eight, Word(<<>>)}    \* (8|)

InstallDefault ==
    {One(c) : c \in {<<Exit>>, <<Quit>>, <<End>>, <<Help>>, <<List>>, <<Write, Terminal>>,
                     <<Write, File>>, <<Write, Memory>>, <<Write>>, <<Show, Running>>}}

Shared ==
    {One(c) : c \in {<<Show, Version>>, <<Terminal, Length, Lines>>, <<Terminal, No, Length>>,
                     <<Echo, Vararg(<<"M">>)>>, <<Who>>, <<Show, History>>}}

MCCmdVec ==
    [VIEW |-> Shared \cup {One(c) : c \in {<<List>>, <<Exit>>, <<Quit>>, <<Help>>, <<Enable>>}},
     ENABLE |-> InstallDefault \cup Shared \cup
        {One(c) : c \in {<<Disable>>, <<Configure, Terminal>>, <<Copy, Running, Startup>>,
                         <<Show, Startup>>, <<Terminal, Monitor>>, <<Terminal, No, Monitor>>}},
     CONFIG |-> InstallDefault \cup
        {One(c) : c \in {<<Hostname, Variable(<<"W">>)>>, <<No, Hostname, Option(<<"H">>)>>,
                         <<Password, Variable(<<"L">>)>>, <<Enable, Password, Variable(<<"L">>)>>,
                         <<No, Enable, Password>>, <<Banner, Motd, Default>>,
                         <<Banner, Motd, File, Option(<<"F">>)>>, <<No, Banner, Motd>>,
                         <<Service, Terminal, Lines>>, <<No, Service, Terminal, Option(<<"L">>)>>,
                         <<Line, Vty>>, <<Service, Advanced>>, <<No, Service, Advanced>>,
                         <<Show, History>>}}
        \cup {<<{Password}, Hidden, {Variable(<<"W">>)}>>,
              <<{Enable}, {Password}, Hidden, {Variable(<<"W">>)}>>},
     VTY |-> InstallDefault \cup {One(<<Login>>), One(<<No, Login>>)}]

MCLetters == {"a", "b", "c", "d", "e", "f", "h", "i", "l", "m", "n", "o", "p", "q", "r", "s",
              "t", "v", "w", "x", "z", "8", "9", "F", "H", "L", "M", "W"}
MCOthers == {<<"z">>, <<"9">>, <<"9", "9", "9">>}
MCDigit == "8" :> 8 @@ "9" :> 9
MCDo == <<"d", "o">>
=============================================================================
