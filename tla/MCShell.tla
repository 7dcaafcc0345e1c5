------------------------------- MODULE MCShell -------------------------------
(* Lines of up to eight characters, commands with up to two arguments.  In *)
(* one session any short lines are typed; in the others commands on two    *)
(* files.                                                                  *)
EXTENDS Shell, TLC

sp == SEPARATOR
amp == AMPERSAND

(* Letters, each one where it stands in the alphabet; and the names of the *)
(* commands and the files in the sessions on files.                        *)
Letter(k) == 96 + k
Name == [f |-> <<102>>, g |-> <<103>>, c |-> <<99>>, r |-> <<114>>, t |-> <<116>>,
         k |-> <<107>>, w |-> <<119>>, h |-> <<104>>, e |-> <<101>>]

MCAliases == Name.e :> Name.h

(* Lines of n characters: letters and separators after a letter or '&'. *)
ShortLines(n) ==
  {t \in [1 .. n -> {sp, amp} \cup {Letter(k) : k \in 1 .. n}] :
     \A k \in 1 .. n : t[k] \in {sp, Letter(k)} \cup (IF k = 1 THEN {amp} ELSE {})}

LongLines ==
  {<<97, sp, 98, sp, 99, sp, 100>>, <<97, sp, 98, 99, sp, 100, 101>>,
   <<amp, 97, sp, 98, 99, sp, 100>>, <<97, sp, 98, 99, sp, 100, 101, 102>>}

AnyShortLine == UNION {ShortLines(n) : n \in 0 .. 5}

Typing ==
  {[lines |-> lines, files |-> [f \in {<<97>>, <<98>>} |-> <<Code.echo>>]] :
     lines \in {<<LongLines, AnyShortLine>>, <<AnyShortLine, LongLines>>}}

Line(words) == FlattenSeq([i \in 1 .. 2 * Len(words) - 1 |->
                             IF i % 2 = 1 THEN words[(i + 1) \div 2] ELSE <<sp>>])

Programs ==
  (Name.c :> <<Code.cp>>) @@ (Name.r :> <<Code.rm>>) @@ (Name.t :> <<Code.touch>>)
  @@ (Name.k :> <<Code.cat>>) @@ (Name.w :> <<Code.write>>) @@ (Name.h :> <<Code.halt>>)

Copies == {Line(<<Name.c, Name.f, Name.g>>), Line(<<<<amp, 99>>, Name.f, Name.g>>)}

Foreground ==
  {Line(<<Name.r, Name.f>>), Line(<<Name.r, Name.g, Name.f>>), Line(<<Name.t, Name.g>>),
   Line(<<Name.w, Name.f, <<120>>, <<121>>>>), Line(<<Name.w, Name.g>>),
   Line(<<Name.k, Name.f, Name.g>>), Name.f, Name.e}

OtherCommands == Foreground \cup {<<amp>> \o Line(<<Name.r, Name.f>>), <<amp>> \o Line(<<Name.w, Name.f, <<122>>>>)}

Commands ==
  {[lines |-> lines, files |-> Programs @@ (Name.f :> <<120, 121>>)] :
     lines \in {<<OtherCommands, Copies, OtherCommands>>, <<Copies, OtherCommands, OtherCommands>>}}

MCSessions == Typing \cup Commands

=============================================================================
