----------------------------- MODULE MCPrograms -----------------------------
(* A disk as the build makes it, without the files nobody opens, scaled to  *)
(* four records per block.                                                  *)
EXTENDS Programs

MCWords == {"boot", "home", "system", "ome", "init", "user", "shell", "setup",
            "cfg", "bin", "a", "x", "longext", "longex"}

MCBeheaded == [w \in MCWords |-> IF w = "home" THEN <<"ome">> ELSE IF w = "a" THEN <<>> ELSE <<w>>]
MCCropped == [w \in MCWords |-> IF w = "longext" THEN "longex" ELSE w]

Dir(d) == [Zero[1] EXCEPT !.name = <<d>>, !.table = d]
File(n, e, d) ==
  [Zero[1] EXCEPT !.name = <<n>>, !.ext = <<e>>, !.data = d, !.size = Block]

MCImage ==
  [root |-> [Zero EXCEPT ![1] = Dir("boot"), ![2] = Dir("system"), ![3] = Dir("home")],
   boot |-> Zero,
   home |-> [Zero EXCEPT ![1] = File("init", "bin", <<"init">>),
                         ![2] = [File("init", "cfg", <<"x">>) EXCEPT !.size = 1],
                         ![3] = File("shell", "bin", <<"shell">>)],
   system |-> [Zero EXCEPT ![1] = File("setup", "bin", <<"setup">>)],
   block0 |-> [Zero EXCEPT ![1].name = <<"boot code">>]]

\* A disk with room for one record in root and in home, and a full one.
MCImages ==
  {MCImage,
   [MCImage EXCEPT !.root[4] = [Zero[1] EXCEPT !.name = <<"licence">>],
                   !.home[4] = [Zero[1] EXCEPT !.name = <<"notepad">>],
                   !.block0 = [s \in 1 .. Slots |-> [Zero[1] EXCEPT !.name = <<"boot code">>]]]}

MCCode == {<<"init">>, <<"shell">>, <<"setup">>}

P(n) == <<"/">> \o n
\* "/a" as the user of "write /a x" types it, and "/home/user" of "is /home/user cfg".
MCArgs ==
  {P(<<"a">>), <<"a">>, P(<<".", "a">>), P(<<"a", ".", "longext">>), P(<<"home">>),
   UserCfg, Tail(UserCfg), InitCfg, P(<<"home", "/">>),
   P(<<"home", "/", "init", ".", "bin">>),
   P(<<"a", Nul, "x">>), P(<<"a", ".", "x">>), P(<<"home", "/", "user", Nul, "cfg">>)}

MCTexts == {<<>>, <<"x">>}
MCKeys == {"k", Back}

\* The last answer does not matter to what comes.
MCView == <<tables, prog, typed, strange, vain>>
=============================================================================
