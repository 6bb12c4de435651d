--------------------------- MODULE ProgramsProofs ---------------------------
(***************************************************************************)
(* If user.cfg is there, it holds a name, and the shell's commands are     *)
(* those of FileStore: for any image, any paths, texts and keys, and any   *)
(* sequence of commands, programs and power cuts, but for the causes the   *)
(* model names.                                                            *)
(***************************************************************************)
EXTENDS Programs, FiniteSetTheorems, WellFoundedInduction, TLAPS

(* A set of numbers has a least one.                                       *)
LEMMA LeastOf ==
  ASSUME NEW T, T \subseteq Nat, T # {}
  PROVE  \E x \in T : \A y \in T : x <= y
<1> DEFINE R == OpToRel(<, Nat)
<1>1. \A x, y \in Nat : y < x => <<y, x>> \in R
  BY DEF OpToRel
<1>2. IsWellFoundedOn(R, Nat)
  BY NatLessThanWellFounded
<1> HIDE DEF R
<1>3. PICK x \in T : \A y \in T : ~(<<y, x>> \in R)
  BY <1>2, WFMin
<1>4. \A y \in T : ~(y < x)
  BY <1>1, <1>3
<1>5. \A y \in T : x <= y
  BY <1>4
<1> QED
  BY <1>5

-----------------------------------------------------------------------------
(* Paths.                                                                  *)

Symbols == Words \cup {"/", ".", Nul}

(* The end of a name or of a path.                                         *)
LEMMA EndOf ==
  ASSUME NEW S, NEW s \in Seq(S), NEW C
  PROVE  /\ End(s, C) \in 1 .. Len(s) + 1
         /\ \A i \in 1 .. End(s, C) - 1 : s[i] \notin C
         /\ End(s, C) <= Len(s) => s[End(s, C)] \in C
<1> DEFINE T == {Len(s) + 1} \cup {i \in 1 .. Len(s) : s[i] \in C}
<1>1. Len(s) \in Nat /\ T \subseteq 1 .. Len(s) + 1 /\ T # {}
  OBVIOUS
<1>2. \A i \in 1 .. Len(s) : s[i] \in C <=> i \in T
  OBVIOUS
<1>3. End(s, C) = Min(T)
  BY DEF End
<1> HIDE DEF T
<1>4. PICK x \in T : \A y \in T : x <= y
  <2>1. T \subseteq Nat
    BY <1>1
  <2> QED
    BY <1>1, <2>1, LeastOf
<1>5. Min(T) \in T /\ \A y \in T : Min(T) <= y
  BY <1>4 DEF Min
<1>6. PICK m : m = Min(T)
  OBVIOUS
<1>7. m \in T /\ m \in 1 .. Len(s) + 1 /\ \A y \in T : m <= y
  BY <1>1, <1>5, <1>6
<1>8. \A i \in 1 .. m - 1 : s[i] \notin C
  BY <1>1, <1>2, <1>7
<1> QED
  BY <1>1, <1>2, <1>3, <1>6, <1>7, <1>8

LEMMA EndIs ==
  ASSUME NEW S, NEW s \in Seq(S), NEW C, NEW m \in 1 .. Len(s) + 1,
         \A i \in 1 .. m - 1 : s[i] \notin C, m <= Len(s) => s[m] \in C
  PROVE  End(s, C) = m
<1>1. PICK e : e = End(s, C)
  OBVIOUS
<1>2. /\ e \in 1 .. Len(s) + 1 /\ \A i \in 1 .. e - 1 : s[i] \notin C
      /\ e <= Len(s) => s[e] \in C
  BY <1>1, EndOf
<1> QED
  BY <1>1, <1>2

(* A path alone is what comes before its end.                              *)
LEMMA ShownPart ==
  ASSUME NEW S, NEW s \in Seq(S)
  PROVE  /\ Shown(s) \in Seq(S) /\ Len(Shown(s)) \in 0 .. Len(s)
         /\ \A i \in 1 .. Len(Shown(s)) : s[i] # Nul
<1>1. PICK e : e = End(s, {Nul})
  OBVIOUS
<1>2. e \in 1 .. Len(s) + 1 /\ \A i \in 1 .. e - 1 : s[i] \notin {Nul}
  BY <1>1, EndOf
<1>3. Shown(s) = SubSeq(s, 1, e - 1)
  BY <1>1 DEF Shown
<1>4. SubSeq(s, 1, e - 1) \in Seq(S) /\ Len(SubSeq(s, 1, e - 1)) = e - 1
  BY <1>2
<1> QED
  BY <1>2, <1>3, <1>4

LEMMA PartIn ==
  ASSUME NEW S, NEW s \in Seq(S), NEW m \in 1 .. Len(s) + 1, NEW n \in 0 .. Len(s)
  PROVE  SubSeq(s, m, n) \in Seq(S)
OBVIOUS

LEMMA ShownWhole ==
  ASSUME NEW S, NEW s \in Seq(S), \A i \in 1 .. Len(s) : s[i] # Nul
  PROVE  Shown(s) = s
<1>1. PICK e : e = End(s, {Nul})
  OBVIOUS
<1>2. e \in 1 .. Len(s) + 1 /\ (e <= Len(s) => s[e] \in {Nul})
  BY <1>1, EndOf
<1>3. e = Len(s) + 1
  BY <1>2
<1>4. SubSeq(s, 1, e - 1) = s
  BY <1>3
<1> QED
  BY <1>1, <1>4 DEF Shown

(* A path has finitely many directories.                                   *)
LEMMA BetweenIsFinite ==
  ASSUME NEW path \in Seq(Symbols)
  PROVE  /\ Len(Between(path)) \in Nat
         /\ Between(path) = [k \in 1 .. Len(Between(path)) |-> Between(path)[k]]
<1> DEFINE slashes == {i \in 1 .. Len(path) : path[i] = "/"}
<1>1. Cardinality(slashes) \in Nat
  <2>1. IsFiniteSet(1 .. Len(path))
    BY FS_Interval
  <2>2. slashes \subseteq 1 .. Len(path)
    OBVIOUS
  <2> HIDE DEF slashes
  <2> QED
    BY <2>1, <2>2, FS_Subset, FS_CardinalityType
<1> DEFINE c == Cardinality(slashes)
           slash(k) == CHOOSE i \in slashes : Cardinality({j \in slashes : j <= i}) = k
           name(k) == SubSeq(path, slash(k) + 1, slash(k + 1) - 1)
<1>2. Between(path) = [k \in 1 .. c - 1 |-> name(k)]
  BY DEF Between
<1> HIDE DEF c, slash, name, slashes
<1>3. CASE c = 0
  <2>1. 1 .. c - 1 = 1 .. 0
    BY <1>3
  <2>2. Between(path) = [k \in 1 .. 0 |-> name(k)]
    BY <1>2, <2>1
  <2> QED
    BY <2>2
<1>4. CASE c # 0
  <2>1. c - 1 \in Nat
    BY <1>1, <1>4 DEF c
  <2> QED
    BY <1>2, <2>1
<1> QED
  BY <1>3, <1>4

(* What a path is taken apart into.                                        *)
LEMMA PartsOfPaths ==
  ASSUME NEW p \in Paths
  PROVE  /\ Len(Parts[p].dirs) \in Nat
         /\ Parts[p].dirs = [k \in 1 .. Len(Parts[p].dirs) |-> Parts[p].dirs[k]]
         /\ Parts[p] = [dirs |-> Parts[p].dirs, name |-> Parts[p].name, ext |-> Parts[p].ext]
<1>1. Parts[p] = Split(p)
  BY DEF Parts
<1>2. p \in Seq(Symbols)
  <2>1. ShellBin \in Seq(Symbols) /\ SetupBin \in Seq(Symbols)
    BY ProgramsAssumption DEF ShellBin, SetupBin, Symbols
  <2>2. InitCfg \in Seq(Symbols) /\ UserCfg \in Seq(Symbols)
    BY ProgramsAssumption DEF InitCfg, UserCfg, Symbols
  <2> QED
    BY <2>1, <2>2, ProgramsAssumption DEF Paths, Symbols
<1> DEFINE q == Shown(p)
           l == LastSlash(q)
           front == SubSeq(p, 1, l)
<1>8. Len(q) \in 0 .. Len(p) /\ \A i \in 1 .. Len(q) : p[i] # Nul
  BY <1>2, ShownPart
<1> HIDE DEF q
<1>3. l \in 0 .. Len(q)
  <2> DEFINE S == {0} \cup {i \in 1 .. Len(q) : q[i] = "/"}
  <2>1. S \subseteq 0 .. Len(q) /\ 0 \in S /\ Len(q) \in Nat
    BY <1>8
  <2> HIDE DEF S
  <2>2. \E m \in S : \A y \in S : m >= y
    <3> DEFINE T == {n \in Nat : Len(q) - n \in S}
    <3>1. T \subseteq Nat /\ Len(q) \in T
      BY <2>1
    <3>2. PICK n \in T : \A y \in T : n <= y
      <4> HIDE DEF T
      <4> QED
        BY <3>1, LeastOf
    <3>3. Len(q) - n \in S /\ n \in Nat
      OBVIOUS
    <3>4. ASSUME NEW y \in S PROVE Len(q) - n >= y
      <4>1. Len(q) - y \in Nat /\ Len(q) - (Len(q) - y) = y
        BY <2>1
      <4>2. Len(q) - y \in T
        BY <4>1
      <4>3. n <= Len(q) - y
        BY <3>2, <4>2
      <4> QED
        BY <2>1, <3>3, <4>3
    <3> QED
      BY <3>3, <3>4
  <2>3. Max(S) \in S
    BY <2>2 DEF Max
  <2> QED
    BY <2>1, <2>3 DEF LastSlash, S
<1>4. front \in Seq(Symbols) /\ \A i \in 1 .. Len(front) : front[i] # Nul
  <2> HIDE DEF l
  <2> QED
    BY <1>2, <1>3, <1>8
<1> HIDE DEF front
<1>5. Forced(front) \in Seq(Symbols)
  <2>1. CASE front = <<>>
    <3>1. Forced(front) = <<"/">>
      BY <2>1 DEF Forced, Is
    <3> QED
      BY <3>1 DEF Symbols
  <2>2. CASE front # <<>> /\ Is(front, 1, "/")
    <3>1. Forced(front) = front
      BY <2>2 DEF Forced, Is
    <3> QED
      BY <1>4, <3>1
  <2>3. CASE front # <<>> /\ ~Is(front, 1, "/") /\ Is(front, 1, ".")
    <3>1. Forced(front) = <<"/">> \o Tail(front)
      BY <2>3 DEF Forced, Is
    <3> QED
      BY <1>4, <2>3, <3>1 DEF Symbols
  <2>4. CASE front # <<>> /\ ~Is(front, 1, "/") /\ ~Is(front, 1, ".")
    <3>1. Forced(front) = <<"/">> \o Beheaded[front[1]] \o Tail(front)
      BY <2>4 DEF Forced, Is
    <3>2. front[1] \in Words
      <4>1. 1 \in 1 .. Len(front) /\ front[1] \in Symbols /\ front[1] # Nul
        BY <1>4, <2>4
      <4> QED
        BY <2>4, <4>1 DEF Is, Symbols
    <3>3. Beheaded[front[1]] \in Seq(Symbols)
      <4>1. Beheaded[front[1]] \in {<<>>} \cup {<<w>> : w \in Words}
        BY <3>2, PathsAssumption
      <4>2. CASE Beheaded[front[1]] = <<>>
        BY <4>2
      <4>3. ASSUME NEW w \in Words, Beheaded[front[1]] = <<w>>
            PROVE  Beheaded[front[1]] \in Seq(Symbols)
        BY <4>3 DEF Symbols
      <4> QED
        BY <4>1, <4>2, <4>3
    <3> QED
      BY <1>4, <2>4, <3>1, <3>3 DEF Symbols
  <2> QED
    BY <2>1, <2>2, <2>3, <2>4
<1>6. Parts[p].dirs = Between(Forced(front))
  BY <1>1 DEF Split, front, q
<1>7. Parts[p] = [dirs |-> Parts[p].dirs, name |-> Parts[p].name, ext |-> Parts[p].ext]
  BY <1>1 DEF Split
<1> QED
  BY <1>5, <1>6, <1>7, BetweenIsFinite

(* user.cfg is called so.                                                  *)
LEMMA UserCfgIsNamed ==
  /\ UserCfg \in Paths
  /\ Parts[UserCfg].name \notin {<<>>, Deleted}
<1>1. UserCfg \in Paths /\ Parts[UserCfg] = Split(UserCfg)
  BY DEF Paths, Parts
<1>2. Len(UserCfg) = 6 /\ UserCfg[1] = "/" /\ UserCfg[2] = "home" /\ UserCfg[3] = "/"
      /\ UserCfg[4] = "user" /\ UserCfg[5] = "." /\ UserCfg[6] = "cfg"
  BY DEF UserCfg
<1>10. Shown(UserCfg) = UserCfg
  <2>1. Nul \notin {"/", ".", "home", "user", "cfg"}
    BY DEF Nul
  <2>2. UserCfg \in Seq(Symbols) /\ \A i \in 1 .. Len(UserCfg) : UserCfg[i] # Nul
    BY <1>2, <2>1, ProgramsAssumption DEF UserCfg, Symbols
  <2> QED
    BY <2>2, ShownWhole
<1>3. LastSlash(UserCfg) = 3
  <2> DEFINE S == {0} \cup {i \in 1 .. Len(UserCfg) : UserCfg[i] = "/"}
  <2>1. 3 \in S /\ \A y \in S : y \in Int /\ 3 >= y
    BY <1>2
  <2>2. Max(S) \in S /\ \A y \in S : Max(S) >= y
    <3> HIDE DEF S
    <3> QED
      BY <2>1 DEF Max
  <2>3. Max(S) >= 3 /\ 3 >= Max(S) /\ Max(S) \in Int
    <3> HIDE DEF S
    <3> QED
      BY <2>1, <2>2
  <2> HIDE DEF S
  <2>4. Max(S) = 3
    BY <2>3
  <2> QED
    BY <2>4 DEF LastSlash, S
<1> DEFINE rest == SubSeq(UserCfg, 4, 6)
<1>4. /\ UserCfg \in Seq(Symbols) /\ rest \in Seq(Symbols)
      /\ Len(rest) = 3 /\ rest[1] = "user" /\ rest[2] = "." /\ rest[3] = "cfg"
  <2>1. UserCfg \in Seq(Symbols)
    BY ProgramsAssumption DEF UserCfg, Symbols
  <2>2. rest \in Seq(Symbols)
    <3>1. 4 \in 1 .. Len(UserCfg) + 1 /\ 6 \in 0 .. Len(UserCfg)
      BY <1>2
    <3>2. \A S : UserCfg \in Seq(S) => SubSeq(UserCfg, 4, 6) \in Seq(S)
      BY <3>1, PartIn
    <3> QED
      BY <2>1, <3>2
  <2>3. Len(rest) = 3 /\ rest[1] = "user" /\ rest[2] = "." /\ rest[3] = "cfg"
    BY <1>2, <2>1
  <2> QED
    BY <2>1, <2>2, <2>3
<1> HIDE DEF rest
<1>5. End(rest, {".", Nul}) = 2
  <2>1. rest \in Seq(Symbols)
    BY <1>4
  <2>2. 2 \in 1 .. Len(rest) + 1 /\ rest[1] \notin {".", Nul} /\ rest[2] \in {".", Nul}
    BY <1>4 DEF Nul
  <2>3. \A i \in 1 .. 2 - 1 : rest[i] \notin {".", Nul}
    BY <2>2
  <2> QED
    BY <2>1, <2>2, <2>3, EndIs
<1>6. Split(UserCfg).name = SubSeq(rest, 1, 1)
  <2>1. SubSeq(UserCfg, LastSlash(Shown(UserCfg)) + 1, Len(UserCfg)) = rest
    BY <1>2, <1>3, <1>10 DEF rest
  <2> HIDE DEF rest
  <2>2. Split(UserCfg).name = SubSeq(rest, 1, End(rest, {".", Nul}) - 1)
    BY <2>1 DEF Split
  <2> QED
    BY <1>5, <2>2
<1> DEFINE name == SubSeq(rest, 1, 1)
<1>7. Len(name) = 1 /\ name[1] = "user"
  BY <1>4
<1> HIDE DEF name
<1>8. name # <<>>
  BY <1>7
<1>9. name # Deleted
  <2>1. Deleted[1] # "user"
    BY DEF Deleted
  <2> QED
    BY <1>7, <2>1
<1> QED
  BY <1>1, <1>6, <1>8, <1>9 DEF name

-----------------------------------------------------------------------------
(* Directories.                                                            *)

Into(S, d) == UNION {Enter(t, d) : t \in S}

\* h holds the tables a path leads to, level by level.
Walk(d, h) ==
  /\ h[0] = {"root"}
  /\ \A n \in 1 .. Len(d) : h[n] = Into(h[n - 1], d[n])
  /\ Directory(d) = h[Len(d)]

AllWalk == \A d : Len(d) \in Nat => \E h : Walk(d, h)

LEMMA DirectoryUnfolds == AllWalk
<1> SUFFICES ASSUME NEW d, Len(d) \in Nat PROVE \E h : Walk(d, h)
  BY DEF AllWalk
<1> DEFINE N == Len(d)
           After(f) == f = [n \in 0 .. N |-> IF n = 0 THEN {"root"} ELSE Into(f[n - 1], d[n])]
           Prefix(f, m) == f[0] = {"root"} /\ \A n \in 1 .. m : f[n] = Into(f[n - 1], d[n])
<1>1. Directory(d) = (CHOOSE f : After(f))[N]
  BY DEF Directory, Into
<1>2. N \in Nat
  OBVIOUS
<1> HIDE DEF N
<1>3. \A m \in 0 .. N : \E f : Prefix(f, m)
  <2> DEFINE T == {m \in 0 .. N : ~ \E f : Prefix(f, m)}
  <2> SUFFICES ASSUME T # {} PROVE FALSE
    OBVIOUS
  <2>1. T \subseteq Nat
    BY <1>2
  <2>2. PICK m \in T : \A n \in T : m <= n
    <3> HIDE DEF T
    <3> QED
      BY <2>1, LeastOf
  <2>3. CASE m = 0
    <3>1. Prefix([n \in {0} |-> {"root"}], 0)
      OBVIOUS
    <3> QED
      BY <2>2, <2>3, <3>1
  <2>4. CASE m # 0
    <3>1. m - 1 \in 0 .. N /\ m - 1 \notin T /\ m \in 1 .. N
      <4>1. m \in 0 .. N
        OBVIOUS
      <4> HIDE DEF T
      <4> QED
        BY <1>2, <2>2, <2>4, <4>1
    <3>2. PICK f : Prefix(f, m - 1)
      BY <3>1
    <3> DEFINE g == [n \in 0 .. m |-> IF n = m THEN Into(f[m - 1], d[m]) ELSE f[n]]
    <3>3. g[0] = {"root"}
      BY <3>1, <3>2
    <3>4. \A n \in 1 .. m : g[n] = Into(g[n - 1], d[n])
      BY <3>1, <3>2
    <3>5. Prefix(g, m)
      BY <3>3, <3>4
    <3> QED
      BY <2>2, <3>5
  <2> QED
    BY <2>3, <2>4
<1>4. \E f : After(f)
  <2>1. PICK f : Prefix(f, N)
    <3>1. N \in 0 .. N
      BY <1>2
    <3> HIDE DEF Prefix
    <3> QED
      BY <1>3, <3>1
  <2> DEFINE g == [n \in 0 .. N |-> f[n]]
  <2>2. ASSUME NEW n \in 0 .. N
        PROVE  g[n] = IF n = 0 THEN {"root"} ELSE Into(g[n - 1], d[n])
    <3>1. CASE n = 0
      BY <2>1, <3>1
    <3>2. CASE n # 0
      <4>1. n \in 1 .. N /\ n - 1 \in 0 .. N
        BY <1>2, <3>2
      <4>2. g[n] = f[n] /\ g[n - 1] = f[n - 1]
        BY <4>1
      <4>3. f[n] = Into(f[n - 1], d[n])
        BY <2>1, <4>1
      <4> QED
        BY <3>2, <4>2, <4>3
    <3> QED
      BY <3>1, <3>2
  <2>3. g = [n \in 0 .. N |-> g[n]]
    OBVIOUS
  <2> HIDE DEF g
  <2>4. After(g)
    BY <2>2, <2>3
  <2> QED
    BY <2>4
<1> DEFINE h == CHOOSE f : After(f)
<1>5. After(h)
  BY <1>4
<1>6. Directory(d) = h[N]
  BY <1>1
<1> HIDE DEF h
<1>7. h[0] = {"root"} /\ \A n \in 1 .. N : h[n] = Into(h[n - 1], d[n])
  <2>1. h = [n \in 0 .. N |-> IF n = 0 THEN {"root"} ELSE Into(h[n - 1], d[n])]
    BY <1>5
  <2>2. \A n \in 0 .. N : h[n] = IF n = 0 THEN {"root"} ELSE Into(h[n - 1], d[n])
    BY <2>1
  <2> QED
    BY <1>2, <2>2
<1> QED
  BY <1>6, <1>7 DEF Walk, N

(* A name leads from a table to at most one, by the one record of that.    *)
LEMMA EnteredOnce ==
  ASSUME Sound(tables), NEW t \in DOMAIN tables, NEW d
  PROVE  /\ \A u, v \in Enter(t, d) : u = v
         /\ \A u \in Enter(t, d) :
              /\ u \in DOMAIN tables \ {"root", "block0", "none"}
              /\ \E s \in 1 .. Slots : tables[t][s].table = u /\ tables[t][s].name = d
<1> DEFINE match(s) == tables[t][s].name = d /\ tables[t][s].table # "none"
           first(r) == match(r) /\ \A q \in 1 .. r - 1 : tables[t][q].name # <<>> /\ ~match(q)
<1>1. Enter(t, d) = {tables[t][s].table : s \in {r \in 1 .. Slots : first(r)}}
  BY DEF Enter
<1>2. \A u \in Enter(t, d) : \E r \in 1 .. Slots : first(r) /\ u = tables[t][r].table
  BY <1>1
<1>3. \A r, s \in 1 .. Slots : first(r) /\ first(s) => r = s
  <2> SUFFICES ASSUME NEW r \in 1 .. Slots, NEW s \in 1 .. Slots, first(r), first(s), r < s
               PROVE  FALSE
    BY ProgramsAssumption
  <2>1. r \in 1 .. s - 1
    BY ProgramsAssumption
  <2> QED
    BY <2>1
<1>4. \A s \in 1 .. Slots : tables[t][s].table \in DOMAIN tables \cup {"none"}
  BY DEF Sound, Shaped
<1>5. \A s \in 1 .. Slots : tables[t][s].table # "none" => tables[t][s].table \notin {"root", "block0"}
  BY DEF Sound, OneOwner
<1> QED
  BY <1>2, <1>3, <1>4, <1>5

LEMMA WalkIsApart ==
  ASSUME Sound(tables), NEW d, NEW h, Len(d) \in Nat, Walk(d, h)
  PROVE  \A n \in 0 .. Len(d) : h[n] \subseteq DOMAIN tables \ {"block0"} /\ \A u, v \in h[n] : u = v
<1> DEFINE Good(n) == h[n] \subseteq DOMAIN tables \ {"block0"} /\ \A u, v \in h[n] : u = v
           T == {n \in 0 .. Len(d) : ~Good(n)}
<1> SUFFICES ASSUME T # {} PROVE FALSE
  OBVIOUS
<1>1. T \subseteq Nat
  OBVIOUS
<1>2. PICK m \in T : \A n \in T : m <= n
  <2> HIDE DEF T
  <2> QED
    BY <1>1, LeastOf
<1>3. m \in 0 .. Len(d) /\ ~Good(m)
  OBVIOUS
<1>4. Good(0)
  BY DEF Walk, Sound, Shaped
<1>5. m \in 1 .. Len(d) /\ m - 1 \in 0 .. Len(d) /\ m - 1 \notin T
  <2> HIDE DEF T, Good
  <2> QED
    BY <1>2, <1>3, <1>4
<1>6. Good(m - 1)
  BY <1>5
<1>7. h[m] = Into(h[m - 1], d[m])
  BY <1>5 DEF Walk
<1>8. Good(m)
  <2>1. \A u \in h[m] : \E t \in h[m - 1] : u \in Enter(t, d[m])
    BY <1>7 DEF Into
  <2>2. \A t \in h[m - 1] : t \in DOMAIN tables
    BY <1>6
  <2>3. \A u \in h[m] : u \in DOMAIN tables \ {"block0"}
    BY <2>1, <2>2, EnteredOnce
  <2>4. ASSUME NEW u \in h[m], NEW v \in h[m] PROVE u = v
    <3>1. PICK t \in h[m - 1] : u \in Enter(t, d[m])
      BY <2>1
    <3>2. v \in Enter(t, d[m])
      BY <1>6, <2>1, <3>1
    <3> QED
      BY <2>2, <3>1, <3>2, EnteredOnce
  <2> QED
    BY <2>3, <2>4
<1> QED
  BY <1>3, <1>8

(* A path leads to one directory at most, which is not block 0.            *)
LEMMA DirectoryIsOne ==
  ASSUME Sound(tables), NEW d, Len(d) \in Nat
  PROVE  /\ Directory(d) \subseteq DOMAIN tables \ {"block0"}
         /\ \A t, u \in Directory(d) : t = u
<1>1. PICK h : Walk(d, h)
  BY DirectoryUnfolds DEF AllWalk
<1>2. Directory(d) = h[Len(d)] /\ Len(d) \in 0 .. Len(d)
  BY <1>1 DEF Walk
<1>3. h[Len(d)] \subseteq DOMAIN tables \ {"block0"} /\ \A u, v \in h[Len(d)] : u = v
  BY <1>1, <1>2, WalkIsApart
<1> QED
  BY <1>2, <1>3

(* Different paths lead to different directories.                          *)
LEMMA LeadsApart ==
  ASSUME Sound(tables), NEW d, NEW e, Len(d) \in Nat, Len(e) \in Nat,
         NEW t, t \in Directory(d), t \in Directory(e)
  PROVE  Len(d) = Len(e) /\ \A k \in 1 .. Len(d) : d[k] = e[k]
<1>1. PICK h : Walk(d, h)
  BY DirectoryUnfolds DEF AllWalk
<1>2. PICK g : Walk(e, g)
  BY DirectoryUnfolds DEF AllWalk
<1>3. /\ \A n \in 0 .. Len(d) : h[n] \subseteq DOMAIN tables
      /\ \A n \in 0 .. Len(e) : g[n] \subseteq DOMAIN tables
  BY <1>1, <1>2, WalkIsApart
<1>4. /\ h[0] = {"root"} /\ \A n \in 1 .. Len(d) : h[n] = Into(h[n - 1], d[n])
      /\ g[0] = {"root"} /\ \A n \in 1 .. Len(e) : g[n] = Into(g[n - 1], e[n])
      /\ t \in h[Len(d)] /\ t \in g[Len(e)]
  BY <1>1, <1>2 DEF Walk
<1>5. \A n \in 1 .. Len(d) : \A x \in h[n] : \E y \in h[n - 1] : y \in DOMAIN tables /\ x \in Enter(y, d[n])
  BY <1>3, <1>4 DEF Into
<1>6. \A n \in 1 .. Len(e) : \A x \in g[n] : \E y \in g[n - 1] : y \in DOMAIN tables /\ x \in Enter(y, e[n])
  BY <1>3, <1>4 DEF Into
<1> DEFINE P(m) == \A n \in 0 .. Len(e), x \in h[m] :
                     x \in g[n] => m = n /\ \A k \in 1 .. m : d[k] = e[k]
           T == {m \in 0 .. Len(d) : ~P(m)}
<1>7. T = {}
  <2> SUFFICES ASSUME T # {} PROVE FALSE
    OBVIOUS
  <2>1. T \subseteq Nat
    OBVIOUS
  <2>2. PICK m \in T : \A n \in T : m <= n
    <3> HIDE DEF T
    <3> QED
      BY <2>1, LeastOf
  <2>3. m \in 0 .. Len(d) /\ ~P(m)
    OBVIOUS
  <2>4. \A n \in 1 .. Len(e) : "root" \notin g[n]
    BY <1>6, EnteredOnce
  <2>5. P(0)
    BY <1>4, <2>4
  <2>6. m \in 1 .. Len(d) /\ m - 1 \in 0 .. Len(d) /\ m - 1 \notin T
    <3> HIDE DEF T, P
    <3> QED
      BY <2>2, <2>3, <2>5
  <2>7. P(m - 1)
    BY <2>6
  <2>8. P(m)
    <3> SUFFICES ASSUME NEW n \in 0 .. Len(e), NEW x \in h[m], x \in g[n]
                 PROVE  m = n /\ \A k \in 1 .. m : d[k] = e[k]
      OBVIOUS
    <3>1. PICK y \in h[m - 1] : y \in DOMAIN tables /\ x \in Enter(y, d[m])
      BY <1>5, <2>6
    <3>2. x # "root" /\ x # "none"
      BY <3>1, EnteredOnce
    <3>3. n \in 1 .. Len(e) /\ n - 1 \in 0 .. Len(e)
      BY <1>4, <3>2
    <3>4. PICK z \in g[n - 1] : z \in DOMAIN tables /\ x \in Enter(z, e[n])
      BY <1>6, <3>3
    <3>5. PICK r \in 1 .. Slots : tables[y][r].table = x /\ tables[y][r].name = d[m]
      BY <3>1, EnteredOnce
    <3>6. PICK s \in 1 .. Slots : tables[z][s].table = x /\ tables[z][s].name = e[n]
      BY <3>4, EnteredOnce
    <3>7. y = z /\ r = s
      BY <3>1, <3>2, <3>4, <3>5, <3>6 DEF Sound, OneOwner
    <3>8. d[m] = e[n]
      BY <3>5, <3>6, <3>7
    <3>9. m - 1 = n - 1 /\ \A k \in 1 .. m - 1 : d[k] = e[k]
      BY <2>7, <3>3, <3>4, <3>7
    <3>10. m = n
      BY <2>6, <3>3, <3>9
    <3>11. \A k \in 1 .. m : k = m \/ k \in 1 .. m - 1
      BY <2>6
    <3> QED
      BY <3>8, <3>9, <3>10, <3>11
  <2> QED
    BY <2>3, <2>8
<1>8. P(Len(d))
  BY <1>7
<1> QED
  BY <1>4, <1>8

(* As long as every table leads where it did, so does every path.          *)
LEMMA SameDirectory ==
  ASSUME Sound(tables), NEW d, Len(d) \in Nat,
         \A t \in DOMAIN tables \ {"block0"} : \A n : Enter(t, n)' = Enter(t, n)
  PROVE  Directory(d)' = Directory(d)
<1>1. PICK h : Walk(d, h)
  BY DirectoryUnfolds DEF AllWalk
<1>2. AllWalk'
  BY DirectoryUnfolds, PTL
<1>3. PICK g : Walk(d, g)'
  BY <1>2 DEF AllWalk
<1>4. /\ h[0] = {"root"} /\ \A n \in 1 .. Len(d) : h[n] = Into(h[n - 1], d[n])
      /\ g[0] = {"root"} /\ \A n \in 1 .. Len(d) : g[n] = UNION {Enter(t, d[n])' : t \in g[n - 1]}
      /\ Directory(d) = h[Len(d)] /\ Directory(d)' = g[Len(d)]
  BY <1>1, <1>3 DEF Walk, Into
<1>5. \A n \in 0 .. Len(d) : h[n] \subseteq DOMAIN tables \ {"block0"}
  BY <1>1, WalkIsApart
<1> DEFINE T == {n \in 0 .. Len(d) : g[n] # h[n]}
<1>6. T = {}
  <2> SUFFICES ASSUME T # {} PROVE FALSE
    OBVIOUS
  <2>1. T \subseteq Nat
    OBVIOUS
  <2>2. PICK m \in T : \A n \in T : m <= n
    <3> HIDE DEF T
    <3> QED
      BY <2>1, LeastOf
  <2>3. m \in 0 .. Len(d) /\ g[m] # h[m]
    OBVIOUS
  <2>4. m \in 1 .. Len(d) /\ m - 1 \in 0 .. Len(d) /\ m - 1 \notin T
    <3>1. m # 0
      BY <1>4, <2>3
    <3> HIDE DEF T
    <3> QED
      BY <2>2, <2>3, <3>1
  <2>5. g[m - 1] = h[m - 1]
    BY <2>4
  <2>6. g[m] = UNION {Enter(t, d[m])' : t \in h[m - 1]}
    BY <1>4, <2>4, <2>5
  <2>7. \A t \in h[m - 1] : Enter(t, d[m])' = Enter(t, d[m])
    BY <1>5, <2>4
  <2>8. h[m] = UNION {Enter(t, d[m]) : t \in h[m - 1]}
    BY <1>4, <2>4 DEF Into
  <2>9. g[m] = h[m]
    BY <2>6, <2>7, <2>8
  <2> QED
    BY <2>3, <2>9
<1> QED
  BY <1>4, <1>6

-----------------------------------------------------------------------------
(* A record that is no directory, before and after.                        *)

Put(a, r) ==
  /\ a[1] \in DOMAIN tables /\ a[2] \in 1 .. Slots /\ a = <<a[1], a[2]>>
  /\ Stored(a, r)
  /\ DOMAIN r = DOMAIN Zero[1] /\ r.size \in 0 .. Block /\ r.table = "none" /\ Sized(r)
  /\ Record(a).table = "none"
  /\ Record(a).name # <<>> => r.name # <<>>
  /\ a[1] # "block0"
  /\ r.name # <<>> => \A q \in 1 .. a[2] - 1 : tables[a[1]][q].name # <<>>

LEMMA PairParts ==
  ASSUME NEW X, NEW Y, NEW a \in X \X Y
  PROVE  a[1] \in X /\ a[2] \in Y /\ a = <<a[1], a[2]>>
OBVIOUS

LEMMA PutRecord ==
  ASSUME Sound(tables), NEW a, NEW r, Put(a, r)
  PROVE  /\ DOMAIN tables' = DOMAIN tables
         /\ \A t \in DOMAIN tables :
              /\ DOMAIN tables'[t] = 1 .. Slots
              /\ \A s \in 1 .. Slots :
                   tables'[t][s] = IF t = a[1] /\ s = a[2] THEN r ELSE tables[t][s]
<1>1. /\ tables' = [tables EXCEPT ![a[1]][a[2]] = r]
      /\ a[1] \in DOMAIN tables /\ a[2] \in 1 .. Slots
  BY DEF Put, Stored
<1>2. \A t \in DOMAIN tables : DOMAIN tables[t] = 1 .. Slots
  BY DEF Sound, Shaped
<1> QED
  BY <1>1, <1>2

LEMMA PutIsSound ==
  ASSUME Sound(tables), NEW a, NEW r, Put(a, r)
  PROVE  Sound(tables)'
<1>1. /\ DOMAIN tables' = DOMAIN tables
      /\ \A t \in DOMAIN tables :
           /\ DOMAIN tables'[t] = 1 .. Slots
           /\ \A s \in 1 .. Slots :
                tables'[t][s] = IF t = a[1] /\ s = a[2] THEN r ELSE tables[t][s]
  BY PutRecord
<1>2. Shaped(tables)'
  <2>1. DOMAIN r = DOMAIN Zero[1] /\ r.size \in 0 .. Block /\ r.table = "none"
    BY DEF Put
  <2>2. /\ {"root", "block0"} \subseteq DOMAIN tables /\ "none" \notin DOMAIN tables
        /\ \A t \in DOMAIN tables, s \in 1 .. Slots :
             /\ DOMAIN tables[t][s] = DOMAIN Zero[1]
             /\ tables[t][s].table \in DOMAIN tables \cup {"none"}
             /\ tables[t][s].size \in 0 .. Block
    BY DEF Sound, Shaped
  <2>3. (DOMAIN Zero[1])' = DOMAIN Zero[1]
    BY DEF Zero
  <2> DEFINE fields == DOMAIN Zero[1]
  <2> HIDE DEF fields
  <2>4. \A t \in DOMAIN tables, s \in 1 .. Slots :
             /\ DOMAIN tables'[t][s] = fields
             /\ tables'[t][s].table \in DOMAIN tables \cup {"none"}
             /\ tables'[t][s].size \in 0 .. Block
    BY <1>1, <2>1, <2>2 DEF fields
  <2> QED
    BY <1>1, <2>2, <2>3, <2>4 DEF Shaped, fields
<1>3. InOrder(tables)'
  <2> SUFFICES ASSUME NEW t \in DOMAIN tables \ {"block0"}, NEW q \in 1 .. Slots, NEW s \in 1 .. Slots,
                      q < s, tables'[t][q].name = <<>>
               PROVE  tables'[t][s].name = <<>>
    BY <1>1 DEF InOrder
  <2>1. tables[t][q].name = <<>>
    BY <1>1 DEF Put, Record
  <2>2. tables[t][s].name = <<>>
    BY <2>1 DEF Sound, InOrder
  <2>3. CASE t = a[1] /\ s = a[2]
    <3>1. q \in 1 .. a[2] - 1
      BY <2>3, ProgramsAssumption
    <3> QED
      BY <1>1, <2>1, <2>3, <3>1 DEF Put
  <2> QED
    BY <1>1, <2>2, <2>3
<1>4. OneOwner(tables)'
  BY <1>1 DEF Sound, OneOwner, Put
<1>5. BootCode(tables)'
  <2>1. \A s \in 1 .. Slots : tables'["block0"][s] = tables["block0"][s]
    BY <1>1 DEF Put, Sound, Shaped
  <2>2. Paths' = Paths /\ \A q, p : Fits(q, p)' = Fits(q, p)
    BY DEF Paths, Fits, Parts, ShellBin, SetupBin, InitCfg, UserCfg
  <2> QED
    BY <2>1, <2>2 DEF Sound, BootCode
<1>6. UserCfgIsFile(tables)'
  <2>1. \A q : Fits(q, UserCfg)' = Fits(q, UserCfg)
    BY DEF Paths, Fits, Parts, ShellBin, SetupBin, InitCfg, UserCfg
  <2>2. r.table = "none"
    BY DEF Put
  <2> QED
    BY <1>1, <2>1, <2>2 DEF Sound, UserCfgIsFile
<1>7. HasHome(tables)'
  <2>1. "root" \in DOMAIN tables
    BY DEF Sound, Shaped
  <2>2. PICK h \in 1 .. Slots :
          /\ tables["root"][h].table = "home"
          /\ \A s \in 1 .. Slots :
               tables["root"][s].name = <<"home">> /\ tables["root"][s].table # "none" <=> s = h
    BY DEF Sound, HasHome
  <2>3. \A s \in 1 .. Slots :
          tables'["root"][s].table # "none" \/ tables["root"][s].table # "none" =>
            tables'["root"][s] = tables["root"][s]
    BY <1>1, <2>1 DEF Put, Record
  <2>4. tables'["root"][h].table = "home"
    BY <2>2, <2>3
  <2>5. \A s \in 1 .. Slots :
          tables'["root"][s].name = <<"home">> /\ tables'["root"][s].table # "none" <=> s = h
    BY <2>2, <2>3
  <2>6. "home" \in DOMAIN tables
    BY DEF Sound, HasHome
  <2> QED
    BY <1>1, <2>4, <2>5, <2>6 DEF HasHome
<1>8. (\A t \in DOMAIN tables, s \in 1 .. Slots : Sized(tables[t][s]))'
  <2>1. Sized(r) /\ \A t \in DOMAIN tables, s \in 1 .. Slots : Sized(tables[t][s])
    BY DEF Put, Sound
  <2>2. \A t \in DOMAIN tables, s \in 1 .. Slots : Sized(tables'[t][s])
    BY <1>1, <2>1
  <2> QED
    BY <1>1, <2>2 DEF Sized, Plain, Names
<1> QED
  BY <1>2, <1>3, <1>4, <1>5, <1>6, <1>7, <1>8 DEF Sound

LEMMA PutKeepsDirectories ==
  ASSUME Sound(tables), NEW a, NEW r, Put(a, r), NEW p \in Paths
  PROVE  Directory(Parts[p].dirs)' = Directory(Parts[p].dirs)
<1>1. ASSUME NEW t \in DOMAIN tables \ {"block0"}, NEW n
      PROVE  Enter(t, n)' = Enter(t, n)
  <2> DEFINE match(s) == tables[t][s].name = n /\ tables[t][s].table # "none"
             matchN(s) == tables'[t][s].name = n /\ tables'[t][s].table # "none"
             before == {s \in 1 .. Slots : match(s) /\ \A q \in 1 .. s - 1 : tables[t][q].name # <<>> /\ ~match(q)}
             after == {s \in 1 .. Slots : matchN(s) /\ \A q \in 1 .. s - 1 : tables'[t][q].name # <<>> /\ ~matchN(q)}
  <2>1. Enter(t, n) = {tables[t][s].table : s \in before} /\ Enter(t, n)' = {tables'[t][s].table : s \in after}
    BY DEF Enter
  <2>2. \A s \in 1 .. Slots :
          /\ tables'[t][s].table = tables[t][s].table
          /\ tables[t][s].table # "none" => tables'[t][s].name = tables[t][s].name
          /\ tables[t][s].name # <<>> => tables'[t][s].name # <<>>
    <3>1. \A s \in 1 .. Slots : tables'[t][s] = IF t = a[1] /\ s = a[2] THEN r ELSE tables[t][s]
      BY PutRecord
    <3>2. /\ r.table = "none" /\ tables[a[1]][a[2]].table = "none"
          /\ tables[a[1]][a[2]].name # <<>> => r.name # <<>>
      BY DEF Put, Record
    <3> QED
      BY <3>1, <3>2
  <2>3. \A s \in 1 .. Slots : matchN(s) <=> match(s)
    BY <2>2
  <2>4. \A s \in 1 .. Slots : \A q \in 1 .. s - 1 : q \in 1 .. Slots /\ q < s
    BY ProgramsAssumption
  <2>5. \A s \in 1 .. Slots : match(s) => \A q \in 1 .. s - 1 : tables[t][q].name # <<>>
    <3>1. \A s \in 1 .. Slots : match(s) => tables[t][s].name # <<>>
      BY DEF Sound, OneOwner
    <3> QED
      BY <2>4, <3>1 DEF Sound, InOrder
  <2>6. after = before
    BY <2>2, <2>3, <2>4, <2>5
  <2>7. \A s \in before : tables'[t][s].table = tables[t][s].table
    BY <2>2
  <2> HIDE DEF before, after
  <2> QED
    BY <2>1, <2>6, <2>7
<1>2. Len(Parts[p].dirs) \in Nat
  BY PartsOfPaths
<1>3. (Parts[p].dirs)' = Parts[p].dirs
  BY DEF Parts, Paths, ShellBin, SetupBin, InitCfg, UserCfg
<1> QED
  BY <1>1, <1>2, <1>3, SameDirectory

-----------------------------------------------------------------------------
(* What a path names.                                                      *)

First(t, p, a) ==
  /\ a \in Places(t) /\ Record(a).name # <<>> /\ Fits(Record(a), p)
  /\ \A b \in Places(t) : Earlier(b, a) => Record(b).name # <<>> /\ ~Fits(Record(b), p)

LEMMA HitsAreFirst ==
  ASSUME NEW p, NEW a
  PROVE  /\ a \in Hits(p) <=> \E t \in Directory(Parts[p].dirs) : First(t, p, a)
         /\ a \in Hits(p)' <=> \E t \in Directory(Parts[p].dirs)' : First(t, p, a)'
<1>1. a \in Hits(p) <=> \E t \in Directory(Parts[p].dirs) : First(t, p, a)
  BY DEF Hits, First
<1>2. a \in Hits(p)' <=> \E t \in Directory(Parts[p].dirs)' : First(t, p, a)'
  BY DEF Hits, First
<1> QED
  BY <1>1, <1>2

LEMMA PlaceParts ==
  ASSUME NEW t, NEW a \in Places(t)
  PROVE  a[1] \in {t, "block0"} /\ a[2] \in 1 .. Slots /\ a = <<a[1], a[2]>>
<1> DEFINE X == {t, "block0"}
           Y == 1 .. Slots
<1>1. a \in X \X Y
  BY DEF Places
<1> HIDE DEF X, Y
<1>2. a[1] \in X /\ a[2] \in Y /\ a = <<a[1], a[2]>>
  BY <1>1, PairParts
<1> QED
  BY <1>2 DEF X, Y

(* Of two places of a scan one comes first.                                *)
LEMMA PlacesInOrder ==
  ASSUME NEW t, NEW a \in Places(t), NEW b \in Places(t)
  PROVE  a = b \/ Earlier(a, b) \/ Earlier(b, a)
<1>1. /\ a[1] \in {t, "block0"} /\ a[2] \in 1 .. Slots /\ a = <<a[1], a[2]>>
      /\ b[1] \in {t, "block0"} /\ b[2] \in 1 .. Slots /\ b = <<b[1], b[2]>>
  BY PlaceParts
<1>2. CASE a[1] # b[1]
  BY <1>1, <1>2 DEF Earlier
<1>3. CASE a[1] = b[1]
  <2>1. a[2] = b[2] \/ a[2] < b[2] \/ b[2] < a[2]
    BY <1>1, ProgramsAssumption
  <2> QED
    BY <1>1, <1>3, <2>1 DEF Earlier
<1> QED
  BY <1>2, <1>3

(* fcheck finds one record at most, never one of the boot sector, and its  *)
(* place is in the directory.                                              *)
LEMMA HitIsOne ==
  ASSUME Sound(tables), NEW p \in Paths, NEW a \in Hits(p)
  PROVE  /\ \A b \in Hits(p) : b = a
         /\ First(a[1], p, a) /\ a[1] \in Directory(Parts[p].dirs)
         /\ a[1] \in DOMAIN tables \ {"block0"} /\ a[2] \in 1 .. Slots
         /\ a = <<a[1], a[2]>>
<1>1. PICK t \in Directory(Parts[p].dirs) : First(t, p, a)
  BY HitsAreFirst
<1>2. /\ Directory(Parts[p].dirs) \subseteq DOMAIN tables \ {"block0"}
      /\ \A u \in Directory(Parts[p].dirs) : u = t
  BY PartsOfPaths, DirectoryIsOne
<1>3. a[1] \in {t, "block0"} /\ a[2] \in 1 .. Slots /\ a = <<a[1], a[2]>>
  BY <1>1, PlaceParts DEF First
<1>4. a[1] # "block0"
  BY <1>1, <1>3 DEF Sound, BootCode, First, Record
<1>5. ASSUME NEW b \in Hits(p) PROVE b = a
  <2>1. First(t, p, b)
    BY <1>2, HitsAreFirst
  <2> QED
    BY <1>1, <2>1, PlacesInOrder DEF First
<1> QED
  BY <1>1, <1>2, <1>3, <1>4, <1>5

LEMMA HitIsRecord ==
  ASSUME Sound(tables), NEW p \in Paths, NEW a \in Hits(p)
  PROVE  /\ Record(a).name # <<>> /\ Fits(Record(a), p)
         /\ DOMAIN Record(a) = DOMAIN Zero[1] /\ Record(a).size \in 0 .. Block
         /\ \A q \in 1 .. a[2] - 1 : tables[a[1]][q].name # <<>>
<1>1. /\ First(a[1], p, a) /\ a[1] \in DOMAIN tables \ {"block0"} /\ a[2] \in 1 .. Slots
  BY HitIsOne
<1>2. Record(a).name # <<>> /\ Fits(Record(a), p)
  BY <1>1 DEF First
<1>3. DOMAIN Record(a) = DOMAIN Zero[1] /\ Record(a).size \in 0 .. Block
  BY <1>1 DEF Sound, Shaped, Record
<1>4. ASSUME NEW q \in 1 .. a[2] - 1 PROVE tables[a[1]][q].name # <<>>
  <2>1. q \in 1 .. Slots /\ q < a[2]
    BY <1>1, ProgramsAssumption
  <2> QED
    BY <1>1, <1>2, <2>1 DEF Sound, InOrder, Record
<1> QED
  BY <1>2, <1>3, <1>4

(* Where two paths meet, they are the same but for their spelling.         *)
LEMMA SamePlaceSameFile ==
  ASSUME Sound(tables), NEW p \in Paths, NEW q \in Paths, NEW t,
         t \in Directory(Parts[p].dirs), t \in Directory(Parts[q].dirs),
         Parts[p].name = Parts[q].name, Parts[p].ext = Parts[q].ext
  PROVE  Parts[p] = Parts[q]
<1> DEFINE d == Parts[p].dirs
           e == Parts[q].dirs
<1>1. /\ Len(d) \in Nat /\ d = [k \in 1 .. Len(d) |-> d[k]]
      /\ Len(e) \in Nat /\ e = [k \in 1 .. Len(e) |-> e[k]]
      /\ Parts[p] = [dirs |-> d, name |-> Parts[p].name, ext |-> Parts[p].ext]
      /\ Parts[q] = [dirs |-> e, name |-> Parts[q].name, ext |-> Parts[q].ext]
  BY PartsOfPaths
<1>2. Len(d) = Len(e) /\ \A k \in 1 .. Len(d) : d[k] = e[k]
  BY <1>1, LeadsApart
<1> HIDE DEF d, e
<1>3. d = e
  BY <1>1, <1>2
<1> QED
  BY <1>1, <1>3

(* A path that named another record than the changed one still does,       *)
(* unless it named the changed one, too, and that fits no more.            *)
LEMMA HitsAfterPut ==
  ASSUME Sound(tables), NEW a, NEW r, Put(a, r), NEW p \in Paths,
         NEW b \in Hits(p)', b # a
  PROVE  b \in Hits(p) \/ (a \in Hits(p) /\ ~Fits(r, p))
<1>1. Directory(Parts[p].dirs)' = Directory(Parts[p].dirs)
  BY PutKeepsDirectories
<1>2. PICK t \in Directory(Parts[p].dirs) : First(t, p, b)'
  BY <1>1, HitsAreFirst
<1>3. \A u \in Directory(Parts[p].dirs) : u \in DOMAIN tables \ {"block0"}
  BY PartsOfPaths, DirectoryIsOne
<1>4. /\ \A u, s : Fits(u, s)' = Fits(u, s)
      /\ Places(t)' = Places(t)
      /\ \A c, e : Earlier(c, e)' = Earlier(c, e)
  BY DEF Fits, Parts, Paths, ShellBin, SetupBin, InitCfg, UserCfg, Places, Earlier
<1>5. /\ b \in Places(t) /\ Record(b)'.name # <<>> /\ Fits(Record(b)', p)
      /\ \A c \in Places(t) : Earlier(c, b) => Record(c)'.name # <<>> /\ ~Fits(Record(c)', p)
  BY <1>2, <1>4 DEF First
<1>6. /\ "block0" \in DOMAIN tables /\ a[1] \in DOMAIN tables \ {"block0"} /\ a[2] \in 1 .. Slots
      /\ Record(a)' = r /\ (Record(a).name # <<>> => r.name # <<>>)
  BY PutRecord DEF Put, Record, Sound, Shaped
<1>7. ASSUME NEW c \in Places(t), c # <<a[1], a[2]>> PROVE Record(c)' = Record(c)
  <2>1. c[1] \in DOMAIN tables /\ c[2] \in 1 .. Slots /\ c = <<c[1], c[2]>>
    BY <1>3, <1>6, PlaceParts
  <2> QED
    BY <1>7, <2>1, PutRecord DEF Record
<1>8. b = <<b[1], b[2]>> /\ b[1] \in {t, "block0"} /\ b[2] \in 1 .. Slots
  BY <1>5, PlaceParts
<1>9. b[1] = t
  <2> SUFFICES ASSUME b[1] = "block0" PROVE FALSE
    BY <1>8
  <2>1. Record(b)' = Record(b)
    BY <1>5, <1>6, <1>7
  <2> QED
    BY <1>5, <1>8, <2>1 DEF Sound, BootCode, Record
<1>10. a = <<a[1], a[2]>>
  BY DEF Put
<1>11. Record(b) = Record(b)' /\ Record(b).name # <<>> /\ Fits(Record(b), p)
  BY <1>5, <1>7, <1>10
<1>12. CASE a \in Places(t) /\ Earlier(a, b)
  <2>1. a[1] = t /\ a[2] < b[2]
    BY <1>6, <1>9, <1>12, PlaceParts DEF Earlier
  <2>2. Record(a).name # <<>>
    BY <1>3, <1>6, <1>8, <1>9, <1>11, <2>1 DEF Sound, InOrder, Record
  <2>3. \A c \in Places(t) : Earlier(c, a) => Earlier(c, b) /\ c # a
    <3> SUFFICES ASSUME NEW c \in Places(t), Earlier(c, a) PROVE Earlier(c, b) /\ c # a
      OBVIOUS
    <3>1. c[1] = t /\ c[2] < a[2] /\ c[2] \in 1 .. Slots
      BY <1>6, <2>1, PlaceParts DEF Earlier
    <3> QED
      BY <1>6, <1>8, <1>9, <2>1, <3>1, ProgramsAssumption DEF Earlier
  <2>4. \A c \in Places(t) : c # a => Record(c)' = Record(c)
    BY <1>7, <1>10
  <2>5. CASE Fits(Record(a), p)
    <3>1. First(t, p, a)
      BY <1>5, <1>12, <2>2, <2>3, <2>4, <2>5 DEF First
    <3>2. a \in Hits(p)
      BY <3>1, HitsAreFirst
    <3>3. ~Fits(r, p)
      BY <1>5, <1>6, <1>12
    <3> QED
      BY <3>2, <3>3
  <2>6. CASE ~Fits(Record(a), p)
    <3>1. First(t, p, b)
      BY <1>5, <1>11, <2>2, <2>4, <2>6 DEF First
    <3> QED
      BY <3>1, HitsAreFirst
  <2> QED
    BY <2>5, <2>6
<1>13. CASE ~(a \in Places(t) /\ Earlier(a, b))
  <2>1. \A c \in Places(t) : Earlier(c, b) => Record(c)' = Record(c)
    BY <1>7, <1>10, <1>13
  <2>2. First(t, p, b)
    BY <1>5, <1>11, <2>1 DEF First
  <2> QED
    BY <2>2, HitsAreFirst
<1> QED
  BY <1>12, <1>13

-----------------------------------------------------------------------------
(* What the calls leave, read or not.                                      *)

(* Records and tables that fit in keep the disk in shape.                  *)
Shapely(r, D) ==
  DOMAIN r = DOMAIN Zero[1] /\ r.table \in D \cup {"none"} /\ r.size \in 0 .. Block

LEMMA ShapedByRecords ==
  ASSUME NEW ts
  PROVE  Shaped(ts) <=>
           /\ {"root", "block0"} \subseteq DOMAIN ts /\ "none" \notin DOMAIN ts
           /\ \A t \in DOMAIN ts :
                DOMAIN ts[t] = 1 .. Slots /\ \A s \in 1 .. Slots : Shapely(ts[t][s], DOMAIN ts)
BY DEF Shaped, Shapely

LEMMA ShapedTable ==
  ASSUME NEW ts, Shaped(ts), NEW u \in DOMAIN ts, NEW new, DOMAIN new = 1 .. Slots,
         \A s \in 1 .. Slots : Shapely(new[s], DOMAIN ts)
  PROVE  Shaped([ts EXCEPT ![u] = new]) /\ DOMAIN [ts EXCEPT ![u] = new] = DOMAIN ts
<1> DEFINE us == [ts EXCEPT ![u] = new]
<1>1. DOMAIN us = DOMAIN ts /\ \A t \in DOMAIN ts : us[t] = IF t = u THEN new ELSE ts[t]
  OBVIOUS
<1> HIDE DEF us
<1>2. Shaped(us)
  BY <1>1, ShapedByRecords
<1> QED
  BY <1>1, <1>2 DEF us

LEMMA ShapedRecord ==
  ASSUME NEW ts, Shaped(ts), NEW t \in DOMAIN ts, NEW s \in 1 .. Slots,
         NEW r, Shapely(r, DOMAIN ts)
  PROVE  Shaped([ts EXCEPT ![t][s] = r]) /\ DOMAIN [ts EXCEPT ![t][s] = r] = DOMAIN ts
<1> DEFINE new == [ts[t] EXCEPT ![s] = r]
<1>1. [ts EXCEPT ![t][s] = r] = [ts EXCEPT ![t] = new]
  OBVIOUS
<1>2. DOMAIN new = 1 .. Slots /\ \A q \in 1 .. Slots : new[q] = IF q = s THEN r ELSE ts[t][q]
  BY ShapedByRecords
<1>3. \A q \in 1 .. Slots : Shapely(ts[t][q], DOMAIN ts)
  BY ShapedByRecords
<1> HIDE DEF new
<1>4. \A q \in 1 .. Slots : Shapely(new[q], DOMAIN ts)
  BY <1>2, <1>3
<1> QED
  BY <1>1, <1>2, <1>4, ShapedTable

LEMMA RecordsAreShapely ==
  ASSUME NEW D
  PROVE  /\ \A n : Shapely([Zero[1] EXCEPT !.name = n], D) /\ Shapely(Zero[1], D)
         /\ \A s \in 1 .. Slots : Zero[s] = Zero[1]
         /\ \A n, e : Shapely([name |-> n, ext |-> e, table |-> "none", data |-> <<>>, size |-> 0], D)
         /\ DOMAIN Zero = 1 .. Slots
<1>1. Zero[1] = [name |-> <<>>, ext |-> <<>>, table |-> "none", data |-> <<>>, size |-> 0]
  BY ProgramsAssumption DEF Zero
<1>2. 0 \in 0 .. Block
  BY ProgramsAssumption
<1>3. \A n, e : Shapely([name |-> n, ext |-> e, table |-> "none", data |-> <<>>, size |-> 0], D)
  BY <1>1, <1>2 DEF Shapely
<1>4. \A n : [Zero[1] EXCEPT !.name = n] =
               [name |-> n, ext |-> <<>>, table |-> "none", data |-> <<>>, size |-> 0]
  BY <1>1
<1>5. DOMAIN Zero = 1 .. Slots /\ \A s \in 1 .. Slots : Zero[s] = Zero[1]
  BY ProgramsAssumption DEF Zero
<1> QED
  BY <1>1, <1>3, <1>4, <1>5

(* A hit is a record of the disk; a gap, too.                              *)
LEMMA GapIsRecord ==
  ASSUME Sound(tables), NEW p \in Paths, NEW t \in Directory(Parts[p].dirs), NEW a \in Gaps(t)
  PROVE  /\ a[1] \in {t, "block0"} /\ a[1] \in DOMAIN tables /\ a[2] \in 1 .. Slots
         /\ a = <<a[1], a[2]>> /\ Record(a).name \in {<<>>, Deleted}
         /\ \A b \in Places(t) : Earlier(b, a) => Record(b).name \notin {<<>>, Deleted}
<1>1. /\ a \in Places(t) /\ Record(a).name \in {<<>>, Deleted}
      /\ \A b \in Places(t) : Earlier(b, a) => Record(b).name \notin {<<>>, Deleted}
  BY DEF Gaps
<1>2. t \in DOMAIN tables /\ "block0" \in DOMAIN tables
  BY PartsOfPaths, DirectoryIsOne DEF Sound, Shaped
<1> QED
  BY <1>1, <1>2, PlaceParts

LEMMA MadeIsShaped ==
  ASSUME Sound(tables), NEW p \in Paths, NEW t \in Directory(Parts[p].dirs), NEW a \in Gaps(t),
         Made(p, a)
  PROVE  Shaped(tables')
<1> DEFINE r == [name |-> Parts[p].name, ext |-> Kept(Parts[p].ext),
                 table |-> "none", data |-> <<>>, size |-> 0]
<1>1. tables' = [tables EXCEPT ![a[1]][a[2]] = r]
  BY DEF Made, Stored
<1>2. a[1] \in DOMAIN tables /\ a[2] \in 1 .. Slots /\ Shapely(r, DOMAIN tables)
  BY GapIsRecord, RecordsAreShapely
<1> HIDE DEF r
<1> QED
  BY <1>1, <1>2, ShapedRecord DEF Sound

LEMMA OverwrittenIsShaped ==
  ASSUME Sound(tables), NEW p \in Paths, NEW a \in Hits(p), NEW text, Len(text) \in 0 .. Block,
         Overwritten(a, text)
  PROVE  Shaped(tables')
<1> DEFINE D == DOMAIN tables
           r == Record(a)
<1>1. /\ a[1] \in D /\ a[2] \in 1 .. Slots /\ r = tables[a[1]][a[2]]
      /\ Shapely(r, D) /\ Shaped(tables) /\ "block0" \in D
  BY HitIsOne, ShapedByRecords DEF Sound, Record
<1>2. CASE r.table = "none"
  <2> DEFINE new == [r EXCEPT !.data = text, !.size = Len(text)]
  <2>1. tables' = [tables EXCEPT ![a[1]][a[2]] = new]
    BY <1>2 DEF Overwritten, Stored
  <2>2. DOMAIN new = DOMAIN r /\ new.size = Len(text) /\ new.table = r.table
    BY <1>1 DEF Shapely, Zero
  <2>3. Shapely(new, D)
    BY <1>1, <2>2 DEF Shapely
  <2> HIDE DEF new
  <2> QED
    BY <1>1, <2>1, <2>3, ShapedRecord
<1>3. CASE r.table # "none"
  <2> DEFINE new == IF text = <<>> THEN Zero ELSE [Zero EXCEPT ![1].name = text]
             over == [tables EXCEPT ![r.table] = new]
             kept == IF text = <<>> THEN "block0" ELSE r.table
             r2 == [r EXCEPT !.table = kept, !.size = Len(text)]
  <2>1. tables' = [over EXCEPT ![a[1]][a[2]] = r2]
    BY <1>3 DEF Overwritten
  <2>2. DOMAIN new = 1 .. Slots /\ \A s \in 1 .. Slots : Shapely(new[s], D)
    <3>1. CASE text = <<>>
      BY <3>1, RecordsAreShapely
    <3>2. CASE text # <<>>
      <4>1. new = [Zero EXCEPT ![1] = [Zero[1] EXCEPT !.name = text]]
        BY <3>2
      <4>2. \A s \in 1 .. Slots : new[s] = IF s = 1 THEN [Zero[1] EXCEPT !.name = text] ELSE Zero[1]
        BY <4>1, RecordsAreShapely
      <4>3. DOMAIN new = 1 .. Slots
        BY <4>1, RecordsAreShapely
      <4> HIDE DEF new
      <4>4. Shapely([Zero[1] EXCEPT !.name = text], D) /\ Shapely(Zero[1], D)
        BY RecordsAreShapely
      <4>5. \A s \in 1 .. Slots : Shapely(new[s], D)
        BY <4>2, <4>4
      <4> QED
        BY <4>3, <4>5
    <3> QED
      BY <3>1, <3>2
  <2>3. r.table \in D
    BY <1>1, <1>3 DEF Shapely
  <2>4. DOMAIN r2 = DOMAIN r /\ r2.table = kept /\ r2.size = Len(text)
    BY <1>1 DEF Shapely, Zero
  <2>5. Shapely(r2, D)
    BY <1>1, <2>3, <2>4 DEF Shapely
  <2> HIDE DEF new, r, r2
  <2>6. Shaped(over) /\ DOMAIN over = D
    BY <1>1, <2>2, <2>3, ShapedTable
  <2> HIDE DEF over
  <2> QED
    BY <1>1, <2>1, <2>5, <2>6, ShapedRecord
<1> QED
  BY <1>2, <1>3

LEMMA RemovedIsShaped ==
  ASSUME Sound(tables), NEW p \in Paths, NEW a \in Hits(p), Removed(a)
  PROVE  Shaped(tables')
<1> DEFINE D == DOMAIN tables
           r == [Zero[1] EXCEPT !.name = Deleted]
           gone == [tables EXCEPT ![a[1]][a[2]] = r]
           u == Record(a).table
<1>1. /\ a[1] \in D /\ a[2] \in 1 .. Slots /\ u \in D \cup {"none"} /\ Shaped(tables)
  BY HitIsOne, ShapedByRecords DEF Sound, Record, Shapely
<1>2. tables' = IF u = "none" THEN gone ELSE [gone EXCEPT ![u] = Zero]
  BY DEF Removed
<1>3. Shapely(r, D)
  BY RecordsAreShapely
<1>4. DOMAIN Zero = 1 .. Slots /\ \A s \in 1 .. Slots : Shapely(Zero[s], D)
  BY RecordsAreShapely
<1> HIDE DEF r, u
<1>5. Shaped(gone) /\ DOMAIN gone = D
  BY <1>1, <1>3, ShapedRecord
<1> HIDE DEF gone
<1>6. u \in D => Shaped([gone EXCEPT ![u] = Zero])
  BY <1>4, <1>5, ShapedTable
<1> QED
  BY <1>1, <1>2, <1>5, <1>6

-----------------------------------------------------------------------------
(* Calls that are not strange put one record.                              *)

LEMMA ZeroRecord ==
  Zero[1] = [name |-> <<>>, ext |-> <<>>, table |-> "none", data |-> <<>>, size |-> 0]
BY ProgramsAssumption DEF Zero

New(p) == [name |-> Parts[p].name, ext |-> Kept(Parts[p].ext),
           table |-> "none", data |-> <<>>, size |-> 0]

LEMMA MadeIsPut ==
  ASSUME Sound(tables), NEW p \in Paths, NEW t \in Directory(Parts[p].dirs), NEW a \in Gaps(t),
         Made(p, a), ~Misplaced(p, a)
  PROVE  Put(a, New(p)) /\ a[1] = t
<1>1. /\ a[1] \in {t, "block0"} /\ a[1] \in DOMAIN tables /\ a[2] \in 1 .. Slots
      /\ a = <<a[1], a[2]>> /\ Record(a).name \in {<<>>, Deleted}
      /\ \A b \in Places(t) : Earlier(b, a) => Record(b).name \notin {<<>>, Deleted}
  BY GapIsRecord
<1>2. a[1] # "block0" /\ ~(Parts[p].name = <<>> /\ Record(a).name = Deleted)
  BY DEF Misplaced
<1>3. a[1] = t
  BY <1>1, <1>2
<1>4. Stored(a, New(p))
  BY DEF Made, New
<1>5. DOMAIN New(p) = DOMAIN Zero[1] /\ New(p).size \in 0 .. Block /\ New(p).table = "none"
      /\ New(p).name = Parts[p].name
  BY ZeroRecord, ProgramsAssumption DEF New
<1>6. Record(a).table = "none"
  BY <1>1 DEF Sound, OneOwner, Record
<1>7. ASSUME NEW q \in 1 .. a[2] - 1 PROVE tables[a[1]][q].name # <<>>
  <2>1. q \in 1 .. Slots /\ q < a[2]
    BY <1>1, ProgramsAssumption
  <2>2. <<t, q>> \in Places(t) /\ Earlier(<<t, q>>, a) /\ Record(<<t, q>>) = tables[t][q]
    BY <1>3, <2>1 DEF Places, Earlier, Record
  <2> QED
    BY <1>1, <1>3, <2>2
<1>8. Record(a).name # <<>> => Parts[p].name # <<>>
  BY <1>1, <1>2
<1>9. Sized(New(p))
  BY DEF Sized, Plain, New
<1> QED
  BY <1>1, <1>2, <1>3, <1>4, <1>5, <1>6, <1>7, <1>8, <1>9 DEF Put

LEMMA OverwrittenIsPut ==
  ASSUME Sound(tables), NEW p \in Paths, NEW a \in Hits(p),
         NEW text \in Plain, Len(text) \in 0 .. Block,
         Overwritten(a, text), Record(a).table = "none"
  PROVE  \E r : Put(a, r) /\ r.name = Record(a).name /\ r.ext = Record(a).ext /\ r.data = text
<1> DEFINE r == [Record(a) EXCEPT !.data = text, !.size = Len(text)]
<1>1. /\ DOMAIN Record(a) = DOMAIN Zero[1] /\ Record(a).name # <<>>
      /\ \A q \in 1 .. a[2] - 1 : tables[a[1]][q].name # <<>>
  BY HitIsRecord
<1>2. /\ a[1] \in DOMAIN tables \ {"block0"} /\ a[2] \in 1 .. Slots /\ a = <<a[1], a[2]>>
  BY HitIsOne
<1>3. Stored(a, r)
  BY DEF Overwritten
<1>4. /\ DOMAIN r = DOMAIN Zero[1] /\ r.size = Len(text) /\ r.data = text
      /\ r.table = "none" /\ r.name = Record(a).name /\ r.ext = Record(a).ext
  BY <1>1, ZeroRecord
<1> HIDE DEF r
<1>5. Put(a, r)
  BY <1>1, <1>2, <1>3, <1>4 DEF Put, Sized
<1> QED
  BY <1>4, <1>5

LEMMA RemovedIsPut ==
  ASSUME Sound(tables), NEW p \in Paths, NEW a \in Hits(p), Removed(a), Record(a).table = "none"
  PROVE  \E r : Put(a, r) /\ r.name = Deleted
<1> DEFINE r == [Zero[1] EXCEPT !.name = Deleted]
<1>1. \A q \in 1 .. a[2] - 1 : tables[a[1]][q].name # <<>>
  BY HitIsRecord
<1>2. /\ a[1] \in DOMAIN tables \ {"block0"} /\ a[2] \in 1 .. Slots /\ a = <<a[1], a[2]>>
  BY HitIsOne
<1>3. Stored(a, r)
  BY DEF Removed, Stored
<1>4. /\ DOMAIN r = DOMAIN Zero[1] /\ r.size \in 0 .. Block /\ r.table = "none" /\ r.name = Deleted
      /\ r.data = <<>> /\ r.size = 0
  BY ZeroRecord, ProgramsAssumption
<1>5. Deleted # <<>>
  BY DEF Deleted
<1> HIDE DEF r
<1>6. Sized(r)
  BY <1>4 DEF Sized, Plain
<1>7. Put(a, r)
  BY <1>1, <1>2, <1>3, <1>4, <1>5, <1>6 DEF Put
<1> QED
  BY <1>4, <1>7

(* Who only reads leaves every path what it names.                         *)
LEMMA SameHits ==
  ASSUME Sound(tables), UNCHANGED tables, NEW p \in Paths
  PROVE  Hits(p)' = Hits(p) /\ \A a : Record(a)' = Record(a)
<1>1. Directory(Parts[p].dirs)' = Directory(Parts[p].dirs)
  <2>1. \A t, n : Enter(t, n)' = Enter(t, n)
    BY DEF Enter
  <2>2. (Parts[p].dirs)' = Parts[p].dirs
    BY DEF Parts, Paths, ShellBin, SetupBin, InitCfg, UserCfg
  <2> QED
    BY <2>1, <2>2, PartsOfPaths, SameDirectory
<1>2. \A a : Record(a)' = Record(a)
  BY DEF Record
<1>3. /\ \A u, s : Fits(u, s)' = Fits(u, s)
      /\ \A t : Places(t)' = Places(t)
      /\ \A c, e : Earlier(c, e)' = Earlier(c, e)
  BY DEF Fits, Parts, Paths, ShellBin, SetupBin, InitCfg, UserCfg, Places, Earlier
<1>4. \A t, a : First(t, p, a)' <=> First(t, p, a)
  BY <1>2, <1>3 DEF First
<1>5. \A a : a \in Hits(p)' <=> a \in Hits(p)
  BY <1>1, <1>4, HitsAreFirst
<1> QED
  BY <1>2, <1>5

LEMMA SameSound ==
  ASSUME Sound(tables), UNCHANGED tables
  PROVE  Sound(tables)'
<1>1. Paths' = Paths /\ UserCfg' = UserCfg /\ \A r, p : Fits(r, p)' = Fits(r, p)
  BY DEF Fits, Parts, Paths, ShellBin, SetupBin, InitCfg, UserCfg
<1>2. \A r : Fits(r, UserCfg)' = Fits(r, UserCfg)
  BY DEF Fits, Parts, Paths, ShellBin, SetupBin, InitCfg, UserCfg
<1>3. Shaped(tables)' /\ InOrder(tables)' /\ OneOwner(tables)'
  <2>1. Shaped(tables)'
    BY DEF Sound, Shaped, Zero
  <2>2. InOrder(tables)'
    BY DEF Sound, InOrder
  <2>3. OneOwner(tables)'
    BY DEF Sound, OneOwner, Deleted
  <2> QED
    BY <2>1, <2>2, <2>3
<1>4. BootCode(tables)'
  BY <1>1 DEF Sound, BootCode
<1>5. UserCfgIsFile(tables)'
  BY <1>2 DEF Sound, UserCfgIsFile
<1>6. HasHome(tables)'
  BY DEF Sound, HasHome
<1>7. (\A t \in DOMAIN tables, s \in 1 .. Slots : Sized(tables[t][s]))'
  BY DEF Sound, Sized, Plain, Names
<1> QED
  BY <1>3, <1>4, <1>5, <1>6, <1>7 DEF Sound

(* What is loaded is a program.                                            *)
LEMMA LoadedProgram ==
  ASSUME NEW p
  PROVE  Loaded(p) \in {"shell", "init", "setup", "stopped"}
<1> DEFINE codes == {Record(a).data : a \in Hits(p)} \cap Code
<1>1. codes \subseteq {<<"shell">>, <<"init">>, <<"setup">>}
  BY ProgramsAssumption
<1>2. Loaded(p) = IF codes = {} THEN "stopped" ELSE (CHOOSE c \in codes : TRUE)[1]
  BY DEF Loaded
<1> HIDE DEF codes
<1>3. CASE codes # {}
  <2>1. PICK c \in codes : c = CHOOSE d \in codes : TRUE
    BY <1>3
  <2> QED
    BY <1>1, <1>2, <1>3, <2>1
<1> QED
  BY <1>2, <1>3

(* What is typed is never longer than its buffer.                          *)
LEMMA NamesAreSequences ==
  ASSUME NEW n
  PROVE  n \in Names <=> n \in Seq(Keys) /\ Len(n) <= NameSize
<1>1. ASSUME n \in Names PROVE n \in Seq(Keys) /\ Len(n) <= NameSize
  <2>1. PICK k \in 0 .. NameSize : n \in [1 .. k -> Keys]
    BY <1>1 DEF Names
  <2> QED
    BY <2>1, ProgramsAssumption
<1>2. ASSUME n \in Seq(Keys), Len(n) <= NameSize PROVE n \in Names
  <2>1. Len(n) \in 0 .. NameSize /\ n \in [1 .. Len(n) -> Keys]
    BY <1>2, ProgramsAssumption
  <2> QED
    BY <2>1 DEF Names
<1> QED
  BY <1>1, <1>2

LEMMA TypedStaysName ==
  ASSUME typed \in Names
  PROVE  /\ <<>> \in Names
         /\ Len(<<"user:">> \o typed) \in 0 .. Block - 1 /\ <<"user:">> \o typed \in Plain
         /\ <<"user:">> \o typed # <<>> /\ (<<"user:">> \o typed)[1] = "user:"
         /\ \A c \in Keys : Len(typed) < NameSize => Append(typed, c) \in Names
         /\ typed # <<>> => Front(typed) \in Names
<1>1. typed \in Seq(Keys) /\ Len(typed) <= NameSize /\ Len(typed) \in Nat
  BY NamesAreSequences
<1>2. <<>> \in Names
  <2>1. <<>> \in Seq(Keys) /\ Len(<<>>) <= NameSize
    BY ProgramsAssumption
  <2> QED
    BY <2>1, NamesAreSequences
<1>3. Len(<<"user:">> \o typed) = Len(typed) + 1 /\ (<<"user:">> \o typed)[1] = "user:"
  <2>1. <<"user:">> \in Seq(Keys \cup {"user:"}) /\ typed \in Seq(Keys \cup {"user:"})
    BY <1>1
  <2> QED
    BY <1>1, <2>1
<1>4. Len(<<"user:">> \o typed) \in 0 .. Block - 1 /\ <<"user:">> \o typed # <<>>
  BY <1>1, <1>3, ProgramsAssumption
<1>5. ASSUME NEW c \in Keys, Len(typed) < NameSize PROVE Append(typed, c) \in Names
  <2> DEFINE n == Append(typed, c)
  <2>1. n \in Seq(Keys) /\ Len(n) = Len(typed) + 1
    BY <1>1
  <2> HIDE DEF n
  <2>2. Len(n) <= NameSize
    BY <1>1, <1>5, <2>1, ProgramsAssumption
  <2> QED
    BY <2>1, <2>2, NamesAreSequences DEF n
<1>6. ASSUME typed # <<>> PROVE Front(typed) \in Names
  <2>1. PICK m \in Nat : m = Len(typed) - 1
    BY <1>1, <1>6
  <2>2. Front(typed) = SubSeq(typed, 1, m)
    BY <2>1 DEF Front
  <2>3. SubSeq(typed, 1, m) \in Seq(Keys) /\ Len(SubSeq(typed, 1, m)) = m
    BY <1>1, <2>1
  <2> HIDE DEF Front
  <2>4. Front(typed) \in Seq(Keys) /\ Len(Front(typed)) <= NameSize
    BY <1>1, <2>1, <2>2, <2>3, ProgramsAssumption
  <2> QED
    BY <2>4, NamesAreSequences
<1> QED
  BY <1>2, <1>3, <1>4, <1>5, <1>6 DEF Plain

-----------------------------------------------------------------------------
(* The invariant.                                                          *)

Named == \A a \in Hits(UserCfg) : Record(a).data # <<>> /\ Record(a).data[1] = "user:"

Programs == {"shell", "init", "setup", "asking", "stopped"}

LEMMA InvariantParts ==
  /\ IInv <=> /\ Shaped(tables) /\ prog \in Programs /\ typed \in Names
              /\ strange \in BOOLEAN /\ vain \in BOOLEAN
              /\ ~strange /\ ~vain /\ prog # "asking" => Named
              /\ ~strange => Sound(tables)
  /\ IInv' <=> /\ Shaped(tables)' /\ prog' \in Programs /\ typed' \in Names
               /\ strange' \in BOOLEAN /\ vain' \in BOOLEAN
               /\ ~strange' /\ ~vain' /\ prog' # "asking" => Named'
               /\ ~strange' => Sound(tables)'
BY DEF IInv, NamedUnlessCut, TypeOK, Named, Programs, Names

LEMMA ShapedNext ==
  ASSUME Shaped(tables')
  PROVE  Shaped(tables)'
BY DEF Shaped, Zero

(* What a command may do that leaves the disk as it is.                    *)
Reads ==
  /\ UNCHANGED tables /\ prog' \in Programs /\ typed' \in Names
  /\ strange' \in BOOLEAN /\ vain' \in BOOLEAN
  /\ ~strange' /\ ~vain' /\ prog' # "asking" => Hits(UserCfg) = {} \/ (~vain /\ prog # "asking")

LEMMA ReadsKeep ==
  ASSUME IInv, ~strange, Reads
  PROVE  IInv'
<1>1. Sound(tables) /\ UNCHANGED tables
  BY InvariantParts DEF Reads
<1>2. Sound(tables)' /\ Shaped(tables)'
  BY <1>1, SameSound DEF Sound
<1>3. PICK u \in Paths : u = UserCfg
  BY UserCfgIsNamed
<1>4. UserCfg' = u
  BY <1>3 DEF UserCfg
<1>5. Hits(u)' = Hits(u) /\ \A a : Record(a)' = Record(a)
  BY <1>1, SameHits
<1>6. Named <=> \A a \in Hits(u) : Record(a).data # <<>> /\ Record(a).data[1] = "user:"
  BY <1>3 DEF Named
<1>7. Named' <=> \A a \in Hits(u)' : Record(a)'.data # <<>> /\ Record(a)'.data[1] = "user:"
  BY <1>4 DEF Named
<1>8. Named' <=> Named
  BY <1>5, <1>6, <1>7
<1>9. Hits(UserCfg) = {} => Named
  BY DEF Named
<1> QED
  BY <1>2, <1>8, <1>9, InvariantParts DEF Reads

(* What it may do that puts a record.                                      *)
LEMMA PutsKeep ==
  ASSUME IInv, ~strange, NEW a, NEW r, Put(a, r),
         prog' \in Programs, typed' \in Names, strange' \in BOOLEAN, vain' \in BOOLEAN,
         ~strange' /\ ~vain' /\ prog' # "asking" => Named'
  PROVE  IInv'
<1>1. Sound(tables)
  BY InvariantParts
<1>2. Sound(tables)'
  BY <1>1, PutIsSound
<1>3. Shaped(tables)'
  BY <1>2 DEF Sound
<1> QED
  BY <1>2, <1>3, InvariantParts

(* A record that has been put is the only one that can be new to user.cfg. *)
LEMMA NamedAfterPut ==
  ASSUME Sound(tables), NEW a, NEW r, Put(a, r), NEW u \in Paths, u = UserCfg,
         a[1] \in Directory(Parts[u].dirs) /\ Fits(r, u) =>
           r.data # <<>> /\ r.data[1] = "user:",
         a \in Hits(u) /\ ~Fits(r, u) => Hits(u)' \subseteq {a},
         \A b \in Hits(u) : b # a => Record(b).data # <<>> /\ Record(b).data[1] = "user:"
  PROVE  Named'
<1>1. Named' <=> \A b \in Hits(u)' : Record(b)'.data # <<>> /\ Record(b)'.data[1] = "user:"
  <2>1. UserCfg' = u
    BY DEF UserCfg
  <2> QED
    BY <2>1 DEF Named
<1>2. SUFFICES ASSUME NEW b \in Hits(u)'
               PROVE  Record(b)'.data # <<>> /\ Record(b)'.data[1] = "user:"
  BY <1>1
<1>3. /\ a[1] \in DOMAIN tables /\ a[1] # "block0" /\ a[2] \in 1 .. Slots
      /\ Record(a)' = r /\ a = <<a[1], a[2]>>
  BY PutRecord DEF Put, Record
<1>4. CASE b = a
  <2>1. PICK t \in Directory(Parts[u].dirs) : First(t, u, a)'
    BY <1>4, PutKeepsDirectories, HitsAreFirst
  <2>2. \A q : Fits(q, u)' = Fits(q, u)
    BY DEF Fits, Parts, Paths, ShellBin, SetupBin, InitCfg, UserCfg
  <2>3. a \in Places(t) /\ Fits(Record(a)', u)
    BY <2>1, <2>2 DEF First, Places
  <2>4. a[1] = t
    BY <1>3, <2>3, PlaceParts
  <2> QED
    BY <1>3, <1>4, <2>1, <2>3, <2>4
<1>5. CASE b # a
  <2>1. b \in Hits(u)
    BY <1>2, <1>5, HitsAfterPut
  <2>2. b[1] \in DOMAIN tables /\ b[2] \in 1 .. Slots /\ b = <<b[1], b[2]>>
    BY <2>1, HitIsOne
  <2>3. Record(b)' = Record(b)
    BY <1>3, <1>5, <2>2, PutRecord DEF Record
  <2> QED
    BY <1>5, <2>1, <2>3
<1> QED
  BY <1>4, <1>5

(* Two paths that name the same record are the same.                       *)
LEMMA SameRecordSamePath ==
  ASSUME Sound(tables), NEW p \in Paths, NEW q \in Paths, NEW a \in Hits(p), NEW r,
         Fits(r, q), r.name = Record(a).name, r.ext = Record(a).ext,
         a[1] \in Directory(Parts[q].dirs)
  PROVE  Parts[p] = Parts[q]
<1>1. a[1] \in Directory(Parts[p].dirs)
  BY HitIsOne
<1>2. Fits(Record(a), p)
  BY HitIsRecord
<1>3. Parts[p].name = Parts[q].name /\ Parts[p].ext = Parts[q].ext
  BY <1>2 DEF Fits
<1> QED
  BY <1>1, <1>3, SamePlaceSameFile

LEMMA TouchKeeps ==
  ASSUME IInv, ~strange, NEW p \in Args, Touch(p)
  PROVE  IInv'
<1>1. /\ Sound(tables) /\ prog = "shell" /\ prog' = prog /\ typed' = typed
      /\ typed \in Names /\ vain \in BOOLEAN /\ p \in Paths
  BY InvariantParts DEF Touch, Command, Paths
<1>2. CASE Directory(Parts[p].dirs) = {} /\ UNCHANGED <<tables, strange, vain>>
  BY <1>1, <1>2, ReadsKeep, InvariantParts DEF Reads, Programs
<1>3. ASSUME NEW t \in Directory(Parts[p].dirs), Meddled(p),
             Gaps(t) = {} /\ UNCHANGED tables /\ strange' = TRUE
      PROVE  IInv'
  <2>1. vain' \in BOOLEAN
    BY <1>1, <1>3 DEF Meddled
  <2> QED
    BY <1>1, <1>3, <2>1, ReadsKeep, InvariantParts DEF Reads, Programs
<1>4. ASSUME NEW t \in Directory(Parts[p].dirs), Meddled(p),
             NEW a \in Gaps(t), Made(p, a), strange' = Misplaced(p, a)
      PROVE  IInv'
  <2>1. vain' \in BOOLEAN /\ (~vain' => ~vain /\ Parts[p] # Parts[UserCfg])
    BY <1>1, <1>4 DEF Meddled
  <2>2. CASE Misplaced(p, a)
    <3>1. Shaped(tables)'
      BY <1>1, <1>4, MadeIsShaped, ShapedNext
    <3>2. prog' \in Programs /\ strange'
      BY <1>1, <1>4, <2>2 DEF Programs
    <3> QED
      BY <1>1, <2>1, <3>1, <3>2, InvariantParts
  <2>3. CASE ~Misplaced(p, a)
    <3>1. Put(a, New(p)) /\ a[1] = t
      BY <1>1, <1>4, <2>3, MadeIsPut
    <3>2. ASSUME ~vain' PROVE Named'
      <4>1. PICK u \in Paths : u = UserCfg
        BY UserCfgIsNamed
      <4>2. ~(a[1] \in Directory(Parts[u].dirs) /\ Fits(New(p), u))
        <5>1. New(p).name = Parts[p].name /\ New(p).ext = Parts[p].ext
          BY <2>3 DEF New, Misplaced
        <5> QED
          BY <1>1, <2>1, <3>1, <3>2, <4>1, <5>1, SamePlaceSameFile DEF Fits
      <4>3. a \notin Hits(u)
        <5>1. Record(a).name \in {<<>>, Deleted}
          BY <1>1, GapIsRecord
        <5> QED
          BY <1>1, <4>1, <5>1, UserCfgIsNamed, HitIsRecord DEF Fits
      <4>4. Named
        BY <1>1, <2>1, <3>2, InvariantParts
      <4> QED
        BY <1>1, <3>1, <4>1, <4>2, <4>3, <4>4, NamedAfterPut DEF Named
    <3>3. strange' \in BOOLEAN
      BY <1>4 DEF Misplaced
    <3>4. prog' \in Programs /\ typed' \in Names
      BY <1>1 DEF Programs
    <3> QED
      BY <1>1, <2>1, <3>1, <3>2, <3>3, <3>4, PutsKeep
  <2> QED
    BY <2>2, <2>3
<1> QED
  BY <1>2, <1>3, <1>4 DEF Touch

LEMMA WriteKeeps ==
  ASSUME IInv, ~strange, NEW p \in Args, NEW text \in Texts, Write(p, text)
  PROVE  IInv'
<1>1. /\ Sound(tables) /\ prog = "shell" /\ prog' = prog /\ typed' = typed
      /\ typed \in Names /\ vain \in BOOLEAN /\ p \in Paths
  BY InvariantParts DEF Write, Command, Paths
<1>2. CASE UNCHANGED <<tables, strange, vain>>
  BY <1>1, <1>2, ReadsKeep, InvariantParts DEF Reads, Programs
<1>3. ASSUME NEW a \in Hits(p), Overwritten(a, text), Meddled(p),
             strange' = (Record(a).table # "none")
      PROVE  IInv'
  <2>1. vain' \in BOOLEAN /\ (~vain' => ~vain /\ Parts[p] # Parts[UserCfg])
    BY <1>1, <1>3 DEF Meddled
  <2>2. Len(text) \in 0 .. Block /\ text \in Plain
    <3>1. Len(text) \in 0 .. Block - 1
      BY ProgramsAssumption
    <3> QED
      BY <3>1, ProgramsAssumption DEF Plain
  <2>3. prog' \in Programs /\ typed' \in Names /\ strange' \in BOOLEAN
    BY <1>1, <1>3 DEF Programs
  <2>4. CASE Record(a).table # "none"
    <3>1. Shaped(tables)'
      BY <1>1, <1>3, <2>2, OverwrittenIsShaped, ShapedNext
    <3> QED
      BY <1>3, <2>1, <2>3, <2>4, <3>1, InvariantParts
  <2>5. CASE Record(a).table = "none"
    <3>1. PICK r : Put(a, r) /\ r.name = Record(a).name /\ r.ext = Record(a).ext
      BY <1>1, <1>3, <2>2, <2>5, OverwrittenIsPut
    <3>2. ASSUME ~vain' PROVE Named'
      <4>1. PICK u \in Paths : u = UserCfg
        BY UserCfgIsNamed
      <4>2. ~(a[1] \in Directory(Parts[u].dirs) /\ Fits(r, u))
        BY <1>1, <2>1, <3>1, <3>2, <4>1, SameRecordSamePath
      <4>3. a \in Hits(u) => Fits(r, u)
        BY <1>1, <3>1, HitIsRecord DEF Fits
      <4>4. Named
        BY <1>1, <2>1, <3>2, InvariantParts
      <4> QED
        BY <1>1, <3>1, <4>1, <4>2, <4>3, <4>4, NamedAfterPut DEF Named
    <3> QED
      BY <2>1, <2>3, <3>1, <3>2, PutsKeep
  <2> QED
    BY <2>4, <2>5
<1> QED
  BY <1>2, <1>3 DEF Write

LEMMA DeleteKeeps ==
  ASSUME IInv, ~strange, NEW p \in Args, Delete(p)
  PROVE  IInv'
<1>1. /\ Sound(tables) /\ prog = "shell" /\ prog' = prog /\ typed' = typed
      /\ typed \in Names /\ vain \in BOOLEAN /\ vain' = vain /\ p \in Paths
  BY InvariantParts DEF Delete, Command, Paths
<1>2. CASE UNCHANGED <<tables, strange>>
  BY <1>1, <1>2, ReadsKeep, InvariantParts DEF Reads, Programs
<1>3. ASSUME NEW a \in Hits(p), Removed(a),
             strange' = (Record(a).table # "none" \/ Hits(p)' # {})
      PROVE  IInv'
  <2>1. prog' \in Programs /\ typed' \in Names /\ strange' \in BOOLEAN /\ vain' \in BOOLEAN
    BY <1>1, <1>3 DEF Programs
  <2>2. CASE strange'
    <3>1. Shaped(tables)'
      BY <1>1, <1>3, RemovedIsShaped, ShapedNext
    <3> QED
      BY <2>1, <2>2, <3>1, InvariantParts
  <2>3. CASE ~strange'
    <3>1. Record(a).table = "none" /\ Hits(p)' = {}
      BY <1>3, <2>3
    <3>2. PICK r : Put(a, r) /\ r.name = Deleted
      BY <1>1, <1>3, <3>1, RemovedIsPut
    <3>3. ASSUME ~vain' PROVE Named'
      <4>1. PICK u \in Paths : u = UserCfg
        BY UserCfgIsNamed
      <4>2. ~Fits(r, u)
        BY <3>2, <4>1, UserCfgIsNamed DEF Fits
      <4>3. ASSUME a \in Hits(u) PROVE Hits(u)' = {}
        <5>1. Parts[p] = Parts[u]
          <6>1. a[1] \in Directory(Parts[u].dirs) /\ Fits(Record(a), u)
            BY <1>1, <4>3, HitIsOne, HitIsRecord
          <6> QED
            BY <1>1, <1>3, <6>1, SameRecordSamePath
        <5>2. Parts[p]' = Parts[p] /\ Parts[u]' = Parts[u]
          BY DEF Parts, Paths, ShellBin, SetupBin, InitCfg, UserCfg
        <5>3. Hits(p)' = Hits(u)'
          BY <5>1, <5>2 DEF Hits, Fits
        <5> QED
          BY <3>1, <5>3
      <4>4. Named
        BY <1>1, <3>3, InvariantParts
      <4> QED
        BY <1>1, <3>2, <4>1, <4>2, <4>3, <4>4, NamedAfterPut DEF Named
    <3> QED
      BY <2>1, <3>2, <3>3, PutsKeep
  <2> QED
    BY <2>2, <2>3
<1> QED
  BY <1>1, <1>2, <1>3 DEF Delete

LEMMA AskKeeps ==
  ASSUME IInv, ~strange, Ask
  PROVE  IInv'
<1>1. /\ Sound(tables) /\ prog' = "asking" /\ typed' = <<>> /\ <<>> \in Names
      /\ vain \in BOOLEAN /\ vain' = vain /\ prog' \in Programs
  BY InvariantParts, TypedStaysName DEF Ask, Programs
<1>2. PICK u \in Paths : u = UserCfg
  BY UserCfgIsNamed
<1>3. PICK t \in Directory(Parts[u].dirs) :
        \/ Gaps(t) = {} /\ UNCHANGED tables /\ strange' = TRUE
        \/ \E a \in Gaps(t) : Made(u, a) /\ strange' = Misplaced(u, a)
  BY <1>2 DEF Ask
<1>4. CASE Gaps(t) = {} /\ UNCHANGED tables /\ strange' = TRUE
  BY <1>1, <1>4, ReadsKeep, InvariantParts DEF Reads
<1>5. ASSUME NEW a \in Gaps(t), Made(u, a), strange' = Misplaced(u, a)
      PROVE  IInv'
  <2>1. CASE Misplaced(u, a)
    <3>1. Shaped(tables)'
      BY <1>1, <1>5, MadeIsShaped, ShapedNext
    <3> QED
      BY <1>1, <1>5, <2>1, <3>1, InvariantParts
  <2>2. CASE ~Misplaced(u, a)
    <3>1. Put(a, New(u))
      BY <1>1, <1>5, <2>2, MadeIsPut
    <3>2. strange' \in BOOLEAN
      BY <1>5 DEF Misplaced
    <3> QED
      BY <1>1, <3>1, <3>2, PutsKeep
  <2> QED
    BY <2>1, <2>2
<1> QED
  BY <1>3, <1>4, <1>5

LEMMA AnswerKeeps ==
  ASSUME IInv, ~strange, Answer
  PROVE  IInv'
<1>1. /\ Sound(tables) /\ prog = "asking" /\ strange' = FALSE /\ vain' = FALSE
      /\ prog' \in Programs /\ typed' \in Names
  <2>1. typed \in Names /\ <<>> \in Names
    BY InvariantParts, TypedStaysName
  <2> QED
    BY <2>1, InvariantParts, LoadedProgram DEF Answer, ToShell, Programs
<1>2. PICK u \in Paths : u = UserCfg
  BY UserCfgIsNamed
<1>3. CASE Hits(u) = {}
  <2>1. Hits(UserCfg) = {} /\ UNCHANGED tables
    BY <1>2, <1>3 DEF Answer
  <2>2. strange' \in BOOLEAN /\ vain' \in BOOLEAN
    BY <1>1
  <2>3. prog' \in Programs /\ typed' \in Names
    BY <1>1
  <2>4. Reads
    BY <2>1, <2>2, <2>3 DEF Reads
  <2> QED
    BY <2>4, ReadsKeep
<1>4. CASE Hits(u) # {}
  <2> DEFINE text == <<"user:">> \o typed
  <2>1. Len(text) \in 0 .. Block /\ text # <<>> /\ text[1] = "user:" /\ text \in Plain
    <3>1. Len(text) \in 0 .. Block - 1 /\ text # <<>> /\ text[1] = "user:" /\ text \in Plain
      BY InvariantParts, TypedStaysName
    <3> HIDE DEF text
    <3> QED
      BY <3>1, ProgramsAssumption
  <2>2. PICK a \in Hits(u) : Overwritten(a, text)
    BY <1>2, <1>4 DEF Answer
  <2> HIDE DEF text
  <2>3. Record(a).table = "none"
    <3>1. a[1] \in DOMAIN tables /\ a[2] \in 1 .. Slots /\ Fits(Record(a), u)
      BY <1>1, HitIsOne, HitIsRecord
    <3> QED
      BY <1>1, <1>2, <3>1 DEF Sound, UserCfgIsFile, Record
  <2>4. PICK r : Put(a, r) /\ r.name = Record(a).name /\ r.ext = Record(a).ext /\ r.data = text
    BY <1>1, <2>1, <2>2, <2>3, OverwrittenIsPut
  <2>5. Fits(r, u)
    BY <1>1, <2>4, HitIsRecord DEF Fits
  <2>6. \A b \in Hits(u) : b = a
    BY <1>1, HitIsOne
  <2>7. Named'
    BY <1>1, <1>2, <2>1, <2>4, <2>5, <2>6, NamedAfterPut
  <2> QED
    BY <1>1, <2>4, <2>7, PutsKeep
<1> QED
  BY <1>3, <1>4

(* The invariant holds of every image the packer makes and is kept by      *)
(* every command, program and power cut.                                   *)
THEOREM ProgramsInvariant == Spec => []IInv
<1>1. Init => IInv
  <2> SUFFICES ASSUME Init PROVE IInv
    OBVIOUS
  <2>1. /\ Sound(tables)
        /\ \A t \in DOMAIN tables, s \in 1 .. Slots : ~Fits(tables[t][s], UserCfg)
    BY ProgramsAssumption DEF Init
  <2>2. Named
    <3>1. PICK u \in Paths : u = UserCfg
      BY UserCfgIsNamed
    <3>2. ASSUME NEW a \in Hits(u) PROVE FALSE
      <4>1. a[1] \in DOMAIN tables /\ a[2] \in 1 .. Slots /\ Fits(Record(a), u)
        BY <2>1, HitIsOne, HitIsRecord
      <4> QED
        BY <2>1, <3>1, <4>1 DEF Record
    <3> QED
      BY <3>1, <3>2 DEF Named
  <2>3. <<>> \in Names
    <3>1. <<>> \in Seq(Keys) /\ Len(<<>>) <= NameSize
      BY ProgramsAssumption
    <3> QED
      BY <3>1, NamesAreSequences
  <2>4. Shaped(tables)
    BY <2>1 DEF Sound
  <2> QED
    BY <2>1, <2>2, <2>3, <2>4, InvariantParts DEF Init, Programs
<1>2. IInv /\ [Next]_vars => IInv'
  <2> SUFFICES ASSUME IInv, [Next]_vars PROVE IInv'
    OBVIOUS
  <2>1. CASE UNCHANGED vars
    <3>1. CASE strange
      <4>1. Shaped(tables)' 
        BY <2>1, InvariantParts DEF vars, Shaped, Zero
      <4> QED
        BY <2>1, <3>1, <4>1, InvariantParts DEF vars
    <3>2. CASE ~strange
      BY <2>1, <3>2, ReadsKeep, InvariantParts DEF vars, Reads
    <3> QED
      BY <3>1, <3>2
  <2>2. CASE Next
    <3>1. /\ ~strange /\ prog \in Programs /\ typed \in Names
          /\ strange \in BOOLEAN /\ vain \in BOOLEAN /\ <<>> \in Names
      BY <2>2, InvariantParts, TypedStaysName DEF Next
    <3>2. \A p : Loaded(p) \in Programs
      BY LoadedProgram DEF Programs
    <3>3. ASSUME NEW p \in Args, Check(p) PROVE IInv'
      BY <3>1, <3>3, ReadsKeep DEF Check, Command, Reads
    <3>4. ASSUME NEW p \in Args, Cat(p) PROVE IInv'
      BY <3>1, <3>4, ReadsKeep DEF Cat, Command, Reads
    <3>5. ASSUME NEW p \in Args, Run(p) PROVE IInv'
      BY <3>1, <3>2, <3>5, ReadsKeep DEF Run, Reads
    <3>6. ASSUME Begin PROVE IInv'
      <4>1. prog' \in Programs
        BY <3>2, <3>6 DEF Begin, Programs
      <4> QED
        BY <3>1, <3>6, <4>1, ReadsKeep DEF Begin, Reads
    <3>7. ASSUME NEW c \in Keys, Key(c) PROVE IInv'
      <4>1. typed' \in Names /\ prog' \in Programs /\ (prog' = "asking" \/ vain')
        BY <3>1, <3>7, TypedStaysName DEF Key, Programs
      <4>2. vain' \in BOOLEAN /\ strange' = strange /\ UNCHANGED tables
        BY <3>1, <3>7 DEF Key
      <4> QED
        BY <3>1, <4>1, <4>2, ReadsKeep DEF Reads
    <3>8. ASSUME Cut PROVE IInv'
      BY <3>1, <3>2, <3>8, ReadsKeep DEF Cut, Reads
    <3> QED
      BY <2>2, <3>1, <3>3, <3>4, <3>5, <3>6, <3>7, <3>8,
         TouchKeeps, WriteKeeps, DeleteKeeps, AskKeeps, AnswerKeeps DEF Next
  <2> QED
    BY <2>1, <2>2
<1> QED
  BY <1>1, <1>2, PTL DEF Spec

(* When user.cfg is there it holds a name, unless the power has gone (or   *)
(* the name has run out of its buffer) while setup asked for it, or a user *)
(* has been at the file.                                                   *)
THEOREM AsksUntilNamed == Spec => []NamedUnlessCut
<1>1. IInv => NamedUnlessCut
  BY DEF IInv
<1> QED
  BY <1>1, ProgramsInvariant, PTL

-----------------------------------------------------------------------------
(* Files as users think of them: what is spelled is what is found.         *)

LEMMA OneElement ==
  ASSUME NEW S, NEW x, NEW e \in Seq(S), Len(e) = 1, e[1] = x
  PROVE  e = <<x>>
OBVIOUS

LEMMA OneMore ==
  ASSUME NEW S, NEW p \in Seq(S), NEW x \in S, NEW q, q = p \o <<x>>
  PROVE  /\ q \in Seq(S) /\ Len(q) = Len(p) + 1 /\ q[Len(p) + 1] = x
         /\ \A i \in 1 .. Len(p) : q[i] = p[i]
OBVIOUS

LEMMA TwoMore ==
  ASSUME NEW S, NEW p \in Seq(S), NEW x \in S, NEW y \in S
  PROVE  p \o (<<x>> \o <<y>>) = p \o <<x>> \o <<y>>
OBVIOUS

LEMMA NoneMore ==
  ASSUME NEW S, NEW p \in Seq(S)
  PROVE  p \o <<>> = p
OBVIOUS

LEMMA PartOf ==
  ASSUME NEW S, NEW p \in Seq(S), NEW m \in Nat, NEW n \in Nat, m <= n, n <= Len(p)
  PROVE  /\ SubSeq(p, m + 1, n) \in Seq(S) /\ Len(SubSeq(p, m + 1, n)) = n - m
         /\ \A i \in 1 .. n - m : SubSeq(p, m + 1, n)[i] = p[m + i]
OBVIOUS

LEMMA LastSlashIs ==
  ASSUME NEW p, Len(p) \in Nat, NEW l \in 1 .. Len(p), p[l] = "/",
         \A i \in 1 .. Len(p) : l < i => p[i] # "/"
  PROVE  LastSlash(p) = l
<1> DEFINE S == {0} \cup {i \in 1 .. Len(p) : p[i] = "/"}
<1>1. l \in S /\ \A y \in S : y \in Int /\ l >= y
  OBVIOUS
<1> HIDE DEF S
<1>2. Max(S) \in S /\ \A y \in S : Max(S) >= y
  BY <1>1 DEF Max
<1>3. Max(S) \in Int /\ Max(S) >= l /\ l >= Max(S)
  BY <1>1, <1>2
<1>4. Max(S) = l
  BY <1>3
<1> QED
  BY <1>4 DEF LastSlash, S

(* The last part of a usual spelling.                                      *)
LEMMA LastPart ==
  ASSUME NEW rest \in Seq(Symbols), rest[1] \in Words,
         Len(rest) = 1 \/ (Len(rest) = 3 /\ rest[2] = ".")
  PROVE  End(rest, {".", Nul}) = 2
<1>1. rest[1] \notin {".", Nul}
  BY PathsAssumption
<1>2. /\ 2 \in 1 .. Len(rest) + 1 /\ \A i \in 1 .. 2 - 1 : rest[i] \notin {".", Nul}
      /\ 2 <= Len(rest) => rest[2] \in {".", Nul}
  BY <1>1
<1> QED
  BY <1>2, EndIs

(* The directories of the two usual beginnings.                            *)
LEMMA RootOnly ==
  ASSUME NEW front, Len(front) = 1, front[1] = "/"
  PROVE  Between(front) = <<>>
<1> DEFINE slashes == {i \in 1 .. Len(front) : front[i] = "/"}
           slash(k) == CHOOSE i \in slashes : Cardinality({j \in slashes : j <= i}) = k
           name(k) == SubSeq(front, slash(k) + 1, slash(k + 1) - 1)
<1>1. slashes = {1}
  OBVIOUS
<1>2. Cardinality(slashes) = 1
  BY <1>1, FS_Singleton
<1>3. Between(front) = [k \in 1 .. Cardinality(slashes) - 1 |-> name(k)]
  BY DEF Between
<1> HIDE DEF name, slash, slashes
<1>4. 1 .. Cardinality(slashes) - 1 = 1 .. 0
  BY <1>2
<1>5. Between(front) = [k \in 1 .. 0 |-> name(k)]
  BY <1>3, <1>4
<1> QED
  BY <1>5

LEMMA HomeOnly ==
  ASSUME NEW front, front \in Seq(Symbols), Len(front) = 3,
         front[1] = "/", front[2] = "home", front[3] = "/"
  PROVE  Between(front) = <<<<"home">>>>
<1> DEFINE slashes == {i \in 1 .. Len(front) : front[i] = "/"}
           slash(k) == CHOOSE i \in slashes : Cardinality({j \in slashes : j <= i}) = k
           name(k) == SubSeq(front, slash(k) + 1, slash(k + 1) - 1)
<1>1. PICK one, two : one = {1} /\ two = {1, 3}
  OBVIOUS
<1>2. Cardinality(one) = 1 /\ Cardinality(two) = 2
  <2>1. IsFiniteSet(one) /\ Cardinality(one) = 1
    BY <1>1, FS_Singleton
  <2>2. 3 \notin one /\ two = one \cup {3}
    BY <1>1
  <2>3. Cardinality(one \cup {3}) = Cardinality(one) + 1
    BY <2>1, <2>2, FS_AddElement
  <2> QED
    BY <2>1, <2>2, <2>3
<1>3. Between(front) = [k \in 1 .. Cardinality(slashes) - 1 |-> name(k)]
  BY DEF Between
<1>4. slashes = two /\ slash(1) = 1 /\ slash(2) = 3
  <2>1. slashes = two
    BY <1>1
  <2> HIDE DEF slashes
  <2>2. {j \in slashes : j <= 1} = one /\ {j \in slashes : j <= 3} = two
    BY <1>1, <2>1
  <2>3. \A i : i \in slashes <=> i = 1 \/ i = 3
    BY <1>1, <2>1
  <2>4. \A i \in slashes : /\ Cardinality({j \in slashes : j <= i}) = 1 <=> i = 1
                           /\ Cardinality({j \in slashes : j <= i}) = 2 <=> i = 3
    BY <1>2, <2>2, <2>3
  <2> QED
    BY <2>1, <2>3, <2>4
<1>5. name(1) = SubSeq(front, 2, 2)
  <2> HIDE DEF slash
  <2> QED
    BY <1>4
<1>6. SubSeq(front, 2, 2) = <<"home">>
  <2> DEFINE e == SubSeq(front, 2, 2)
  <2>1. e \in Seq(Symbols) /\ Len(e) = 1 /\ e[1] = "home"
    OBVIOUS
  <2> HIDE DEF e
  <2>2. e = <<"home">>
    BY <2>1, OneElement
  <2> QED
    BY <2>2 DEF e
<1> HIDE DEF name, slash, slashes
<1>7. 1 .. Cardinality(slashes) - 1 = 1 .. 1
  BY <1>2, <1>4
<1>8. Between(front) = [k \in 1 .. 1 |-> name(k)]
  BY <1>3, <1>7
<1> QED
  BY <1>5, <1>6, <1>8

(* How a usual spelling begins.                                            *)
Begun(d, w) == (IF d = <<>> THEN <<>> ELSE <<"/">> \o d[1]) \o <<"/">> \o <<w>>

LEMMA Beginning ==
  ASSUME NEW d \in {<<>>, <<<<"home">>>>}, NEW w \in Words
  PROVE  \E q : /\ q = Begun(d, w) /\ q \in Seq(Symbols) /\ q[1] = "/"
                /\ d = <<>> => Len(q) = 2 /\ q[2] = w
                /\ d # <<>> => Len(q) = 4 /\ q[2] = "home" /\ q[3] = "/" /\ q[4] = w
<1>1. "/" \in Symbols /\ "home" \in Symbols /\ w \in Symbols
  BY ProgramsAssumption DEF Symbols
<1>2. CASE d = <<>>
  <2>1. PICK a : a = <<>> \o <<"/">>
    OBVIOUS
  <2>2. <<>> \in Seq(Symbols) /\ Len(<<>>) = 0
    OBVIOUS
  <2>3. a \in Seq(Symbols) /\ Len(a) = 1 /\ a[1] = "/"
    BY <1>1, <2>1, <2>2, OneMore
  <2>4. PICK q : q = a \o <<w>>
    OBVIOUS
  <2>5. q = Begun(d, w)
    BY <1>2, <2>1, <2>4 DEF Begun
  <2>6. /\ q \in Seq(Symbols) /\ Len(q) = Len(a) + 1 /\ q[Len(a) + 1] = w
        /\ \A i \in 1 .. Len(a) : q[i] = a[i]
    BY <1>1, <2>3, <2>4, OneMore
  <2>7. Len(q) = 2 /\ q[1] = "/" /\ q[2] = w
    BY <2>3, <2>6
  <2> QED
    BY <1>2, <2>5, <2>6, <2>7
<1>3. CASE d = <<<<"home">>>>
  <2>1. PICK a : a = <<"/">> \o <<"home">>
    OBVIOUS
  <2>2. <<"/">> \in Seq(Symbols) /\ Len(<<"/">>) = 1 /\ <<"/">>[1] = "/"
    BY <1>1
  <2>3. a \in Seq(Symbols) /\ Len(a) = 2 /\ a[1] = "/" /\ a[2] = "home"
    BY <1>1, <2>1, <2>2, OneMore
  <2>4. PICK b : b = a \o <<"/">>
    OBVIOUS
  <2>5. b \in Seq(Symbols) /\ Len(b) = 3 /\ b[1] = "/" /\ b[2] = "home" /\ b[3] = "/"
    <3>1. /\ b \in Seq(Symbols) /\ Len(b) = Len(a) + 1 /\ b[Len(a) + 1] = "/"
          /\ \A i \in 1 .. Len(a) : b[i] = a[i]
      BY <1>1, <2>3, <2>4, OneMore
    <3> QED
      BY <2>3, <3>1
  <2>6. d # <<>> /\ d[1] = <<"home">>
    BY <1>3
  <2>7. PICK q : q = b \o <<w>>
    OBVIOUS
  <2>8. /\ q \in Seq(Symbols) /\ Len(q) = Len(b) + 1 /\ q[Len(b) + 1] = w
        /\ \A i \in 1 .. Len(b) : q[i] = b[i]
    <3>1. b \in Seq(Symbols) /\ w \in Symbols
      BY <1>1, <2>5
    <3> QED
      BY <2>7, <3>1, OneMore
  <2>9. q = Begun(d, w)
    BY <2>1, <2>4, <2>6, <2>7 DEF Begun
  <2>10. Len(q) = 4 /\ q[1] = "/" /\ q[2] = "home" /\ q[3] = "/" /\ q[4] = w
    BY <2>5, <2>8
  <2> QED
    BY <2>6, <2>8, <2>9, <2>10
<1> QED
  BY <1>2, <1>3

(* A usual spelling, symbol by symbol.                                     *)
SpellsAs(p, l, d, w, e) ==
  /\ p \in Seq(Symbols) /\ l \in {1, 3} /\ (d = <<>> <=> l = 1)
  /\ p[1] = "/" /\ p[l] = "/" /\ p[l + 1] = w /\ (l = 3 => p[2] = "home")
  /\ \/ e = <<>> /\ Len(p) = l + 1
     \/ \E x \in Words : e = <<x>> /\ Len(p) = l + 3 /\ p[l + 2] = "." /\ p[l + 3] = x

LEMMA Symbolwise ==
  ASSUME NEW d \in {<<>>, <<<<"home">>>>}, NEW w \in Words, NEW e \in {<<>>} \cup {<<x>> : x \in Words}
  PROVE  \E p, l : p = Spelled([dirs |-> d, name |-> <<w>>, ext |-> e]) /\ SpellsAs(p, l, d, w, e)
<1>1. PICK q : /\ q = Begun(d, w) /\ q \in Seq(Symbols) /\ q[1] = "/"
               /\ d = <<>> => Len(q) = 2 /\ q[2] = w
               /\ d # <<>> => Len(q) = 4 /\ q[2] = "home" /\ q[3] = "/" /\ q[4] = w
  BY Beginning
<1>2. PICK l : l = IF d = <<>> THEN 1 ELSE 3
  OBVIOUS
<1>3. /\ q \in Seq(Symbols) /\ Len(q) = l + 1 /\ l \in {1, 3}
      /\ q[1] = "/" /\ q[l] = "/" /\ q[l + 1] = w
      /\ (d = <<>> <=> l = 1) /\ (l = 3 => q[2] = "home")
  BY <1>1, <1>2
<1>4. PICK p : p = Spelled([dirs |-> d, name |-> <<w>>, ext |-> e])
  OBVIOUS
<1>5. p = q \o (IF e = <<>> THEN <<>> ELSE <<".">> \o e)
  BY <1>1, <1>4 DEF Spelled, Begun
<1>6. /\ p \in Seq(Symbols) /\ \A i \in 1 .. l + 1 : p[i] = q[i]
      /\ \/ e = <<>> /\ Len(p) = l + 1
         \/ \E x \in Words : e = <<x>> /\ Len(p) = l + 3 /\ p[l + 2] = "." /\ p[l + 3] = x
  <2>1. CASE e = <<>>
    <3>1. p = q
      BY <1>3, <1>5, <2>1, NoneMore
    <3> QED
      BY <1>3, <2>1, <3>1
  <2>2. ASSUME NEW x \in Words, e = <<x>>
        PROVE  /\ p \in Seq(Symbols) /\ \A i \in 1 .. l + 1 : p[i] = q[i]
               /\ e = <<x>> /\ Len(p) = l + 3 /\ p[l + 2] = "." /\ p[l + 3] = x
    <3>1. "." \in Symbols /\ x \in Symbols
      BY DEF Symbols
    <3>2. PICK a : a = q \o <<".">>
      OBVIOUS
    <3>3. a \in Seq(Symbols) /\ Len(a) = l + 2 /\ a[l + 2] = "." /\ \A i \in 1 .. l + 1 : a[i] = q[i]
      BY <1>3, <3>1, <3>2, OneMore
    <3>4. e # <<>>
      BY <2>2
    <3>5. p = a \o <<x>>
      BY <1>3, <1>5, <2>2, <3>1, <3>2, <3>4, TwoMore
    <3>6. p \in Seq(Symbols) /\ Len(p) = l + 3 /\ p[l + 3] = x /\ \A i \in 1 .. l + 2 : p[i] = a[i]
      BY <1>3, <3>1, <3>3, <3>5, OneMore
    <3> QED
      BY <1>3, <2>2, <3>3, <3>6
  <2> QED
    BY <2>1, <2>2
<1>7. p[1] = "/" /\ p[l] = "/" /\ p[l + 1] = w /\ (l = 3 => p[2] = "home")
  BY <1>3, <1>6
<1>8. SpellsAs(p, l, d, w, e)
  BY <1>3, <1>6, <1>7 DEF SpellsAs
<1> QED
  BY <1>4, <1>8

LEMMA SameSymbols ==
  ASSUME NEW S, NEW p \in Seq(S), NEW q \in Seq(S), Len(p) = Len(q),
         \A i \in 1 .. Len(p) : p[i] = q[i]
  PROVE  p = q
OBVIOUS

(* user.cfg is spelled as usual.                                           *)
LEMMA UserCfgSpelled ==
  /\ [dirs |-> <<<<"home">>>>, name |-> <<"user">>, ext |-> <<"cfg">>] \in Known
  /\ Spelled([dirs |-> <<<<"home">>>>, name |-> <<"user">>, ext |-> <<"cfg">>]) = UserCfg
<1>1. PICK w \in Words, x \in Words : w = "user" /\ x = "cfg"
  BY ProgramsAssumption
<1>2. PICK d, e : d = <<<<"home">>>> /\ e = <<x>>
  OBVIOUS
<1>3. d # <<>> /\ e # <<>>
  BY <1>2
<1>4. PICK p, l : p = Spelled([dirs |-> d, name |-> <<w>>, ext |-> e]) /\ SpellsAs(p, l, d, w, e)
  BY <1>2, Symbolwise
<1>5. \A z : e = <<z>> => z = x
  BY <1>2
<1>6. p \in Seq(Symbols) /\ p[1] = "/" /\ Len(p) = 6 /\ p[2] = "home" /\ p[3] = "/" /\ p[4] = w
       /\ p[5] = "." /\ p[6] = x
  <2>1. l = 3
    BY <1>3, <1>4 DEF SpellsAs
  <2>2. PICK z \in Words : e = <<z>> /\ Len(p) = l + 3 /\ p[l + 2] = "." /\ p[l + 3] = z
    BY <1>3, <1>4 DEF SpellsAs
  <2>3. z = x
    BY <1>5, <2>2
  <2>4. Len(p) = 6 /\ p[5] = "." /\ p[6] = x
    BY <2>1, <2>2, <2>3
  <2>5. p \in Seq(Symbols) /\ p[1] = "/" /\ p[3] = "/" /\ p[4] = w /\ p[2] = "home"
    BY <1>4, <2>1 DEF SpellsAs
  <2> QED
    BY <2>4, <2>5
<1>7. /\ UserCfg \in Seq(Symbols) /\ Len(UserCfg) = 6 /\ UserCfg[1] = "/" /\ UserCfg[2] = "home"
      /\ UserCfg[3] = "/" /\ UserCfg[4] = "user" /\ UserCfg[5] = "." /\ UserCfg[6] = "cfg"
  BY ProgramsAssumption DEF UserCfg, Symbols
<1>8. p = UserCfg
  <2>1. PICK u : u = UserCfg
    OBVIOUS
  <2>2. /\ u \in Seq(Symbols) /\ Len(u) = 6 /\ u[1] = "/" /\ u[2] = "home"
        /\ u[3] = "/" /\ u[4] = w /\ u[5] = "." /\ u[6] = x
    BY <1>1, <1>7, <2>1
  <2>3. Len(p) = Len(u) /\ \A i \in 1 .. Len(p) : p[i] = u[i]
    BY <1>6, <2>2
  <2>4. p = u
    BY <1>6, <2>2, <2>3, SameSymbols
  <2> QED
    BY <2>1, <2>4
<1>9. [dirs |-> d, name |-> <<w>>, ext |-> e] \in Known
  <2>1. PICK n : n = <<w>>
    OBVIOUS
  <2>2. d \in {<<>>, <<<<"home">>>>} /\ n \in {<<v>> : v \in Words} /\ e \in {<<>>} \cup {<<v>> : v \in Words}
    BY <1>2, <2>1
  <2>3. PICK D, N, E : /\ D = {<<>>, <<<<"home">>>>} /\ N = {<<v>> : v \in Words}
                       /\ E = {<<>>} \cup {<<v>> : v \in Words}
    OBVIOUS
  <2>4. Known = {[dirs |-> a, name |-> b, ext |-> c] : a \in D, b \in N, c \in E}
    BY <2>3 DEF Known
  <2>5. d \in D /\ n \in N /\ e \in E
    BY <2>2, <2>3
  <2>6. [dirs |-> d, name |-> n, ext |-> e] \in Known
    BY <2>4, <2>5
  <2> QED
    BY <2>1, <2>6
<1>10. PICK f : f = [dirs |-> d, name |-> <<w>>, ext |-> e]
  OBVIOUS
<1>11. f \in Known /\ Spelled(f) = UserCfg
  BY <1>4, <1>8, <1>9, <1>10
<1>12. f = [dirs |-> <<<<"home">>>>, name |-> <<"user">>, ext |-> <<"cfg">>]
  BY <1>1, <1>2, <1>10
<1> QED
  BY <1>11, <1>12

(* What is spelled is what the code takes it for.                          *)
LEMMA SpelledIsSplit ==
  ASSUME NEW f \in Known
  PROVE  /\ Split(Spelled(f)) = f /\ Shown(Spelled(f)) = Spelled(f)
         /\ f.dirs \in {<<>>, <<<<"home">>>>}
         /\ \E w \in Words : f.name = <<w>>
<1>1. PICK d \in {<<>>, <<<<"home">>>>}, w \in Words, e \in {<<>>} \cup {<<x>> : x \in Words} :
        f = [dirs |-> d, name |-> <<w>>, ext |-> e]
  BY DEF Known
<1>2. PICK p, l :
        /\ p = Spelled(f)
        /\ p \in Seq(Symbols) /\ l \in {1, 3} /\ (d = <<>> <=> l = 1)
        /\ p[1] = "/" /\ p[l] = "/" /\ p[l + 1] = w /\ (l = 3 => p[2] = "home")
        /\ \/ e = <<>> /\ Len(p) = l + 1
           \/ \E x \in Words : e = <<x>> /\ Len(p) = l + 3 /\ p[l + 2] = "." /\ p[l + 3] = x
  <2>1. PICK p, l : p = Spelled([dirs |-> d, name |-> <<w>>, ext |-> e]) /\ SpellsAs(p, l, d, w, e)
    BY Symbolwise
  <2>2. p = Spelled(f)
    BY <1>1, <2>1
  <2> QED
    BY <2>1, <2>2 DEF SpellsAs
<1>3. w # "/" /\ w # "." /\ "home" # "/"
  BY PathsAssumption, ProgramsAssumption
<1>4. LastSlash(p) = l
  <2>1. Len(p) \in Nat /\ l \in 1 .. Len(p) /\ p[l] = "/"
    BY <1>2
  <2>2. ASSUME NEW i \in 1 .. Len(p), l < i PROVE p[i] # "/"
    <3>1. i = l + 1 \/ i = l + 2 \/ i = l + 3
      BY <1>2, <2>2
    <3>2. p[l + 1] # "/"
      BY <1>2, <1>3
    <3>3. l + 2 <= Len(p) => p[l + 2] # "/" /\ p[l + 3] # "/"
      BY <1>2, PathsAssumption
    <3> QED
      BY <1>2, <3>1, <3>2, <3>3
  <2> QED
    BY <2>1, <2>2, LastSlashIs
<1>5. PICK rest : rest = SubSeq(p, l + 1, Len(p))
  OBVIOUS
<1>6. /\ rest \in Seq(Symbols) /\ rest[1] = w
       /\ \/ e = <<>> /\ Len(rest) = 1
          \/ e = <<rest[3]>> /\ Len(rest) = 3 /\ rest[2] = "."
  <2>1. Len(p) \in {l + 1, l + 3} /\ l + 1 \in Nat /\ p[l + 1] = w
    BY <1>2
  <2>2. /\ rest \in Seq(Symbols) /\ Len(rest) = Len(p) - l
        /\ \A i \in 1 .. Len(p) - l : rest[i] = p[l + i]
    BY <1>2, <1>5, <2>1, PartOf
  <2>3. CASE e = <<>> /\ Len(p) = l + 1
    <3>1. Len(rest) = 1 /\ rest[1] = p[l + 1]
      BY <1>2, <2>2, <2>3
    <3> QED
      BY <2>1, <2>2, <2>3, <3>1
  <2>4. ASSUME NEW x \in Words, e = <<x>>, Len(p) = l + 3, p[l + 2] = ".", p[l + 3] = x
        PROVE  rest[1] = w /\ e = <<rest[3]>> /\ Len(rest) = 3 /\ rest[2] = "."
    <3>1. Len(rest) = 3 /\ rest[1] = p[l + 1] /\ rest[2] = p[l + 2] /\ rest[3] = p[l + 3]
      BY <1>2, <2>2, <2>4
    <3> QED
      BY <2>1, <2>4, <3>1
  <2> QED
    BY <1>2, <2>2, <2>3, <2>4
<1>7. End(rest, {".", Nul}) = 2
  BY <1>6, LastPart
<1>12. Shown(p) = p
  <2>1. Nul # "/" /\ Nul # "." /\ \A x \in Words : x # Nul
    BY PathsAssumption DEF Nul
  <2>2. ASSUME NEW i \in 1 .. Len(p) PROVE p[i] # Nul
    <3>1. i = 1 \/ (i = 2 /\ l = 3) \/ i = l \/ i = l + 1 \/ i = l + 2 \/ i = l + 3
      BY <1>2, <2>2
    <3>2. l = 3 => p[2] # Nul
      BY <1>2, <2>1, ProgramsAssumption
    <3>3. p[1] # Nul /\ p[l] # Nul /\ p[l + 1] # Nul
      BY <1>2, <2>1
    <3>4. i = l + 2 \/ i = l + 3 => p[l + 2] # Nul /\ p[l + 3] # Nul
      <4>1. CASE Len(p) = l + 1
        BY <1>2, <2>2, <4>1
      <4>2. CASE Len(p) = l + 3
        BY <1>2, <2>1, <4>2
      <4> QED
        BY <1>2, <4>1, <4>2
    <3> QED
      BY <3>1, <3>2, <3>3, <3>4
  <2> QED
    BY <1>2, <2>2, ShownWhole
<1>8. Split(p) = [dirs |-> Between(Forced(SubSeq(p, 1, l))),
                   name |-> SubSeq(rest, 1, 1), ext |-> Shown(SubSeq(rest, 3, Len(rest)))]
  <2>1. PICK m : m = End(rest, {".", Nul})
    OBVIOUS
  <2>2. SubSeq(p, LastSlash(Shown(p)) + 1, Len(p)) = rest
    BY <1>4, <1>5, <1>12
  <2>3. Split(p) = [dirs |-> Between(Forced(SubSeq(p, 1, LastSlash(Shown(p))))),
                    name |-> SubSeq(rest, 1, m - 1),
                    ext |-> Shown(SubSeq(rest, m + 1, Len(rest)))]
    BY <2>1, <2>2 DEF Split
  <2>4. m = 2 /\ m - 1 = 1 /\ m + 1 = 3
    BY <1>7, <2>1
  <2> QED
    BY <1>4, <1>12, <2>3, <2>4
<1>9. SubSeq(rest, 1, 1) = <<w>>
  <2>1. PICK n : n = SubSeq(rest, 1, 1)
    OBVIOUS
  <2>2. n \in Seq(Symbols) /\ Len(n) = 1 /\ n[1] = w
    BY <1>6, <2>1
  <2> QED
    BY <2>1, <2>2, OneElement
<1>10. SubSeq(rest, 3, Len(rest)) = e
  <2>1. CASE Len(rest) = 1
    BY <1>6, <2>1
  <2>2. CASE Len(rest) = 3
    <3>1. PICK n : n = SubSeq(rest, 3, 3)
      OBVIOUS
    <3>2. n \in Seq(Symbols)
      <4>1. rest \in Seq(Symbols) /\ 3 \in 1 .. Len(rest) + 1 /\ 3 \in 0 .. Len(rest)
        BY <1>6, <2>2
      <4> QED
        BY <3>1, <4>1, PartIn
    <3>3. Len(n) = 1 /\ n[1] = rest[3]
      BY <1>6, <2>2, <3>1
    <3> QED
      BY <1>6, <2>2, <3>1, <3>2, <3>3, OneElement
  <2> QED
    BY <1>6, <2>1, <2>2
<1>13. Shown(e) = e
  <2>1. CASE e = <<>>
    <3>1. e \in Seq(Symbols) /\ \A i \in 1 .. Len(e) : e[i] # Nul
      BY <2>1
    <3> QED
      BY <3>1, ShownWhole
  <2>2. ASSUME NEW x \in Words, e = <<x>> PROVE Shown(e) = e
    <3>1. x # Nul
      BY PathsAssumption
    <3>2. e \in Seq(Words) /\ \A i \in 1 .. Len(e) : e[i] # Nul
      BY <2>2, <3>1
    <3> QED
      BY <3>2, ShownWhole
  <2> QED
    BY <1>2, <2>1, <2>2
<1>11. Between(Forced(SubSeq(p, 1, l))) = d
  <2>1. PICK front : front = SubSeq(p, 1, l)
    OBVIOUS
  <2>2. front \in Seq(Symbols) /\ Len(front) = l /\ \A i \in 1 .. l : front[i] = p[i]
    <3>1. /\ front \in Seq(Symbols) /\ Len(front) = l - 1 + 1
          /\ \A i \in 1 .. l - 1 + 1 : front[i] = p[0 + i]
      BY <1>2, <2>1, PartOf
    <3> QED
      BY <1>2, <3>1
  <2>3. front # <<>> /\ Is(front, 1, "/")
    <3>1. 1 \in 1 .. Len(front) /\ front[1] = "/"
      BY <1>2, <2>2
    <3>2. front # <<>>
      BY <3>1
    <3> QED
      BY <3>1, <3>2 DEF Is
  <2>4. Forced(front) = front
    BY <2>3 DEF Forced, Is
  <2>5. Between(front) = d
    <3>1. CASE l = 1
      <4>1. Len(front) = 1 /\ front[1] = "/" /\ d = <<>>
        BY <1>2, <2>2, <3>1
      <4> QED
        BY <4>1, RootOnly
    <3>2. CASE l = 3
      <4>1. /\ front \in Seq(Symbols) /\ Len(front) = 3 /\ d = <<<<"home">>>>
            /\ front[1] = "/" /\ front[2] = "home" /\ front[3] = "/"
        BY <1>2, <2>2, <3>2
      <4> QED
        BY <4>1, HomeOnly
    <3> QED
      BY <1>2, <3>1, <3>2
  <2> QED
    BY <2>1, <2>4, <2>5
<1> QED
  BY <1>1, <1>2, <1>8, <1>9, <1>10, <1>11, <1>12, <1>13

-----------------------------------------------------------------------------
(* What files hold.                                                        *)

(* The root directory is "root" and home is "home".                        *)
LEMMA Homes ==
  ASSUME Sound(tables)
  PROVE  Directory(<<>>) = {"root"} /\ Directory(<<<<"home">>>>) = {"home"}
<1>1. Directory(<<>>) = {"root"}
  <2>1. PICK d : d = <<>> /\ Len(d) = 0
    OBVIOUS
  <2>2. PICK h : Walk(d, h)
    BY <2>1, DirectoryUnfolds DEF AllWalk
  <2>3. Directory(d) = {"root"}
    BY <2>1, <2>2 DEF Walk
  <2> QED
    BY <2>1, <2>3
<1>2. Enter("root", <<"home">>) = {"home"}
  <2>1. PICK h \in 1 .. Slots :
          /\ tables["root"][h].table = "home"
          /\ \A s \in 1 .. Slots :
               tables["root"][s].name = <<"home">> /\ tables["root"][s].table # "none" <=> s = h
    BY DEF Sound, HasHome
  <2> DEFINE match(s) == tables["root"][s].name = <<"home">> /\ tables["root"][s].table # "none"
             first(r) == match(r) /\ \A q \in 1 .. r - 1 : tables["root"][q].name # <<>> /\ ~match(q)
  <2>2. \A s \in 1 .. Slots : match(s) <=> s = h
    BY <2>1
  <2>3. \A q \in 1 .. h - 1 : q \in 1 .. Slots /\ q < h
    BY ProgramsAssumption
  <2>4. \A q \in 1 .. h - 1 : tables["root"][q].name # <<>>
    <3>1. tables["root"][h].name # <<>>
      <4>1. tables["root"][h].name = <<"home">>
        BY <2>2
      <4> QED
        BY <4>1
    <3>2. "root" \in DOMAIN tables \ {"block0"}
      BY DEF Sound, Shaped
    <3> QED
      BY <2>3, <3>1, <3>2 DEF Sound, InOrder
  <2>5. \A r \in 1 .. Slots : first(r) <=> r = h
    BY <2>2, <2>3, <2>4
  <2>6. Enter("root", <<"home">>) = {tables["root"][s].table : s \in {r \in 1 .. Slots : first(r)}}
    BY DEF Enter
  <2>7. {r \in 1 .. Slots : first(r)} = {h}
    BY <2>5
  <2> HIDE DEF first
  <2> QED
    BY <2>1, <2>6, <2>7
<1>3. Directory(<<<<"home">>>>) = {"home"}
  <2>1. PICK d : d = <<<<"home">>>> /\ Len(d) = 1 /\ d[1] = <<"home">>
    <3>1. PICK x : x = <<"home">>
      OBVIOUS
    <3>2. Len(<<x>>) = 1 /\ <<x>>[1] = x
      OBVIOUS
    <3> QED
      BY <3>1, <3>2
  <2>2. PICK h : Walk(d, h)
    BY <2>1, DirectoryUnfolds DEF AllWalk
  <2>3. h[0] = {"root"} /\ h[1] = UNION {Enter(t, <<"home">>) : t \in h[0]} /\ Directory(d) = h[1]
    BY <2>1, <2>2 DEF Walk, Into
  <2>4. Directory(d) = {"home"}
    BY <1>2, <2>3
  <2> QED
    BY <2>1, <2>4
<1> QED
  BY <1>1, <1>3

LEMMA FilesAreNamed ==
  ASSUME NEW f \in Files
  PROVE  /\ f \in Known /\ Spelled(f) \in Paths /\ Parts[Spelled(f)] = f
         /\ f.name \notin {<<>>, Deleted}
<1>1. f \in Known /\ Spelled(f) \in Paths
  BY DEF Files, Paths
<1>2. Parts[Spelled(f)] = f
  BY <1>1, SpelledIsSplit DEF Parts
<1>3. PICK w \in Words : f.name = <<w>>
  BY <1>1, SpelledIsSplit
<1>4. w # Deleted[1] /\ f.name[1] = w /\ Len(f.name) = 1
  BY <1>3, ProgramsAssumption
<1> QED
  BY <1>1, <1>2, <1>4

(* The record that holds a file is the one its spelling names.             *)
LEMMA HoldingIsHits ==
  ASSUME Sound(tables), NEW f \in Files, NEW q \in Paths, Parts[q] = f
  PROVE  Holding(f) = Hits(q)
<1>1. f.name # <<>> /\ f \in Known
  BY FilesAreNamed
<1>2. PICK t : t = IF f.dirs = <<>> THEN "root" ELSE f.dirs[1][1]
  OBVIOUS
<1>3. Directory(Parts[q].dirs) = {t}
  <2>1. CASE f.dirs = <<>>
    BY <1>2, <2>1, Homes
  <2>2. CASE f.dirs = <<<<"home">>>>
    BY <1>2, <2>2, Homes
  <2> QED
    BY <1>1, <2>1, <2>2, SpelledIsSplit
<1>4. \A r : Fits(r, q) <=> r.name = f.name /\ r.ext = f.ext
  BY DEF Fits
<1>5. \A a : a \in Hits(q) <=> First(t, q, a)
  BY <1>3, HitsAreFirst
<1>6. \A a : First(t, q, a) <=>
        /\ a \in Places(t) /\ Record(a).name = f.name /\ Record(a).ext = f.ext
        /\ \A b \in Places(t) : Earlier(b, a) =>
             Record(b).name # <<>> /\ ~(Record(b).name = f.name /\ Record(b).ext = f.ext)
  BY <1>1, <1>4 DEF First
<1>7. \A a : a \in Holding(f) <=>
        /\ a \in Places(t) /\ Record(a).name = f.name /\ Record(a).ext = f.ext
        /\ \A b \in Places(t) : Earlier(b, a) =>
             Record(b).name # <<>> /\ ~(Record(b).name = f.name /\ Record(b).ext = f.ext)
  BY <1>2 DEF Holding
<1>8. \A a : a \in Holding(f) <=> a \in Hits(q)
  BY <1>5, <1>6, <1>7
<1> QED
  BY <1>8

Contents == Plain \cup Code

(* What a file holds is in the record a path to it names.                  *)
ContentIsHit ==
  Sound(tables) => \A f \in Files, q \in Paths : Parts[q] = f =>
    /\ Hits(q) = {} => Content(f) = Absent
    /\ \A a \in Hits(q) : Content(f) = Record(a).data /\ Content(f) \in Contents
    /\ Content(f) \in Contents \cup {Absent} /\ (Content(f) = Absent => Hits(q) = {})

LEMMA ContentsAreHits == ContentIsHit
<1> SUFFICES ASSUME Sound(tables), NEW f \in Files, NEW q \in Paths, Parts[q] = f
             PROVE  /\ Hits(q) = {} => Content(f) = Absent
                    /\ \A a \in Hits(q) : Content(f) = Record(a).data /\ Content(f) \in Contents
                    /\ Content(f) \in Contents \cup {Absent} /\ (Content(f) = Absent => Hits(q) = {})
  BY DEF ContentIsHit
<1>1. Holding(f) = Hits(q)
  BY HoldingIsHits
<1>2. Absent \notin Contents
  BY ProgramsAssumption DEF Contents
<1>3. CASE Hits(q) = {}
  <2>1. Content(f) = Absent
    BY <1>1, <1>3 DEF Content
  <2> QED
    BY <1>3, <2>1
<1>4. ASSUME NEW a \in Hits(q) PROVE Content(f) = Record(a).data /\ Content(f) \in Contents
  <2>1. \A b \in Hits(q) : b = a
    BY HitIsOne
  <2>2. (CHOOSE b \in Hits(q) : TRUE) = a
    BY <2>1
  <2>3. Content(f) = Record(a).data
    BY <1>1, <2>2 DEF Content
  <2>4. Sized(Record(a))
    BY HitIsOne DEF Sound, Record
  <2> QED
    BY <2>3, <2>4 DEF Sized, Contents
<1> QED
  BY <1>2, <1>3, <1>4

LEMMA SameNames ==
  /\ Files' = Files /\ Paths' = Paths /\ Parts' = Parts /\ Contents' = Contents
  /\ \A r, p : Fits(r, p)' = Fits(r, p)
<1>1. Paths' = Paths /\ Parts' = Parts /\ Contents' = Contents
  BY DEF Paths, Parts, ShellBin, SetupBin, InitCfg, UserCfg, Contents, Plain, Names
<1>2. Files' = Files
  BY DEF Files, Known, UserCfg
<1>3. \A r, p : Fits(r, p)' = Fits(r, p)
  BY DEF Fits, Paths, Parts, ShellBin, SetupBin, InitCfg, UserCfg
<1> QED
  BY <1>1, <1>2, <1>3

LEMMA ContentAfter ==
  ASSUME Sound(tables)', NEW f \in Files, NEW q \in Paths, Parts[q] = f
  PROVE  /\ Hits(q)' = {} => Content(f)' = Absent
         /\ \A a \in Hits(q)' : Content(f)' = Record(a)'.data
         /\ Content(f)' \in Contents \cup {Absent}
<1>1. ContentIsHit'
  BY ContentsAreHits, PTL
<1>2. \A g \in Files', p \in Paths' : (Parts[p])' = g =>
        /\ Hits(p)' = {} => Content(g)' = Absent
        /\ \A a \in Hits(p)' : Content(g)' = Record(a)'.data
        /\ Content(g)' \in Contents' \cup {Absent}
  BY <1>1 DEF ContentIsHit
<1>3. f \in Files' /\ q \in Paths' /\ (Parts[q])' = f /\ Contents' = Contents
  BY SameNames
<1> QED
  BY <1>2, <1>3

(* A path that leads to another file than the changed record names as it   *)
(* did.                                                                    *)
LEMMA OthersKept ==
  ASSUME Sound(tables), NEW a, NEW r, Put(a, r), NEW q \in Paths,
         a[1] \in Directory(Parts[q].dirs) => ~Fits(Record(a), q) /\ ~Fits(r, q)
  PROVE  Hits(q)' = Hits(q) /\ \A b \in Hits(q) : Record(b)' = Record(b)
<1>1. /\ a[1] \in DOMAIN tables /\ a[1] # "block0" /\ a[2] \in 1 .. Slots
      /\ Record(a)' = r /\ a = <<a[1], a[2]>> /\ (Record(a).name # <<>> => r.name # <<>>)
  BY PutRecord DEF Put, Record
<1>2. a \notin Hits(q)
  BY HitIsOne, HitIsRecord
<1>3. Directory(Parts[q].dirs)' = Directory(Parts[q].dirs)
  BY PutKeepsDirectories
<1>4. /\ \A u, s : Fits(u, s)' = Fits(u, s)
      /\ \A t : Places(t)' = Places(t)
      /\ \A c, e : Earlier(c, e)' = Earlier(c, e)
  BY DEF Fits, Parts, Paths, ShellBin, SetupBin, InitCfg, UserCfg, Places, Earlier
<1>5. ASSUME NEW t \in Directory(Parts[q].dirs), NEW c \in Places(t), c # a
      PROVE  Record(c)' = Record(c)
  <2>1. c[1] \in {t, "block0"} /\ c[2] \in 1 .. Slots /\ c = <<c[1], c[2]>>
    BY <1>5, PlaceParts
  <2>2. t \in DOMAIN tables /\ "block0" \in DOMAIN tables
    BY PartsOfPaths, DirectoryIsOne DEF Sound, Shaped
  <2> QED
    BY <1>1, <1>5, <2>1, <2>2, PutRecord DEF Record
<1>6. ASSUME NEW b \in Hits(q) PROVE b \in Hits(q)' /\ Record(b)' = Record(b)
  <2>1. PICK t \in Directory(Parts[q].dirs) : First(t, q, b)
    BY HitsAreFirst
  <2>2. b # a /\ b \in Places(t)
    BY <1>2, <2>1 DEF First
  <2>3. Record(b)' = Record(b)
    BY <1>5, <2>2
  <2>4. ASSUME NEW c \in Places(t), Earlier(c, b)
        PROVE  Record(c)'.name # <<>> /\ ~Fits(Record(c)', q)
    <3>1. Record(c).name # <<>> /\ ~Fits(Record(c), q)
      BY <2>1, <2>4 DEF First
    <3>2. CASE c = a
      <4>1. a[1] = t
        BY <1>1, <3>2, PlaceParts
      <4> QED
        BY <1>1, <3>1, <3>2, <4>1
    <3>3. CASE c # a
      BY <1>5, <3>1, <3>3
    <3> QED
      BY <3>2, <3>3
  <2>5. First(t, q, b)'
    BY <1>4, <2>1, <2>3, <2>4 DEF First
  <2> QED
    BY <1>3, <2>3, <2>5, HitsAreFirst
<1>7. ASSUME NEW b \in Hits(q)' PROVE b \in Hits(q)
  <2>1. CASE b # a
    BY <1>2, <1>7, <2>1, HitsAfterPut
  <2>2. CASE b = a
    <3>1. PICK t \in Directory(Parts[q].dirs) : First(t, q, a)'
      BY <1>3, <1>7, <2>2, HitsAreFirst
    <3>2. a \in Places(t) /\ Fits(Record(a)', q)
      BY <1>4, <3>1 DEF First
    <3>3. a[1] = t
      BY <1>1, <3>2, PlaceParts
    <3> QED
      BY <1>1, <3>2, <3>3
  <2> QED
    BY <2>1, <2>2
<1> QED
  BY <1>6, <1>7

(* A record put where its path looks for it is found.                      *)
LEMMA PutIsHit ==
  ASSUME Sound(tables), NEW a, NEW r, Put(a, r), NEW p \in Paths,
         a[1] \in Directory(Parts[p].dirs), Fits(r, p), r.name # <<>>,
         \A s \in 1 .. a[2] - 1 : ~Fits(tables[a[1]][s], p)
  PROVE  a \in Hits(p)' /\ Record(a)' = r
<1>1. /\ a[1] \in DOMAIN tables /\ a[1] # "block0" /\ a[2] \in 1 .. Slots
      /\ Record(a)' = r /\ a = <<a[1], a[2]>>
      /\ \A s \in 1 .. a[2] - 1 : tables[a[1]][s].name # <<>>
  BY PutRecord DEF Put, Record
<1>2. Directory(Parts[p].dirs)' = Directory(Parts[p].dirs)
  BY PutKeepsDirectories
<1>3. /\ \A u, s : Fits(u, s)' = Fits(u, s)
      /\ \A t : Places(t)' = Places(t)
      /\ \A c, e : Earlier(c, e)' = Earlier(c, e)
  BY DEF Fits, Parts, Paths, ShellBin, SetupBin, InitCfg, UserCfg, Places, Earlier
<1>4. ASSUME NEW c \in Places(a[1]), Earlier(c, a)
      PROVE  Record(c)'.name # <<>> /\ ~Fits(Record(c)', p)
  <2>1. c[1] = a[1] /\ c[2] < a[2] /\ c[2] \in 1 .. Slots
    BY <1>1, <1>4, PlaceParts DEF Earlier
  <2>2. c[2] \in 1 .. a[2] - 1
    BY <1>1, <2>1, ProgramsAssumption
  <2>3. Record(c)' = tables[a[1]][c[2]]
    BY <1>1, <2>1, PutRecord DEF Record
  <2> QED
    BY <1>1, <2>2, <2>3
<1>5. a \in Places(a[1])
  BY <1>1 DEF Places
<1>6. First(a[1], p, a)'
  BY <1>1, <1>3, <1>4, <1>5 DEF First
<1> QED
  BY <1>1, <1>2, <1>6, HitsAreFirst

(* A path that names nothing has no record that fits before a gap.         *)
LEMMA NothingBefore ==
  ASSUME Sound(tables), NEW p \in Paths, Hits(p) = {}, Parts[p].name # <<>>,
         NEW t \in Directory(Parts[p].dirs), NEW n \in 1 .. Slots,
         \A s \in 1 .. n - 1 : tables[t][s].name # <<>>
  PROVE  \A s \in 1 .. n - 1 : ~Fits(tables[t][s], p)
<1> DEFINE T == {s \in 1 .. n - 1 : Fits(tables[t][s], p)}
<1> SUFFICES ASSUME T # {} PROVE FALSE
  OBVIOUS
<1>1. T \subseteq Nat
  OBVIOUS
<1>2. PICK m \in T : \A s \in T : m <= s
  <2> HIDE DEF T
  <2> QED
    BY <1>1, LeastOf
<1>3. m \in 1 .. n - 1 /\ m \in 1 .. Slots /\ Fits(tables[t][m], p)
  BY ProgramsAssumption
<1>4. ASSUME NEW s \in 1 .. n - 1, s < m PROVE ~Fits(tables[t][s], p)
  <2>1. s \notin T
    <3> HIDE DEF T
    <3> QED
      BY <1>2, <1>3, <1>4
  <2> QED
    BY <2>1
<1> HIDE DEF T
<1>5. PICK b : b = <<t, m>>
  OBVIOUS
<1>6. t # "block0"
  BY PartsOfPaths, DirectoryIsOne
<1>7. b \in Places(t) /\ Record(b) = tables[t][m] /\ b[1] = t /\ b[2] = m
  BY <1>3, <1>5 DEF Places, Record
<1>8. ASSUME NEW c \in Places(t), Earlier(c, b)
      PROVE  Record(c).name # <<>> /\ ~Fits(Record(c), p)
  <2>1. c[1] = t /\ c[2] < m /\ c[2] \in 1 .. Slots
    BY <1>6, <1>7, <1>8, PlaceParts DEF Earlier
  <2>2. c[2] \in 1 .. n - 1
    BY <1>3, <2>1, ProgramsAssumption
  <2> QED
    BY <1>4, <2>1, <2>2 DEF Record
<1>9. First(t, p, b)
  BY <1>3, <1>7, <1>8 DEF First
<1> QED
  BY <1>9, HitsAreFirst

-----------------------------------------------------------------------------
(* The files of FileStore.                                                 *)

Store == [f \in Files |-> Content(f)]

LEMMA StoreIs ==
  /\ DOMAIN Store = Files /\ \A f \in Files : Store[f] = Content(f)
  /\ DOMAIN Store' = Files /\ \A f \in Files : Store'[f] = Content(f)'
  /\ Store = [f \in Files |-> Content(f)] /\ Store' = [f \in Files |-> Content(f)']
<1>1. Files' = Files
  BY SameNames
<1> QED
  BY <1>1 DEF Store

LEMMA StoreSet ==
  ASSUME NEW f \in Files, \A g \in Files : g # f => Content(g)' = Content(g)
  PROVE  Store' = [Store EXCEPT ![f] = Content(f)']
BY StoreIs

LEMMA StoreKept ==
  ASSUME Sound(tables), UNCHANGED tables
  PROVE  Store' = Store
<1>1. Sound(tables)'
  BY SameSound
<1>2. ASSUME NEW f \in Files PROVE Content(f)' = Content(f)
  <2>1. PICK q \in Paths : Parts[q] = f
    BY FilesAreNamed
  <2>2. Hits(q)' = Hits(q) /\ \A a : Record(a)' = Record(a)
    BY SameHits
  <2>3. /\ Hits(q) = {} => Content(f) = Absent
        /\ \A a \in Hits(q) : Content(f) = Record(a).data
    BY <2>1, ContentsAreHits DEF ContentIsHit
  <2>4. /\ Hits(q)' = {} => Content(f)' = Absent
        /\ \A a \in Hits(q)' : Content(f)' = Record(a)'.data
    BY <1>1, <2>1, ContentAfter
  <2> QED
    BY <2>2, <2>3, <2>4
<1> QED
  BY <1>2, StoreIs

(* A record that is put, before and after only named by p, changes no      *)
(* other file.                                                             *)
LEMMA OtherFiles ==
  ASSUME Sound(tables), NEW a, NEW r, Put(a, r), NEW p \in Paths,
         a[1] \in Directory(Parts[p].dirs),
         Record(a).name \in {<<>>, Deleted} \/ Fits(Record(a), p),
         r.name = Deleted \/ Fits(r, p),
         NEW g \in Files, g # Parts[p]
  PROVE  Content(g)' = Content(g)
<1>1. PICK q \in Paths : Parts[q] = g /\ g.name \notin {<<>>, Deleted}
  BY FilesAreNamed
<1>2. \A x : Fits(x, q) /\ Fits(x, p) => Parts[p].name = Parts[q].name /\ Parts[p].ext = Parts[q].ext
  BY DEF Fits
<1>3. ASSUME a[1] \in Directory(Parts[q].dirs) PROVE ~Fits(Record(a), q) /\ ~Fits(r, q)
  <2>1. \A x : ~(Fits(x, q) /\ Fits(x, p))
    BY <1>1, <1>2, <1>3, SamePlaceSameFile
  <2>2. \A x : x.name \in {<<>>, Deleted} => ~Fits(x, q)
    BY <1>1 DEF Fits
  <2> QED
    BY <2>1, <2>2
<1>4. Hits(q)' = Hits(q) /\ \A b \in Hits(q) : Record(b)' = Record(b)
  BY <1>3, OthersKept
<1>5. Sound(tables)'
  BY PutIsSound
<1>6. /\ Hits(q) = {} => Content(g) = Absent
      /\ \A b \in Hits(q) : Content(g) = Record(b).data
  BY <1>1, ContentsAreHits DEF ContentIsHit
<1>7. /\ Hits(q)' = {} => Content(g)' = Absent
      /\ \A b \in Hits(q)' : Content(g)' = Record(b)'.data
  BY <1>1, <1>5, ContentAfter
<1> QED
  BY <1>4, <1>6, <1>7

(* What the shell says of a usual spelling, and what of another.           *)
LEMMA Answered ==
  ASSUME NEW c, NEW p \in Paths, NEW x, Say(c, p, x)
  PROVE  \/ \E f \in Files : Parts[p] = f /\ said' = [command |-> c, file |-> f, answer |-> x]
         \/ said' \in {Quiet, Misled}
<1> DEFINE meant == {f \in Files : Spelled(f) = Shown(p)}
<1>1. said' = IF p \in Misread THEN Misled
              ELSE IF meant = {} THEN Quiet
              ELSE [command |-> c, file |-> CHOOSE f \in meant : TRUE, answer |-> x]
  BY DEF Say
<1>2. ASSUME p \notin Misread, NEW f \in meant PROVE f \in Files /\ Parts[p] = f
  <2>1. Parts[p] = Split(Shown(p))
    BY <1>2 DEF Misread
  <2>2. f \in Files /\ f \in Known /\ Spelled(f) = Shown(p)
    BY DEF Files
  <2> QED
    BY <2>1, <2>2, SpelledIsSplit
<1>3. meant # {} => (CHOOSE f \in meant : TRUE) \in meant
  OBVIOUS
<1> HIDE DEF meant
<1> QED
  BY <1>1, <1>2, <1>3

(* A program or an unusual spelling changes one file at most.              *)
LEMMA QuietStep ==
  ASSUME Sound(tables)', strange' = strange, said' \in {Quiet, Misled}, NEW p,
         \A g \in Files : g # Parts[p] => Content(g)' = Content(g)
  PROVE  Shell!Next
<1>1. \A f \in Files : Content(f)' \in Contents \cup {Absent}
  <2> SUFFICES ASSUME NEW f \in Files PROVE Content(f)' \in Contents \cup {Absent}
    OBVIOUS
  <2>1. PICK q \in Paths : Parts[q] = f
    BY FilesAreNamed
  <2> QED
    BY <2>1, ContentAfter
<1>2. \E f \in Files : Store' = [Store EXCEPT ![f] = Content(f)']
  <2>1. CASE Parts[p] \in Files
    <3>1. PICK f \in Files : f = Parts[p]
      BY <2>1
    <3>2. Store' = [Store EXCEPT ![f] = Content(f)']
      BY <3>1, StoreSet
    <3> QED
      BY <3>2
  <2>2. CASE Parts[p] \notin Files
    <3>1. PICK f : f \in Files
      <4>1. PICK f : f = [dirs |-> <<<<"home">>>>, name |-> <<"user">>, ext |-> <<"cfg">>]
        OBVIOUS
      <4>2. f \in Known /\ Spelled(f) = UserCfg
        BY <4>1, UserCfgSpelled
      <4> QED
        BY <4>2 DEF Files
    <3>2. \A g \in Files : g # f => Content(g)' = Content(g)
      BY <2>2
    <3> QED
      BY <3>1, <3>2, StoreSet
  <2> QED
    BY <2>1, <2>2
<1>3. PICK f \in Files : Shell!Quietly(f)
  <2>1. PICK f \in Files : Store' = [Store EXCEPT ![f] = Content(f)']
    BY <1>2
  <2>2. Store'[f] = Content(f)' /\ Content(f)' \in Contents \cup {Absent}
    BY <1>1, StoreIs
  <2>3. Store' = [Store EXCEPT ![f] = Store'[f]]
    BY <2>1, <2>2
  <2>4. Shell!Quietly(f)
    BY <2>2, <2>3, StoreIs DEF Shell!Quietly, Contents
  <2> QED
    BY <2>4
<1> QED
  BY <1>3 DEF Shell!Next

-----------------------------------------------------------------------------
(* The commands keep the promises of FileStore.                            *)

(* What may be written is shorter than a block.                            *)
LEMMA PlainIsShort ==
  ASSUME NEW d \in Plain
  PROVE  Len(d) \in 0 .. Block - 1 /\ SubSeq(d, 1, Len(d)) = d
<1>0. Block \in Nat /\ Block > 0 /\ NameSize \in Nat /\ NameSize + 1 < Block
  BY ProgramsAssumption
<1>1. \E S : d \in Seq(S) /\ Len(d) < Block
  <2>1. CASE d = <<>>
    <3>1. d \in Seq({}) /\ Len(d) = 0
      BY <2>1
    <3> QED
      BY <1>0, <3>1
  <2>2. CASE d \in Texts
    <3>1. Len(d) \in 0 .. Block - 1 /\ d = [i \in 1 .. Len(d) |-> d[i]]
      BY <2>2, ProgramsAssumption
    <3>2. PICK n \in Nat : n = Len(d)
      BY <1>0, <3>1
    <3>3. PICK S : S = {d[i] : i \in 1 .. n}
      OBVIOUS
    <3>4. d \in [1 .. n -> S]
      BY <3>1, <3>2, <3>3
    <3>5. d \in Seq(S)
      BY <3>2, <3>4
    <3> QED
      BY <1>0, <3>1, <3>5
  <2>3. ASSUME NEW n \in Names, d = <<"user:">> \o n
        PROVE  \E S : d \in Seq(S) /\ Len(d) < Block
    <3>1. n \in Seq(Keys) /\ Len(n) <= NameSize
      BY NamesAreSequences
    <3>2. PICK S : S = Keys \cup {"user:"}
      OBVIOUS
    <3>3. n \in Seq(S) /\ <<"user:">> \in Seq(S) /\ Len(<<"user:">>) = 1
      BY <3>1, <3>2
    <3>4. d \in Seq(S) /\ Len(d) = 1 + Len(n)
      BY <2>3, <3>3
    <3> QED
      BY <1>0, <3>1, <3>4
  <2> QED
    BY <2>1, <2>2, <2>3 DEF Plain
<1>2. PICK S : d \in Seq(S) /\ Len(d) < Block
  BY <1>1
<1>3. Len(d) \in 0 .. Block - 1
  BY <1>0, <1>2
<1>4. SubSeq(d, 1, Len(d)) = d
  BY <1>2
<1> QED
  BY <1>3, <1>4

(* What cat copies of a record: nothing of a program, all of a text.       *)
LEMMA CopiedIs ==
  ASSUME NEW a, Sized(Record(a))
  PROVE  \/ Record(a).data \in Code /\ Copied(a, Block) = <<>>
         \/ Record(a).data \in Plain /\ Copied(a, Block) = Record(a).data
<1>1. PICK d, n : d = Record(a).data /\ n = Record(a).size
  OBVIOUS
<1>2. Copied(a, Block) = SubSeq(d, 1, Min({Block, n}) % Block)
  BY <1>1 DEF Copied
<1>3. Block \in Nat /\ Block > 0
  BY ProgramsAssumption
<1>4. (d \in Code /\ n = Block) \/ (d \in Plain /\ n = Len(d))
  BY <1>1 DEF Sized
<1>5. CASE d \in Code /\ n = Block
  <2>1. PICK m : m = Min({Block, n})
    OBVIOUS
  <2>2. m = Block
    BY <1>3, <1>5, <2>1 DEF Min
  <2>3. m % Block = 0
    BY <1>3, <2>2
  <2>4. SubSeq(d, 1, 0) = <<>>
    OBVIOUS
  <2> QED
    BY <1>1, <1>2, <1>5, <2>1, <2>3, <2>4
<1>6. CASE d \in Plain /\ n = Len(d)
  <2>1. n \in 0 .. Block - 1 /\ SubSeq(d, 1, n) = d
    BY <1>6, PlainIsShort
  <2>2. PICK m : m = Min({Block, n})
    OBVIOUS
  <2>3. m = n
    BY <1>3, <2>1, <2>2 DEF Min
  <2>4. n % Block = n
    BY <1>3, <2>1
  <2> QED
    BY <1>1, <1>2, <1>6, <2>1, <2>2, <2>3, <2>4
<1> QED
  BY <1>4, <1>5, <1>6

(* A step that leaves the tables alone.                                    *)
LEMMA KeptStep ==
  ASSUME Sound(tables), UNCHANGED tables, strange' = strange
  PROVE  Store' = Store /\ Sound(tables)' /\ (said' \in {Quiet, Misled} => Shell!Next)
<1>1. Store' = Store
  BY StoreKept
<1>2. Sound(tables)'
  BY SameSound
<1>3. \A g \in Files : Content(g)' = Content(g)
  BY <1>1, StoreIs
<1>4. \A p : \A g \in Files : g # Parts[p] => Content(g)' = Content(g)
  BY <1>3
<1> QED
  BY <1>1, <1>2, <1>4, QuietStep

(* A step that puts a record that is its path's before and after.          *)
LEMMA PutStep ==
  ASSUME Sound(tables), NEW a, NEW r, Put(a, r), NEW p \in Paths,
         a[1] \in Directory(Parts[p].dirs),
         Record(a).name \in {<<>>, Deleted} \/ Fits(Record(a), p),
         r.name = Deleted \/ Fits(r, p), strange' = strange
  PROVE  /\ Sound(tables)' /\ (said' \in {Quiet, Misled} => Shell!Next)
         /\ \A f \in Files : Parts[p] = f => Store' = [Store EXCEPT ![f] = Content(f)']
<1>1. Sound(tables)'
  BY PutIsSound
<1>2. \A g \in Files : g # Parts[p] => Content(g)' = Content(g)
  BY OtherFiles
<1>3. ASSUME NEW f \in Files, Parts[p] = f
      PROVE  Store' = [Store EXCEPT ![f] = Content(f)']
  BY <1>2, <1>3, StoreSet
<1> QED
  BY <1>1, <1>2, <1>3, QuietStep

(* A hit stays one when a record behind it changes.                        *)
LEMMA HitStays ==
  ASSUME Sound(tables), NEW a, NEW r, Put(a, r), NEW q \in Paths,
         NEW b \in Hits(q), b # a, ~Earlier(a, b)
  PROVE  b \in Hits(q)' /\ Record(b)' = Record(b)
<1>1. /\ a[1] \in DOMAIN tables /\ a[1] # "block0" /\ a[2] \in 1 .. Slots
      /\ a = <<a[1], a[2]>>
  BY PutRecord DEF Put, Record
<1>2. Directory(Parts[q].dirs)' = Directory(Parts[q].dirs)
  BY PutKeepsDirectories
<1>3. /\ \A u, s : Fits(u, s)' = Fits(u, s)
      /\ \A t : Places(t)' = Places(t)
      /\ \A c, e : Earlier(c, e)' = Earlier(c, e)
  BY DEF Fits, Parts, Paths, ShellBin, SetupBin, InitCfg, UserCfg, Places, Earlier
<1>4. PICK t \in Directory(Parts[q].dirs) : First(t, q, b)
  BY HitsAreFirst
<1>5. ASSUME NEW c \in Places(t), c # a
      PROVE  Record(c)' = Record(c)
  <2>1. c[1] \in {t, "block0"} /\ c[2] \in 1 .. Slots /\ c = <<c[1], c[2]>>
    BY <1>5, PlaceParts
  <2>2. t \in DOMAIN tables /\ "block0" \in DOMAIN tables
    BY <1>4, PartsOfPaths, DirectoryIsOne DEF Sound, Shaped
  <2> QED
    BY <1>1, <1>5, <2>1, <2>2, PutRecord DEF Record
<1>6. b \in Places(t) /\ Record(b)' = Record(b)
  BY <1>4, <1>5 DEF First
<1>7. ASSUME NEW c \in Places(t), Earlier(c, b)
      PROVE  Record(c)'.name # <<>> /\ ~Fits(Record(c)', q)
  <2>1. c # a
    BY <1>7
  <2>2. Record(c).name # <<>> /\ ~Fits(Record(c), q)
    BY <1>4, <1>7 DEF First
  <2> QED
    BY <1>5, <2>1, <2>2
<1>8. First(t, q, b)'
  BY <1>3, <1>4, <1>6, <1>7 DEF First
<1> QED
  BY <1>2, <1>4, <1>6, <1>8, HitsAreFirst

LEMMA CheckRefines ==
  ASSUME Sound(tables), NEW p \in Paths, Check(p)
  PROVE  Shell!Next
<1> DEFINE x == IF Hits(p) = {} THEN No ELSE Yes
<1>1. Say("is", p, x) /\ UNCHANGED tables /\ strange' = strange
  BY DEF Check
<1>2. Store' = Store /\ (said' \in {Quiet, Misled} => Shell!Next)
  BY <1>1, KeptStep
<1>3. ASSUME NEW f \in Files, Parts[p] = f, said' = [command |-> "is", file |-> f, answer |-> x]
      PROVE  Shell!Next
  <2>1. Content(f) = Absent <=> Hits(p) = {}
    BY <1>3, ContentsAreHits, ProgramsAssumption DEF ContentIsHit, Contents
  <2>2. Store[f] = Content(f)
    BY StoreIs
  <2>3. Shell!Check(f)
    BY <1>2, <1>3, <2>1, <2>2, StoreIs DEF Shell!Check, Shell!Say, Shell!There
  <2> QED
    BY <1>1, <2>3 DEF Shell!Next
<1> HIDE DEF x
<1> QED
  BY <1>1, <1>2, <1>3, Answered

LEMMA CatRefines ==
  ASSUME Sound(tables), NEW p \in Paths, Cat(p)
  PROVE  Shell!Next
<1>1. UNCHANGED tables /\ strange' = strange
  BY DEF Cat
<1>2. Store' = Store /\ (said' \in {Quiet, Misled} => Shell!Next)
  BY <1>1, KeptStep
<1>3. CASE Say("cat", p, No)
  <2>1. ASSUME NEW f \in Files, said' = [command |-> "cat", file |-> f, answer |-> No]
        PROVE  Shell!Next
    <3>1. Shell!Cat(f)
      BY <1>2, <2>1, StoreIs DEF Shell!Cat, Shell!Say
    <3> QED
      BY <1>1, <3>1 DEF Shell!Next
  <2> QED
    BY <1>2, <1>3, <2>1, Answered
<1>4. ASSUME NEW a \in Hits(p), Say("cat", p, Copied(a, Block))
      PROVE  Shell!Next
  <2>1. PICK c : c = Copied(a, Block)
    OBVIOUS
  <2>2. Say("cat", p, c)
    BY <1>4, <2>1
  <2>3. ASSUME NEW f \in Files, Parts[p] = f, said' = [command |-> "cat", file |-> f, answer |-> c]
        PROVE  Shell!Next
    <3>1. Content(f) = Record(a).data /\ Store[f] = Content(f)
      BY <2>3, ContentsAreHits, StoreIs DEF ContentIsHit
    <3>2. Sized(Record(a))
      BY HitIsOne DEF Sound, Record
    <3>3. c \in Contents /\ (Store[f] = c \/ Store[f] \in Code)
      <4>1. <<>> \in Plain
        BY DEF Plain
      <4> QED
        BY <2>1, <3>1, <3>2, <4>1, CopiedIs DEF Contents
    <3>4. Shell!Cat(f)
      BY <1>2, <2>3, <3>3, StoreIs DEF Shell!Cat, Shell!Say, Contents
    <3> QED
      BY <1>1, <3>4 DEF Shell!Next
  <2> QED
    BY <1>2, <2>2, <2>3, Answered
<1> QED
  BY <1>3, <1>4 DEF Cat

(* A file's content when the record that its path finds, or would find, is *)
(* put anew.                                                               *)
LEMMA ContentPut ==
  ASSUME Sound(tables), NEW a, NEW r, Put(a, r), NEW p \in Paths,
         a[1] \in Directory(Parts[p].dirs), Fits(r, p), r.name # <<>>,
         \A s \in 1 .. a[2] - 1 : ~Fits(tables[a[1]][s], p),
         NEW f \in Files, Parts[p] = f
  PROVE  Content(f)' = r.data
<1>1. a \in Hits(p)' /\ Record(a)' = r
  BY PutIsHit
<1>2. Sound(tables)'
  BY PutIsSound
<1>3. Content(f)' = Record(a)'.data
  BY <1>1, <1>2, ContentAfter
<1> QED
  BY <1>1, <1>3

LEMMA TouchRefines ==
  ASSUME Sound(tables), ~strange, strange \in BOOLEAN, NEW p \in Paths, Touch(p)
  PROVE  Shell!Next
<1>1. CASE Directory(Parts[p].dirs) = {} /\ Say("touch", p, No) /\ UNCHANGED <<tables, strange, vain>>
  <2>1. Store' = Store /\ (said' \in {Quiet, Misled} => Shell!Next)
    BY <1>1, KeptStep
  <2>2. ASSUME NEW f \in Files, Parts[p] = f PROVE FALSE
    <3>1. f.dirs \in {<<>>, <<<<"home">>>>}
      BY FilesAreNamed, SpelledIsSplit
    <3> QED
      BY <1>1, <2>2, <3>1, Homes
  <2> QED
    BY <1>1, <2>1, <2>2, Answered
<1>2. ASSUME strange' PROVE Shell!Next
  BY <1>2 DEF Shell!Next
<1>3. ASSUME NEW t \in Directory(Parts[p].dirs), Say("touch", p, Yes),
             NEW a \in Gaps(t), Made(p, a), strange' = Misplaced(p, a), ~Misplaced(p, a)
      PROVE  Shell!Next
  <2>1. strange' = strange
    <3>1. strange' \in BOOLEAN
      BY <1>3 DEF Misplaced
    <3> QED
      BY <1>3, <3>1
  <2>2. Put(a, New(p)) /\ a[1] = t
    BY <1>3, MadeIsPut
  <2>3. PICK r : r = New(p)
    OBVIOUS
  <2>4. Put(a, r) /\ a[1] \in Directory(Parts[p].dirs)
    BY <2>2, <2>3
  <2>5. r.name = Parts[p].name /\ r.ext = Parts[p].ext /\ r.data = <<>> /\ Fits(r, p)
    BY <1>3, <2>3 DEF New, Misplaced, Fits
  <2>6. /\ a[1] # "block0" /\ a[2] \in 1 .. Slots /\ Record(a).name \in {<<>>, Deleted}
        /\ \A b \in Places(t) : Earlier(b, a) => Record(b).name \notin {<<>>, Deleted}
    BY <1>3, <2>4, GapIsRecord DEF Put
  <2>7. /\ said' \in {Quiet, Misled} => Shell!Next
        /\ \A f \in Files : Parts[p] = f => Store' = [Store EXCEPT ![f] = Content(f)']
    BY <2>1, <2>4, <2>5, <2>6, PutStep
  <2>8. ASSUME NEW f \in Files, Parts[p] = f, said' = [command |-> "touch", file |-> f, answer |-> Yes]
        PROVE  Shell!Next
    <3>1. f.name \notin {<<>>, Deleted}
      BY FilesAreNamed
    <3>2. Store[f] = Content(f)
      BY StoreIs
    <3>3. CASE Hits(p) = {}
      <4>1. \A s \in 1 .. a[2] - 1 : tables[t][s].name # <<>>
        BY <2>2, <2>4, <2>5, <2>8, <3>1 DEF Put
      <4>2. \A s \in 1 .. a[2] - 1 : ~Fits(tables[a[1]][s], p)
        BY <1>3, <2>2, <2>6, <2>8, <3>1, <3>3, <4>1, NothingBefore
      <4>3. Content(f)' = <<>>
        BY <2>4, <2>5, <2>8, <3>1, <4>2, ContentPut
      <4>4. Content(f) = Absent
        BY <2>8, <3>3, ContentsAreHits DEF ContentIsHit
      <4>5. Store' = [Store EXCEPT ![f] = <<>>]
        BY <2>7, <2>8, <4>3
      <4>6. Shell!Touch(f)
        BY <2>8, <3>2, <4>4, <4>5, StoreIs DEF Shell!Touch, Shell!Say, Shell!There
      <4> QED
        BY <2>1, <4>6 DEF Shell!Next
    <3>4. ASSUME NEW b \in Hits(p) PROVE Shell!Next
      <4>1. ~Earlier(a, b)
        BY <1>3, <3>4 DEF Misplaced
      <4>2. b # a
        <5>1. Fits(Record(b), p)
          BY <3>4, HitIsRecord
        <5> QED
          BY <2>6, <2>8, <3>1, <5>1 DEF Fits
      <4>3. b \in Hits(p)' /\ Record(b)' = Record(b)
        BY <2>4, <3>4, <4>1, <4>2, HitStays
      <4>4. Sound(tables)'
        BY <2>4, PutIsSound
      <4>5. Content(f)' = Record(b)'.data
        BY <2>8, <4>3, <4>4, ContentAfter
      <4>6. Content(f) = Record(b).data /\ Content(f) \in Contents
        BY <2>8, <3>4, ContentsAreHits DEF ContentIsHit
      <4>7. Store' = [Store EXCEPT ![f] = Store[f]]
        BY <2>7, <2>8, <3>2, <4>3, <4>5, <4>6
      <4>8. Store[f] # Absent
        BY <3>2, <4>6, ProgramsAssumption DEF Contents
      <4>9. Shell!Touch(f)
        BY <2>8, <4>7, <4>8, StoreIs DEF Shell!Touch, Shell!Say, Shell!There
      <4> QED
        BY <2>1, <4>9 DEF Shell!Next
    <3> QED
      BY <3>3, <3>4
  <2> QED
    BY <1>3, <2>7, <2>8, Answered
<1> QED
  BY <1>1, <1>2, <1>3 DEF Touch

LEMMA WriteRefines ==
  ASSUME Sound(tables), ~strange, strange \in BOOLEAN, NEW p \in Paths, NEW text \in Texts,
         Write(p, text)
  PROVE  Shell!Next
<1>1. CASE Hits(p) = {} /\ Say("write", p, No) /\ UNCHANGED <<tables, strange, vain>>
  <2>1. Store' = Store /\ (said' \in {Quiet, Misled} => Shell!Next)
    BY <1>1, KeptStep
  <2>2. ASSUME NEW f \in Files, Parts[p] = f, said' = [command |-> "write", file |-> f, answer |-> No]
        PROVE  Shell!Next
    <3>1. Store[f] = Absent
      BY <1>1, <2>2, ContentsAreHits, StoreIs DEF ContentIsHit
    <3>2. Shell!Write(f)
      BY <2>1, <2>2, <3>1, StoreIs DEF Shell!Write, Shell!Say, Shell!There
    <3> QED
      BY <1>1, <3>2 DEF Shell!Next
  <2> QED
    BY <1>1, <2>1, <2>2, Answered
<1>2. ASSUME strange' PROVE Shell!Next
  BY <1>2 DEF Shell!Next
<1>3. ASSUME NEW a \in Hits(p), Overwritten(a, text), Say("write", p, Yes),
             strange' = (Record(a).table # "none"), ~strange'
      PROVE  Shell!Next
  <2>1. strange' = strange /\ Record(a).table = "none"
    BY <1>3
  <2>2. text \in Plain /\ Len(text) \in 0 .. Block
    <3>1. Len(text) \in 0 .. Block - 1
      BY ProgramsAssumption
    <3> QED
      BY <3>1, ProgramsAssumption DEF Plain
  <2>3. PICK r : Put(a, r) /\ r.name = Record(a).name /\ r.ext = Record(a).ext /\ r.data = text
    BY <1>3, <2>1, <2>2, OverwrittenIsPut
  <2>4. Record(a).name # <<>> /\ Fits(Record(a), p)
    BY <1>3, HitIsRecord
  <2>5. Fits(r, p) /\ r.name # <<>>
    BY <2>3, <2>4 DEF Fits
  <2>6. First(a[1], p, a) /\ a[1] \in Directory(Parts[p].dirs) /\ a[2] \in 1 .. Slots /\ a = <<a[1], a[2]>>
    BY <1>3, HitIsOne
  <2>7. ASSUME NEW s \in 1 .. a[2] - 1 PROVE ~Fits(tables[a[1]][s], p)
    <3>1. PICK b : b = <<a[1], s>>
      OBVIOUS
    <3>2. b[1] = a[1] /\ b[2] = s /\ s \in 1 .. Slots /\ s < a[2]
      BY <2>6, <2>7, <3>1, ProgramsAssumption
    <3>3. b \in Places(a[1]) /\ Earlier(b, a)
      BY <3>1, <3>2 DEF Places, Earlier
    <3>4. ~Fits(Record(b), p)
      BY <2>6, <3>3 DEF First
    <3> QED
      BY <3>2, <3>4 DEF Record
  <2>8. /\ said' \in {Quiet, Misled} => Shell!Next
        /\ \A f \in Files : Parts[p] = f => Store' = [Store EXCEPT ![f] = Content(f)']
    BY <2>1, <2>3, <2>4, <2>5, <2>6, PutStep
  <2>9. ASSUME NEW f \in Files, Parts[p] = f, said' = [command |-> "write", file |-> f, answer |-> Yes]
        PROVE  Shell!Next
    <3>1. Content(f)' = text
      BY <2>3, <2>5, <2>6, <2>7, <2>9, ContentPut
    <3>2. Store[f] # Absent
      <4>1. Content(f) \in Contents
        BY <1>3, <2>9, ContentsAreHits DEF ContentIsHit
      <4> QED
        BY <4>1, StoreIs, ProgramsAssumption DEF Contents
    <3>3. text \in Contents /\ Store' = [Store EXCEPT ![f] = text]
      BY <2>2, <2>8, <2>9, <3>1 DEF Contents
    <3>4. Shell!Write(f)
      BY <2>9, <3>2, <3>3, StoreIs DEF Shell!Write, Shell!Say, Shell!There, Contents
    <3> QED
      BY <2>1, <3>4 DEF Shell!Next
  <2> QED
    BY <1>3, <2>8, <2>9, Answered
<1> QED
  BY <1>1, <1>2, <1>3 DEF Write

LEMMA DeleteRefines ==
  ASSUME Sound(tables), ~strange, strange \in BOOLEAN, NEW p \in Paths, Delete(p)
  PROVE  Shell!Next
<1>1. CASE Hits(p) = {} /\ Say("rm", p, No) /\ UNCHANGED <<tables, strange>>
  <2>1. Store' = Store /\ (said' \in {Quiet, Misled} => Shell!Next)
    BY <1>1, KeptStep
  <2>2. ASSUME NEW f \in Files, Parts[p] = f, said' = [command |-> "rm", file |-> f, answer |-> No]
        PROVE  Shell!Next
    <3>1. Store[f] = Absent
      BY <1>1, <2>2, ContentsAreHits, StoreIs DEF ContentIsHit
    <3>2. Store' = [Store EXCEPT ![f] = Absent]
      BY <2>1, <3>1, StoreIs
    <3>3. Shell!Remove(f)
      BY <2>2, <3>2, StoreIs DEF Shell!Remove, Shell!Say
    <3> QED
      BY <1>1, <3>3 DEF Shell!Next
  <2> QED
    BY <1>1, <2>1, <2>2, Answered
<1>2. ASSUME strange' PROVE Shell!Next
  BY <1>2 DEF Shell!Next
<1>3. ASSUME NEW a \in Hits(p), Removed(a), NEW ok \in {Yes, No}, Say("rm", p, ok),
             strange' = (Record(a).table # "none" \/ Hits(p)' # {}), ~strange'
      PROVE  Shell!Next
  <2>1. strange' = strange /\ Record(a).table = "none" /\ Hits(p)' = {}
    BY <1>3
  <2>2. PICK r : Put(a, r) /\ r.name = Deleted
    BY <1>3, <2>1, RemovedIsPut
  <2>3. Fits(Record(a), p) /\ a[1] \in Directory(Parts[p].dirs)
    BY <1>3, HitIsOne, HitIsRecord
  <2>4. /\ Sound(tables)' /\ (said' \in {Quiet, Misled} => Shell!Next)
        /\ \A f \in Files : Parts[p] = f => Store' = [Store EXCEPT ![f] = Content(f)']
    BY <2>1, <2>2, <2>3, PutStep
  <2>5. ASSUME NEW f \in Files, Parts[p] = f, said' = [command |-> "rm", file |-> f, answer |-> ok]
        PROVE  Shell!Next
    <3>1. Content(f)' = Absent
      BY <2>1, <2>4, <2>5, ContentAfter
    <3>2. Store' = [Store EXCEPT ![f] = Absent]
      BY <2>4, <2>5, <3>1
    <3>3. Shell!Remove(f)
      BY <1>3, <2>5, <3>2, StoreIs DEF Shell!Remove, Shell!Say
    <3> QED
      BY <2>1, <3>3 DEF Shell!Next
  <2> QED
    BY <1>3, <2>4, <2>5, Answered
<1> QED
  BY <1>1, <1>2, <1>3 DEF Delete

LEMMA AskRefines ==
  ASSUME Sound(tables), ~strange, strange \in BOOLEAN, Ask
  PROVE  Shell!Next
<1>1. PICK u \in Paths : u = UserCfg
  BY UserCfgIsNamed
<1>2. PICK t \in Directory(Parts[u].dirs) :
        \/ Gaps(t) = {} /\ UNCHANGED tables /\ strange' = TRUE
        \/ \E a \in Gaps(t) : Made(u, a) /\ strange' = Misplaced(u, a)
  BY <1>1 DEF Ask
<1>3. said' = Quiet
  BY DEF Ask
<1>4. ASSUME strange' PROVE Shell!Next
  BY <1>4 DEF Shell!Next
<1>5. ASSUME NEW a \in Gaps(t), Made(u, a), strange' = Misplaced(u, a), ~strange'
      PROVE  Shell!Next
  <2>1. strange' = strange
    <3>1. strange' \in BOOLEAN
      BY <1>5 DEF Misplaced
    <3> QED
      BY <1>5, <3>1
  <2>2. PICK r : r = New(u)
    OBVIOUS
  <2>3. Put(a, r) /\ a[1] \in Directory(Parts[u].dirs)
    BY <1>5, <2>2, MadeIsPut
  <2>4. Fits(r, u)
    BY <1>5, <2>2 DEF New, Misplaced, Fits
  <2>5. Record(a).name \in {<<>>, Deleted}
    BY <1>5, GapIsRecord
  <2> QED
    BY <1>3, <2>1, <2>3, <2>4, <2>5, PutStep
<1> QED
  BY <1>2, <1>4, <1>5

LEMMA AnswerRefines ==
  ASSUME IInv, ~strange, Answer
  PROVE  Shell!Next
<1>1. Sound(tables) /\ strange' = strange /\ said' = Quiet
  BY InvariantParts DEF Answer
<1>2. PICK u \in Paths : u = UserCfg
  BY UserCfgIsNamed
<1>3. CASE Hits(u) = {}
  <2>1. UNCHANGED tables
    BY <1>2, <1>3 DEF Answer
  <2> QED
    BY <1>1, <2>1, KeptStep
<1>4. ASSUME NEW b \in Hits(u) PROVE Shell!Next
  <2> DEFINE text == <<"user:">> \o typed
  <2>1. Len(text) \in 0 .. Block /\ text \in Plain
    <3>1. Len(text) \in 0 .. Block - 1 /\ text \in Plain
      BY InvariantParts, TypedStaysName
    <3> HIDE DEF text
    <3> QED
      BY <3>1, ProgramsAssumption
  <2>2. PICK a \in Hits(u) : Overwritten(a, text)
    BY <1>2, <1>4 DEF Answer
  <2> HIDE DEF text
  <2>3. Fits(Record(a), u) /\ a[1] \in Directory(Parts[u].dirs)
    BY <1>1, HitIsOne, HitIsRecord
  <2>4. Record(a).table = "none"
    <3>1. a[1] \in DOMAIN tables /\ a[2] \in 1 .. Slots
      BY <1>1, HitIsOne
    <3> QED
      BY <1>1, <1>2, <2>3, <3>1 DEF Sound, UserCfgIsFile, Record
  <2>5. PICK r : Put(a, r) /\ r.name = Record(a).name /\ r.ext = Record(a).ext
    BY <1>1, <2>1, <2>2, <2>4, OverwrittenIsPut
  <2>6. Fits(r, u)
    BY <2>3, <2>5 DEF Fits
  <2> QED
    BY <1>1, <2>3, <2>5, <2>6, PutStep
<1> QED
  BY <1>3, <1>4

(* The shell's commands are those of FileStore, and between them the       *)
(* programs and power cuts change no file but user.cfg: for any image, any *)
(* paths and texts, until something strange happens.                       *)
THEOREM ImplementsFileStore == Spec => KeepsFiles
<1>1. Init => Shell!Init
  <2> SUFFICES ASSUME Init PROVE Shell!Init
    OBVIOUS
  <2>1. Sound(tables)
    BY ProgramsAssumption DEF Init
  <2>2. ASSUME NEW f \in Files PROVE Content(f) \in Contents \cup {Absent}
    <3>1. PICK q \in Paths : Parts[q] = f
      BY FilesAreNamed
    <3> QED
      BY <2>1, <3>1, ContentsAreHits DEF ContentIsHit
  <2>3. Store \in [Files -> Contents \cup {Absent}]
    BY <2>2 DEF Store
  <2> QED
    BY <2>3 DEF Init, Shell!Init, Store, Contents
<1>2. IInv /\ [Next]_vars => [Shell!Next]_Shell!vars
  <2> SUFFICES ASSUME IInv, [Next]_vars PROVE [Shell!Next]_Shell!vars
    OBVIOUS
  <2>1. CASE UNCHANGED vars
    <3>1. Store' = Store
      <4>1. \A f \in Files : Content(f)' = Content(f)
        BY <2>1 DEF vars, Content, Holding, Places, Record, Earlier
      <4> QED
        BY <4>1, StoreIs
    <3>2. UNCHANGED <<Store, said, strange>>
      BY <2>1, <3>1 DEF vars
    <3> QED
      BY <3>2, StoreIs DEF Shell!vars
  <2>2. CASE Next
    <3>1. ~strange /\ strange \in BOOLEAN /\ Sound(tables) /\ Args \subseteq Paths
      BY <2>2, InvariantParts DEF Next, Paths
    <3>2. ASSUME NEW p \in Args, Run(p) PROVE Shell!Next
      BY <3>1, <3>2, KeptStep DEF Run
    <3>3. ASSUME Begin \/ Cut PROVE Shell!Next
      BY <3>1, <3>3, KeptStep DEF Begin, Cut
    <3>4. ASSUME NEW c \in Keys, Key(c) PROVE Shell!Next
      BY <3>1, <3>4, KeptStep DEF Key
    <3>5. Shell!Next
      BY <2>2, <3>1, <3>2, <3>3, <3>4, CheckRefines, CatRefines, TouchRefines, WriteRefines,
         DeleteRefines, AskRefines, AnswerRefines DEF Next
    <3> QED
      BY <3>5
  <2> QED
    BY <2>1, <2>2
<1> QED
  BY <1>1, <1>2, ProgramsInvariant, PTL DEF Spec, KeepsFiles, Shell!Spec
=============================================================================
