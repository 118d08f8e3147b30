------------------------- MODULE ConfigurationProofs -------------------------
(***************************************************************************)
(* Proofs about Configuration, for every command line and every file: what *)
(* runs is a topology, --dashboard may stand anywhere, and the command     *)
(* line and the file mean the same.                                        *)
(***************************************************************************)
EXTENDS Configuration, SequenceTheorems, WellFoundedInduction, TLAPS

----------------------------------------------------------------------------
(***************************************************************************)
(* A topology comes out of whatever goes in: the constructors refuse what  *)
(* is not a mode, and both grammars refuse a name that comes twice.        *)
(***************************************************************************)
IsTopology(specs) ==
  /\ \A i \in DOMAIN specs : specs[i].mode \in PortMode
  /\ unique_names(specs)

LEMMA AccessBuilt ==
  ASSUME NEW vlan, access(vlan) # Refused
  PROVE  access(vlan) \in PortMode
BY DEF access, PortMode, Access

LEMMA TrunkBuilt ==
  ASSUME NEW native, NEW allowed, trunk(native, allowed) # Refused
  PROVE  trunk(native, allowed) \in PortMode
<1> DEFINE m == [kind |-> "trunk", native |-> native, allowed |-> allowed]
<1>1. /\ trunk(native, allowed) = m
      /\ native \in Assignable \cup {NoVlan} /\ allowed \subseteq Assignable
      /\ native # NoVlan \/ allowed # {}
  BY DEF trunk, Optional
<1>2. m \in Trunk
  BY <1>1 DEF Trunk
<1> QED BY <1>1, <1>2 DEF PortMode

LEMMA ArgumentMode ==
  ASSUME NEW text, parse_mode(text) # Refused
  PROVE  parse_mode(text) \in PortMode
<1> DEFINE rest == SubSeq(text, 3, Len(text))
<1>1. ASSUME NEW r, parse_trunk(r) # Refused PROVE parse_trunk(r) \in PortMode
  BY <1>1, TrunkBuilt DEF parse_trunk
<1>2. CASE IsPrefix(<<"trunk", ":">>, text)
  <2>1. parse_mode(text) = parse_trunk(rest)
    BY <1>2 DEF parse_mode
  <2> HIDE DEF rest
  <2> QED BY <1>1, <2>1
<1>3. CASE ~IsPrefix(<<"trunk", ":">>, text)
  BY <1>3, AccessBuilt DEF parse_mode
<1> QED BY <1>2, <1>3

LEMMA ArgumentsAreTopology ==
  ASSUME NEW line, parse_port_specs(line) # Refused
  PROVE  IsTopology(parse_port_specs(line))
<1> DEFINE specs == [i \in DOMAIN line |-> parse_spec(line[i])]
<1>1. /\ parse_port_specs(line) = specs
      /\ \A i \in DOMAIN line : specs[i] # Refused
      /\ unique_names(specs)
  BY DEF parse_port_specs
<1>2. ASSUME NEW i \in DOMAIN line PROVE specs[i].mode \in PortMode
  <2>1. /\ parse_mode(after(line[i])) # Refused
        /\ specs[i] = [name |-> before(line[i]), mode |-> parse_mode(after(line[i]))]
    BY <1>1 DEF parse_spec
  <2> QED BY <2>1, ArgumentMode
<1> QED BY <1>1, <1>2 DEF IsTopology

LEMMA FileIsTopology ==
  ASSUME NEW contents, load(contents) # Refused
  PROVE  IsTopology(load(contents))
<1> DEFINE entries == [i \in DOMAIN contents |-> deserialize(contents[i])]
           specs == [i \in DOMAIN entries |->
                       [name |-> entries[i].name, mode |-> construct(entries[i])]]
<1>1. load(contents) = into_specs(entries)
  BY DEF load
<1>2. /\ into_specs(entries) = specs
      /\ \A i \in DOMAIN specs : specs[i].mode # Refused
      /\ unique_names(specs)
  <2> HIDE DEF entries
  <2> QED BY <1>1 DEF into_specs
<1>3. ASSUME NEW i \in DOMAIN specs PROVE specs[i].mode \in PortMode
  <2>1. specs[i].mode = construct(entries[i]) /\ construct(entries[i]) # Refused
    BY <1>2
  <2> HIDE DEF entries, specs
  <2> QED BY <2>1, AccessBuilt, TrunkBuilt DEF construct
<1> QED BY <1>1, <1>2, <1>3 DEF IsTopology

Started(result) ==
  /\ result.at \in {"typing", Running, Error, Usage}
  /\ IsTopology(result.specs)

LEMMA ExitsStarted ==
  ASSUME NEW how \in {"typing", Error, Usage}
  PROVE  Started(exits(how))
BY DEF Started, exits, IsTopology, unique_names

LEMMA RunsStarted ==
  ASSUME NEW specs, specs # Refused => IsTopology(specs), NEW reloads, NEW addr
  PROVE  Started(runs(specs, reloads, addr))
<1>1. CASE specs = Refused
  BY <1>1, ExitsStarted DEF runs
<1>2. CASE specs # Refused
  BY <1>2 DEF runs, Started
<1> QED BY <1>1, <1>2

LEMMA MainStarted == ASSUME NEW line PROVE Started(try_main(line))
<1> DEFINE taken == take_dashboard_addr(line)
<1>1. \/ try_main(line) \in {exits(Error), exits(Usage)}
      \/ try_main(line) = runs(load(file), TRUE, taken.addr)
      \/ try_main(line) = runs(parse_port_specs(taken.args), FALSE, taken.addr)
  <2> HIDE DEF taken
  <2> QED BY DEF try_main, taken
<1> HIDE DEF taken
<1> QED BY <1>1, ExitsStarted, RunsStarted, FileIsTopology, ArgumentsAreTopology

(***************************************************************************)
(* The daemon is only ever started with a topology: every port has a name  *)
(* of its own and a mode that carries something.                           *)
(***************************************************************************)
THEOREM OnlyTopologiesRunHolds == Spec => []OnlyTopologiesRun
<1>1. Init => Started(outcome)
  BY ExitsStarted DEF Init, Typing
<1>2. Started(outcome) /\ [Next]_vars => Started(outcome)'
  <2> SUFFICES ASSUME Started(outcome), [Next]_vars PROVE Started(outcome')
    BY DEF Started, IsTopology, unique_names
  <2>1. CASE main
    BY <2>1, MainStarted DEF main
  <2>2. CASE UNCHANGED outcome
    BY <2>2
  <2> QED BY <2>1, <2>2 DEF Next, type_argument, write_table, vars
<1>3. Started(outcome) => OnlyTopologiesRun
  BY DEF Started, IsTopology, unique_names, OnlyTopologiesRun
<1> QED BY <1>1, <1>2, <1>3, PTL DEF Spec

----------------------------------------------------------------------------
(***************************************************************************)
(* The first element of a sequence that equals e, as split_once(':') and   *)
(* the search for --dashboard find it; 0 if there is none.                 *)
(***************************************************************************)
First(s, e) == LET found == {i \in 1 .. Len(s) : s[i] = e}
               IN  IF found # {} THEN Min(found) ELSE 0

LEMMA SearchesAreFirst ==
  ASSUME NEW s
  PROVE  position(s) = First(s, flag) /\ colon(s) = First(s, ":")
BY DEF position, colon, SelectInSeq, First

LEMMA LeastIs ==
  ASSUME NEW T, NEW k \in T, k \in Int, \A m \in T : m \in Int /\ k <= m
  PROVE  Min(T) = k
<1>1. Min(T) \in T /\ \A m \in T : Min(T) <= m
  BY DEF Min
<1>2. Min(T) \in Int /\ k <= Min(T) /\ Min(T) <= k
  BY <1>1
<1> QED BY <1>2

LEMMA FirstFound ==
  ASSUME NEW s, NEW e, NEW k \in 1 .. Len(s), s[k] = e, Len(s) \in Nat,
         \A j \in 1 .. Len(s) : j < k => s[j] # e
  PROVE  First(s, e) = k
<1> DEFINE found == {i \in 1 .. Len(s) : s[i] = e}
<1>1. k \in found /\ k \in Int /\ \A i \in found : i \in Int /\ k <= i
  OBVIOUS
<1> HIDE DEF found
<1>2. Min(found) = k
  BY <1>1, LeastIs
<1> QED BY <1>1, <1>2 DEF First, found

\* NatMin of DataLemmas, whose other lemmas are about frames.
LEMMA LeastPosition ==
  ASSUME NEW T \in SUBSET Nat, T # {}
  PROVE  \E n \in T : \A m \in T : n <= m
<1> DEFINE Less == {ss \in Nat \X Nat : ss[1] < ss[2]}
<1>1. IsWellFoundedOn(Less, Nat)
  BY NatLessThanWellFounded, Zenon DEF OpToRel
<1>2. \A m, n \in Nat : m < n => <<m, n>> \in Less
  OBVIOUS
<1> HIDE DEF Less
<1>3. PICK n \in T : \A m \in T : ~(<<m, n>> \in Less)
  BY <1>1, WFMin
<1>4. \A m \in T : m \in Nat /\ n \in Nat /\ ~(m < n)
  BY <1>2, <1>3
<1> QED BY <1>3, <1>4

LEMMA FirstNotFound ==
  ASSUME NEW s, NEW e, Len(s) \in Nat
  PROVE  First(s, e) = 0 <=> \A i \in 1 .. Len(s) : s[i] # e
<1> DEFINE found == {i \in 1 .. Len(s) : s[i] = e}
<1>1. ASSUME NEW k \in 1 .. Len(s), s[k] = e PROVE First(s, e) # 0
  <2>1. k \in found /\ found \in SUBSET Nat
    BY <1>1
  <2>2. PICK m \in found : \A i \in found : m <= i
    <3> HIDE DEF found
    <3> QED BY <2>1, LeastPosition
  <2>3. m \in 1 .. Len(s) /\ s[m] = e /\ \A j \in 1 .. Len(s) : j < m => s[j] # e
    BY <2>2
  <2>4. First(s, e) = m
    BY <2>3, FirstFound
  <2> QED BY <2>3, <2>4
<1>2. ASSUME \A i \in 1 .. Len(s) : s[i] # e PROVE First(s, e) = 0
  BY <1>2 DEF First
<1> QED BY <1>1, <1>2

----------------------------------------------------------------------------
\* A command line with --dashboard and its address put in after i arguments.
With(line, i, addr) ==
  SubSeq(line, 1, i) \o <<flag, addr>> \o SubSeq(line, i + 1, Len(line))

LEMMA Inserted ==
  ASSUME NEW S, NEW line \in Seq(S), NEW i \in 0 .. Len(line), NEW addr
  PROVE  LET longer == With(line, i, addr)
         IN  /\ Len(longer) = Len(line) + 2
             /\ \A j \in 1 .. i : longer[j] = line[j]
             /\ longer[i + 1] = flag /\ longer[i + 2] = addr
             /\ RemoveAt(RemoveAt(longer, i + 2), i + 1) = line
<1> DEFINE T == S \cup {flag, addr}
           head == SubSeq(line, 1, i)
           tail == SubSeq(line, i + 1, Len(line))
           longer == With(line, i, addr)
<1>1. Len(line) \in Nat /\ i \in Nat /\ i <= Len(line)
  OBVIOUS
<1>2. /\ head \in Seq(T) /\ Len(head) = i
      /\ \A j \in 1 .. i : head[j] = line[j]
  BY <1>1
<1>3. /\ tail \in Seq(T) /\ Len(tail) = Len(line) - i
      /\ \A j \in 1 .. Len(line) - i : tail[j] = line[j + i]
  BY <1>1
<1>4. longer = (head \o <<flag, addr>>) \o tail
  BY DEF With
<1> HIDE DEF head, tail, longer
<1>5. /\ longer \in Seq(T) /\ Len(longer) = Len(line) + 2
      /\ \A j \in 1 .. i : longer[j] = line[j]
      /\ longer[i + 1] = flag /\ longer[i + 2] = addr
      /\ \A j \in i + 3 .. Len(line) + 2 : longer[j] = line[j - 2]
  <2> DEFINE pair == <<flag, addr>>
             front == head \o pair
  <2>1. pair \in Seq(T) /\ Len(pair) = 2 /\ pair[1] = flag /\ pair[2] = addr
    OBVIOUS
  <2> HIDE DEF pair
  <2>2. /\ front \in Seq(T) /\ Len(front) = i + 2
        /\ \A j \in 1 .. i : front[j] = head[j]
        /\ front[i + 1] = pair[1] /\ front[i + 2] = pair[2]
    <3>1. front \in Seq(T) /\ Len(front) = Len(head) + Len(pair)
      BY <1>2, <2>1, ConcatProperties, ZenonT(40)
    <3>2. \A j \in 1 .. Len(head) + Len(pair) :
            front[j] = IF j <= Len(head) THEN head[j] ELSE pair[j - Len(head)]
      BY <1>2, <2>1, ConcatProperties, ZenonT(40)
    <3> HIDE DEF front
    <3>3. \A j \in 1 .. i : front[j] = head[j]
      BY <1>1, <1>2, <2>1, <3>2, SMTT(40)
    <3>4. ASSUME NEW j \in 1 .. Len(head) + Len(pair), NEW n \in 1 .. 2, j = i + n
          PROVE  front[j] = pair[n]
      <4>1. ~(j <= Len(head)) /\ j - Len(head) = n
        BY <1>1, <1>2, <3>4
      <4> QED BY <3>2, <4>1
    <3>5. i + 1 \in 1 .. Len(head) + Len(pair) /\ i + 2 \in 1 .. Len(head) + Len(pair)
      BY <1>1, <1>2, <2>1
    <3> QED BY <1>1, <1>2, <2>1, <3>1, <3>3, <3>4, <3>5
  <2>3. longer = front \o tail
    BY <1>4 DEF pair
  <2> HIDE DEF front
  <2>4. /\ longer \in Seq(T) /\ Len(longer) = i + 2 + Len(tail)
        /\ \A j \in 1 .. i + 2 : longer[j] = front[j]
        /\ \A j \in i + 3 .. i + 2 + Len(tail) : longer[j] = tail[j - (i + 2)]
    <3>1. front \o tail \in Seq(T) /\ Len(front \o tail) = Len(front) + Len(tail)
      BY <1>3, <2>2, ConcatProperties
    <3>2. \A j \in 1 .. Len(front) + Len(tail) :
            (front \o tail)[j] = IF j <= Len(front) THEN front[j] ELSE tail[j - Len(front)]
      BY <1>3, <2>2, ConcatProperties
    <3> QED BY <1>1, <1>3, <2>2, <2>3, <3>1, <3>2, SMTT(40)
  <2>5. ASSUME NEW j \in i + 3 .. Len(line) + 2 PROVE longer[j] = line[j - 2]
    <3>1. j - (i + 2) \in 1 .. Len(line) - i /\ (j - (i + 2)) + i = j - 2
      BY <1>1
    <3>2. longer[j] = tail[j - (i + 2)]
      BY <1>1, <1>3, <2>4, SMTT(40)
    <3>3. tail[j - (i + 2)] = line[(j - (i + 2)) + i]
      BY <1>3, <3>1
    <3> QED BY <3>1, <3>2, <3>3
  <2> QED BY <1>1, <1>2, <1>3, <2>1, <2>2, <2>4, <2>5, SMTT(40)
<1> DEFINE once == RemoveAt(longer, i + 2)
           twice == RemoveAt(once, i + 1)
<1>6. /\ once \in Seq(T) /\ Len(once) = Len(line) + 1
      /\ \A j \in 1 .. i : once[j] = line[j]
      /\ \A j \in i + 2 .. Len(line) + 1 : once[j] = line[j - 1]
  <2> DEFINE front == SubSeq(longer, 1, i + 1)
             back == SubSeq(longer, i + 3, Len(line) + 2)
  <2>1. once = front \o back
    <3>1. (i + 2) - 1 = i + 1 /\ (i + 2) + 1 = i + 3
      BY <1>1
    <3> QED BY <1>5, <3>1 DEF RemoveAt
  <2>2. /\ front \in Seq(T) /\ Len(front) = i + 1
        /\ \A j \in 1 .. i : front[j] = longer[j]
    BY <1>1, <1>5
  <2>3. /\ back \in Seq(T) /\ Len(back) = Len(line) - i
        /\ \A j \in 1 .. Len(line) - i : back[j] = longer[j + (i + 2)]
    BY <1>1, <1>5
  <2> HIDE DEF front, back, once
  <2>4. /\ once \in Seq(T) /\ Len(once) = Len(line) + 1
        /\ \A j \in 1 .. i + 1 : once[j] = front[j]
        /\ \A j \in i + 2 .. Len(line) + 1 : once[j] = back[j - (i + 1)]
    BY <1>1, <2>1, <2>2, <2>3
  <2>5. ASSUME NEW j \in i + 2 .. Len(line) + 1 PROVE once[j] = line[j - 1]
    <3>1. j - (i + 1) \in 1 .. Len(line) - i
      BY <1>1
    <3>2. (j - (i + 1)) + (i + 2) = j + 1 /\ j + 1 \in i + 3 .. Len(line) + 2
      BY <1>1
    <3>3. longer[j + 1] = line[(j + 1) - 2] /\ (j + 1) - 2 = j - 1
      BY <1>1, <1>5, <3>2
    <3> QED BY <1>1, <2>3, <2>4, <3>1, <3>2, <3>3
  <2> QED BY <1>1, <1>5, <2>2, <2>4, <2>5
<1> HIDE DEF once
<1>7. /\ twice \in Seq(T) /\ Len(twice) = Len(line)
      /\ \A j \in 1 .. Len(line) : twice[j] = line[j]
  <2> DEFINE front == SubSeq(once, 1, i)
             back == SubSeq(once, i + 2, Len(line) + 1)
  <2>1. twice = front \o back
    <3>1. (i + 1) - 1 = i /\ (i + 1) + 1 = i + 2
      BY <1>1
    <3> QED BY <1>6, <3>1 DEF RemoveAt
  <2>2. /\ front \in Seq(T) /\ Len(front) = i
        /\ \A j \in 1 .. i : front[j] = once[j]
    BY <1>1, <1>6
  <2>3. /\ back \in Seq(T) /\ Len(back) = Len(line) - i
        /\ \A j \in 1 .. Len(line) - i : back[j] = once[j + (i + 1)]
    BY <1>1, <1>6
  <2> HIDE DEF front, back, twice
  <2>4. /\ twice \in Seq(T) /\ Len(twice) = Len(line)
        /\ \A j \in 1 .. i : twice[j] = front[j]
        /\ \A j \in i + 1 .. Len(line) : twice[j] = back[j - i]
    BY <1>1, <2>1, <2>2, <2>3
  <2>5. ASSUME NEW j \in i + 1 .. Len(line) PROVE twice[j] = line[j]
    <3>1. j - i \in 1 .. Len(line) - i
      BY <1>1
    <3>2. (j - i) + (i + 1) = j + 1 /\ j + 1 \in i + 2 .. Len(line) + 1
      BY <1>1
    <3>3. once[j + 1] = line[(j + 1) - 1] /\ (j + 1) - 1 = j
      BY <1>1, <1>6, <3>2
    <3> QED BY <1>1, <2>3, <2>4, <3>1, <3>2, <3>3
  <2> QED BY <1>1, <1>6, <2>2, <2>4, <2>5
<1>8. line \in Seq(T)
  BY SeqMonotonic
<1> HIDE DEF twice
<1>9. twice = line
  BY <1>7, <1>8, SeqEqual
<1> QED BY <1>5, <1>9 DEF longer, once, twice

\* The flag is found where it was put, and taken out with its address.
LEMMA TakenOut ==
  ASSUME NEW line \in Seq(Texts), position(line) = 0,
         NEW i \in 0 .. Len(line), NEW addr \in Addresses
  PROVE  /\ take_dashboard_addr(line) = [args |-> line, addr |-> << >>]
         /\ take_dashboard_addr(With(line, i, addr)) = [args |-> line, addr |-> addr]
<1> DEFINE longer == With(line, i, addr)
<1>1. Len(line) \in Nat /\ i \in Nat /\ \A j \in 1 .. Len(line) : line[j] # flag
  BY SearchesAreFirst, FirstNotFound
<1>2. /\ Len(longer) = Len(line) + 2
      /\ \A j \in 1 .. i : longer[j] = line[j]
      /\ longer[i + 1] = flag /\ longer[i + 2] = addr
      /\ RemoveAt(RemoveAt(longer, i + 2), i + 1) = line
  BY Inserted
<1> HIDE DEF longer
<1>3. position(longer) = i + 1
  <2>1. i + 1 \in 1 .. Len(longer) /\ Len(longer) \in Nat
    BY <1>1, <1>2
  <2>2. \A j \in 1 .. Len(longer) : j < i + 1 => longer[j] # flag
    BY <1>1, <1>2
  <2> QED BY <1>2, <2>1, <2>2, FirstFound, SearchesAreFirst
<1>4. /\ i + 1 # 0 /\ (i + 1) + 1 = i + 2 /\ ~((i + 1) + 1 > Len(longer))
  BY <1>1, <1>2
<1>5. take_dashboard_addr(longer) = [args |-> line, addr |-> addr]
  BY <1>2, <1>3, <1>4 DEF take_dashboard_addr
<1>6. take_dashboard_addr(line) = [args |-> line, addr |-> << >>]
  BY DEF take_dashboard_addr
<1> QED BY <1>5, <1>6 DEF longer

\* Without a flag, what becomes of the line depends on the address by nothing
\* but the dashboard it is bound to.
LEMMA AddressOnly ==
  ASSUME NEW line \in Seq(Texts), position(line) = 0,
         NEW i \in 0 .. Len(line), NEW addr \in Addresses
  PROVE  try_main(With(line, i, addr)) =
           IF try_main(line).at = Running
           THEN [try_main(line) EXCEPT !.dashboard = addr]
           ELSE try_main(line)
<1> DEFINE longer == With(line, i, addr)
<1>1. /\ take_dashboard_addr(line) = [args |-> line, addr |-> << >>]
      /\ take_dashboard_addr(longer) = [args |-> line, addr |-> addr]
  BY TakenOut
<1>2. /\ [args |-> line, addr |-> << >>] # Refused
      /\ [args |-> line, addr |-> addr] # Refused
  BY RefusedAssumption
<1> HIDE DEF longer
<1>3. exits(Usage).at # Running /\ exits(Error).at # Running
  BY DEF exits, Usage, Error, Running
<1>4. ASSUME NEW specs, NEW reloads
      PROVE  runs(specs, reloads, addr) =
               IF runs(specs, reloads, << >>).at = Running
               THEN [runs(specs, reloads, << >>) EXCEPT !.dashboard = addr]
               ELSE runs(specs, reloads, << >>)
  <2>1. CASE specs = Refused
    BY <1>3, <2>1 DEF runs
  <2>2. CASE specs # Refused
    BY <2>2 DEF runs
  <2> QED BY <2>1, <2>2
<1>5. ASSUME NEW l, NEW a, take_dashboard_addr(l) = [args |-> line, addr |-> a],
             [args |-> line, addr |-> a] # Refused
      PROVE  try_main(l) =
               IF line # << >> /\ line[1] = <<"--config">>
               THEN IF Len(line) # 2 THEN exits(Usage) ELSE runs(load(file), TRUE, a)
               ELSE IF line = << >> THEN exits(Usage)
               ELSE runs(parse_port_specs(line), FALSE, a)
  <2> DEFINE taken == take_dashboard_addr(l)
  <2>1. taken.args = line /\ taken.addr = a /\ taken # Refused
    BY <1>5
  <2>2. try_main(l) =
          IF taken = Refused THEN exits(Error)
          ELSE IF taken.args # << >> /\ taken.args[1] = <<"--config">>
          THEN IF Len(taken.args) # 2 THEN exits(Usage)
               ELSE runs(load(file), TRUE, taken.addr)
          ELSE IF taken.args = << >> THEN exits(Usage)
          ELSE runs(parse_port_specs(taken.args), FALSE, taken.addr)
    BY Zenon DEF try_main
  <2> HIDE DEF taken
  <2> QED BY <2>1, <2>2, Zenon
<1>6. \/ try_main(line) = exits(Usage) /\ try_main(longer) = exits(Usage)
      \/ /\ try_main(line) = runs(load(file), TRUE, << >>)
         /\ try_main(longer) = runs(load(file), TRUE, addr)
      \/ /\ try_main(line) = runs(parse_port_specs(line), FALSE, << >>)
         /\ try_main(longer) = runs(parse_port_specs(line), FALSE, addr)
  BY <1>1, <1>2, <1>5, Zenon
<1> QED BY <1>3, <1>4, <1>6 DEF longer

ArgsTyped == args \in Seq(Texts)

LEMMA ArgsAreTyped == Spec => []ArgsTyped
<1>1. Init => ArgsTyped
  BY DEF Init, ArgsTyped
<1>2. ArgsTyped /\ [Next]_vars => ArgsTyped'
  BY DEF ArgsTyped, Next, type_argument, write_table, main, vars
<1> QED BY <1>1, <1>2, PTL DEF Spec

(***************************************************************************)
(* `--dashboard <bind-addr>` is taken out wherever it appears: it changes  *)
(* nothing but the address, in any place of any command line.              *)
(***************************************************************************)
THEOREM DashboardAnywhereHolds == Spec => []DashboardAnywhere
<1>1. ArgsTyped => DashboardAnywhere
  BY AddressOnly DEF ArgsTyped, DashboardAnywhere, With
<1> QED BY <1>1, ArgsAreTyped, PTL

----------------------------------------------------------------------------
(***************************************************************************)
(* The two grammars: what a table is written out to, read back.            *)
(***************************************************************************)
LEMMA Joined ==
  ASSUME NEW S, NEW s \in Seq(S), NEW e \in S, NEW t \in Seq(S),
         NEW u, u = s \o <<e>> \o t
  PROVE  /\ u \in Seq(S) /\ Len(u) \in Nat /\ Len(s) + 1 \in 1 .. Len(u)
         /\ \A j \in 1 .. Len(s) : u[j] = s[j]
         /\ u[Len(s) + 1] = e
         /\ SubSeq(u, 1, Len(s)) = s
         /\ SubSeq(u, Len(s) + 2, Len(u)) = t
<1> DEFINE front == s \o <<e>>
<1>1. /\ <<e>> \in Seq(S) /\ Len(<<e>>) = 1 /\ <<e>>[1] = e
      /\ Len(s) \in Nat /\ Len(t) \in Nat
  OBVIOUS
<1>2. /\ front \in Seq(S) /\ Len(front) = Len(s) + 1
      /\ \A j \in 1 .. Len(s) + 1 : front[j] = IF j <= Len(s) THEN s[j] ELSE <<e>>[j - Len(s)]
  BY <1>1, ConcatProperties
<1> HIDE DEF front
<1>3. front[Len(s) + 1] = e
  <2>1. Len(s) + 1 \in 1 .. Len(s) + 1 /\ ~(Len(s) + 1 <= Len(s)) /\ (Len(s) + 1) - Len(s) = 1
    BY <1>1
  <2> QED BY <1>1, <1>2, <2>1
<1>4. /\ u \in Seq(S) /\ Len(u) = Len(s) + 1 + Len(t)
      /\ \A j \in 1 .. Len(s) + 1 + Len(t) :
           u[j] = IF j <= Len(s) + 1 THEN front[j] ELSE t[j - (Len(s) + 1)]
  BY <1>1, <1>2, ConcatProperties DEF front
<1>5. /\ \A j \in 1 .. Len(s) : u[j] = s[j]
      /\ u[Len(s) + 1] = e
  BY <1>1, <1>2, <1>3, <1>4
<1>6. SubSeq(u, 1, Len(s)) = s
  <2>1. /\ SubSeq(u, 1, Len(s)) \in Seq(S) /\ Len(SubSeq(u, 1, Len(s))) = Len(s)
        /\ \A j \in 1 .. Len(s) : SubSeq(u, 1, Len(s))[j] = u[j]
    BY <1>1, <1>4
  <2> QED BY <1>5, <2>1, SeqEqual
<1>7. SubSeq(u, Len(s) + 2, Len(u)) = t
  <2> DEFINE back == SubSeq(u, Len(s) + 2, Len(u))
  <2>1. /\ back \in Seq(S) /\ Len(back) = Len(t)
        /\ \A j \in 1 .. Len(t) : back[j] = u[j + (Len(s) + 1)]
    BY <1>1, <1>4
  <2>2. ASSUME NEW j \in 1 .. Len(t), NEW k \in 1 .. Len(u), k = j + (Len(s) + 1)
        PROVE  u[k] = t[j]
    <3>1. ~(k <= Len(s) + 1) /\ k - (Len(s) + 1) = j
      BY <1>1, <2>2
    <3> QED BY <1>4, <3>1
  <2>3. \A j \in 1 .. Len(t) : j + (Len(s) + 1) \in 1 .. Len(u)
    BY <1>1, <1>4
  <2> HIDE DEF back
  <2>4. \A j \in 1 .. Len(t) : back[j] = t[j]
    BY <2>1, <2>2, <2>3
  <2>5. back = t
    BY <2>1, <2>4, SeqEqual
  <2> QED BY <2>5 DEF back
<1> QED BY <1>1, <1>4, <1>5, <1>6, <1>7

\* The words a text may be made of.
AnyWord == STRING \cup {":", ",", "-", "trunk"} \cup DOMAIN Numeral

\* split_once(':') on a text whose first part has no colon.
LEMMA SplitOnce ==
  ASSUME NEW s \in Seq(AnyWord), NEW t \in Seq(AnyWord), ~Contains(s, ":"),
         NEW u, u = s \o <<":">> \o t
  PROVE  u \in Seq(AnyWord) /\ splits(u) /\ before(u) = s /\ after(u) = t
<1>1. /\ u \in Seq(AnyWord) /\ Len(u) \in Nat /\ Len(s) + 1 \in 1 .. Len(u)
      /\ \A j \in 1 .. Len(s) : u[j] = s[j]
      /\ u[Len(s) + 1] = ":"
      /\ SubSeq(u, 1, Len(s)) = s
      /\ SubSeq(u, Len(s) + 2, Len(u)) = t
  <2>1. ":" \in AnyWord
    BY DEF AnyWord
  <2> QED BY <2>1, Joined
<1>2. Len(s) \in Nat
  OBVIOUS
<1>3. \A j \in 1 .. Len(u) : j < Len(s) + 1 => u[j] # ":"
  BY <1>1, <1>2 DEF Contains
<1>4. colon(u) = Len(s) + 1
  BY <1>1, <1>3, FirstFound, SearchesAreFirst
<1>5. colon(u) - 1 = Len(s) /\ colon(u) + 1 = Len(s) + 2
  BY <1>2, <1>4
<1>6. splits(u) /\ before(u) = s /\ after(u) = t
  BY <1>1, <1>5 DEF splits, Contains, before, after
<1> QED BY <1>1, <1>6

LEMMA NumeralOf ==
  ASSUME NEW t \in Tables, NEW v \in Vlans(t)
  PROVE  /\ numeral(v) \in DOMAIN Numeral /\ numeral(v) \in AnyWord
         /\ numeral(v) \notin {":", ",", "-", "trunk"}
         /\ is_vlan(<<numeral(v)>>) /\ vlan_of(<<numeral(v)>>) = v
<1>1. numeral(v) \in DOMAIN Numeral /\ Numeral[numeral(v)] = v
  BY ConfigurationAssumption DEF numeral
<1>2. v \in U16
  BY DEF Vlans
<1> QED BY <1>1, <1>2, ConfigurationAssumption DEF is_vlan, vlan_of, AnyWord

\* Every VLAN of a list is a field between two commas.
LEMMA ListFields ==
  ASSUME NEW t \in Tables, NEW vlans, vlans = t.allowed, vlans # << >>,
         ToSet(vlans) \subseteq U16
  PROVE  /\ csv(vlans) \in Seq(AnyWord) /\ csv(vlans) # << >>
         /\ fields(csv(vlans)) = {<<numeral(v)>> : v \in ToSet(vlans)}
<1> DEFINE n == Len(vlans)
           text == csv(vlans)
           cuts == {0, Len(text) + 1} \cup {i \in DOMAIN text : text[i] = ","}
           next(cut) == Min({c \in cuts : c > cut})
<1>1. /\ vlans \in Seq(Int) /\ n \in Nat /\ n >= 1
      /\ \A j \in 1 .. n : vlans[j] \in Vlans(t)
  <2>1. vlans \in Seq(Int)
    BY ConfigurationAssumption DEF Table
  <2>2. n \in Nat /\ n >= 1 /\ DOMAIN vlans = 1 .. n
    BY <2>1
  <2>3. \A j \in 1 .. n : vlans[j] \in Vlans(t)
    BY <2>2 DEF Vlans, ToSet
  <2> QED BY <2>1, <2>2, <2>3
<1> HIDE DEF n
<1>2. ASSUME NEW j \in 1 .. n
      PROVE  /\ 2 * j - 1 \in 1 .. 2 * n - 1
             /\ text[2 * j - 1] = numeral(vlans[j])
             /\ text[2 * j - 1] \in AnyWord /\ text[2 * j - 1] # ","
  <2> DEFINE i == 2 * j - 1
  <2>1. i \in 1 .. 2 * n - 1 /\ i % 2 = 1 /\ (i + 1) \div 2 = j
    BY <1>1
  <2>2. text[i] = numeral(vlans[(i + 1) \div 2])
    <3> HIDE DEF i
    <3> QED BY <2>1 DEF csv, n
  <2>3. numeral(vlans[j]) \in AnyWord /\ numeral(vlans[j]) # ","
    BY <1>1, NumeralOf
  <2> HIDE DEF text, i
  <2>4. text[i] = numeral(vlans[j])
    BY <2>1, <2>2
  <2> QED BY <2>1, <2>3, <2>4 DEF i
<1>3. ASSUME NEW j \in 1 .. n - 1
      PROVE  2 * j \in 1 .. 2 * n - 1 /\ text[2 * j] = ","
  <2> DEFINE i == 2 * j
  <2>1. i \in 1 .. 2 * n - 1 /\ i % 2 # 1
    BY <1>1
  <2>2. text[i] = ","
    <3> HIDE DEF i
    <3> QED BY <2>1 DEF csv, n
  <2> QED BY <2>1, <2>2
<1>4. ASSUME NEW i \in 1 .. 2 * n - 1
      PROVE  (\E j \in 1 .. n : i = 2 * j - 1) \/ (\E j \in 1 .. n - 1 : i = 2 * j)
  <2>1. CASE i % 2 = 1
    <3>1. (i + 1) \div 2 \in 1 .. n /\ i = 2 * ((i + 1) \div 2) - 1
      BY <1>1, <2>1
    <3> QED BY <3>1
  <2>2. CASE i % 2 # 1
    <3>1. i \div 2 \in 1 .. n - 1 /\ i = 2 * (i \div 2)
      BY <1>1, <2>2
    <3> QED BY <3>1
  <2> QED BY <2>1, <2>2
<1>5. text \in Seq(AnyWord) /\ Len(text) = 2 * n - 1 /\ DOMAIN text = 1 .. 2 * n - 1
  <2>1. DOMAIN text = 1 .. 2 * n - 1 /\ text = [i \in 1 .. 2 * n - 1 |-> text[i]]
    BY DEF csv, n
  <2>2. ASSUME NEW i \in 1 .. 2 * n - 1 PROVE text[i] \in AnyWord
    <3> HIDE DEF text
    <3>1. CASE \E j \in 1 .. n : i = 2 * j - 1
      BY <1>2, <3>1
    <3>2. CASE \E j \in 1 .. n - 1 : i = 2 * j
      <4>1. text[i] = ","
        BY <1>3, <3>2
      <4> QED BY <4>1 DEF AnyWord
    <3> QED BY <1>4, <3>1, <3>2
  <2>3. 2 * n - 1 \in Nat
    BY <1>1
  <2> HIDE DEF text
  <2> QED BY <2>1, <2>2, <2>3
<1> HIDE DEF text
<1>6. cuts = {2 * j : j \in 0 .. n}
  <2>1. {i \in DOMAIN text : text[i] = ","} = {2 * j : j \in 1 .. n - 1}
    <3>1. ASSUME NEW i \in DOMAIN text, text[i] = ","
          PROVE  \E j \in 1 .. n - 1 : i = 2 * j
      <4>1. ~\E j \in 1 .. n : i = 2 * j - 1
        BY <1>2, <3>1
      <4> QED BY <1>4, <1>5, <4>1
    <3>2. ASSUME NEW j \in 1 .. n - 1 PROVE 2 * j \in DOMAIN text /\ text[2 * j] = ","
      BY <1>3, <1>5
    <3> QED BY <3>1, <3>2
  <2>2. Len(text) + 1 = 2 * n
    BY <1>1, <1>5
  <2>3. \A j \in 0 .. n : j = 0 \/ j = n \/ j \in 1 .. n - 1
    BY <1>1
  <2>4. 2 * 0 = 0 /\ 0 \in 0 .. n /\ n \in 0 .. n /\ 1 .. n - 1 \subseteq 0 .. n
    BY <1>1
  <2> QED BY <2>1, <2>2, <2>3, <2>4
<1> HIDE DEF cuts
<1>7. ASSUME NEW j \in 1 .. n PROVE next(2 * (j - 1)) = 2 * j
  <2> DEFINE later == {c \in cuts : c > 2 * (j - 1)}
  <2>1. 2 * j \in later
    <3>1. j \in 0 .. n /\ 2 * j > 2 * (j - 1)
      BY <1>1
    <3> QED BY <1>6, <3>1
  <2>2. \A c \in later : c \in Int /\ 2 * j <= c
    BY <1>1, <1>6
  <2> HIDE DEF later
  <2>3. Min(later) = 2 * j
    BY <2>1, <2>2, LeastIs
  <2> QED BY <2>3 DEF later
<1>8. ASSUME NEW j \in 1 .. n
      PROVE  SubSeq(text, 2 * (j - 1) + 1, next(2 * (j - 1)) - 1) = <<numeral(vlans[j])>>
  <2> DEFINE i == 2 * j - 1
  <2>1. /\ 2 * (j - 1) + 1 = i /\ next(2 * (j - 1)) - 1 = i
        /\ i \in 1 .. Len(text) /\ text[i] = numeral(vlans[j])
    <3>1. next(2 * (j - 1)) = 2 * j
      BY <1>7
    <3>2. 2 * (j - 1) + 1 = i /\ 2 * j - 1 = i
      BY <1>1
    <3> HIDE DEF next
    <3> QED BY <1>2, <1>5, <3>1, <3>2
  <2> HIDE DEF i, next
  <2>2. SubSeq(text, i, i) = <<text[i]>>
    <3>1. i \in Int /\ (\A k \in i .. i : k = i) /\ text[i] \in AnyWord
      BY <1>5, <2>1
    <3>2. /\ SubSeq(text, i, i) \in Seq(AnyWord) /\ Len(SubSeq(text, i, i)) = 1
          /\ SubSeq(text, i, i)[1] = text[i]
      BY <1>5, <2>1, <3>1
    <3> DEFINE one == <<text[i]>>
    <3>3. one \in Seq(AnyWord) /\ Len(one) = 1 /\ one[1] = text[i]
      BY <3>1
    <3> HIDE DEF one
    <3>4. SubSeq(text, i, i) = one
      BY <3>2, <3>3, SeqEqual
    <3> QED BY <3>4 DEF one
  <2> QED BY <2>1, <2>2
<1>9. cuts \ {Len(text) + 1} = {2 * (j - 1) : j \in 1 .. n}
  <2>1. Len(text) + 1 = 2 * n
    BY <1>1, <1>5
  <2>2. \A c \in cuts \ {2 * n} : \E j \in 1 .. n : c = 2 * (j - 1)
    <3> SUFFICES ASSUME NEW k \in 0 .. n, 2 * k # 2 * n
                 PROVE  \E j \in 1 .. n : 2 * k = 2 * (j - 1)
      BY <1>6
    <3>1. k + 1 \in 1 .. n /\ 2 * k = 2 * ((k + 1) - 1)
      BY <1>1
    <3> QED BY <3>1
  <2>3. ASSUME NEW j \in 1 .. n PROVE 2 * (j - 1) \in cuts \ {2 * n}
    <3>1. j - 1 \in 0 .. n /\ 2 * (j - 1) # 2 * n
      BY <1>1
    <3> QED BY <1>6, <3>1
  <2> QED BY <2>1, <2>2, <2>3
<1>10. fields(text) = {SubSeq(text, cut + 1, next(cut) - 1) : cut \in cuts \ {Len(text) + 1}}
  BY Zenon DEF fields, cuts, next
<1> HIDE DEF next
<1>11. fields(text) = {<<numeral(vlans[j])>> : j \in 1 .. n}
  <2> DEFINE field(cut) == SubSeq(text, cut + 1, next(cut) - 1)
             left == cuts \ {Len(text) + 1}
  <2>1. ASSUME NEW j \in 1 .. n
        PROVE  2 * (j - 1) \in left /\ field(2 * (j - 1)) = <<numeral(vlans[j])>>
    BY <1>8, <1>9
  <2>2. ASSUME NEW cut \in left PROVE \E j \in 1 .. n : cut = 2 * (j - 1)
    BY <1>9
  <2>3. fields(text) = {field(cut) : cut \in left}
    BY <1>10
  <2> HIDE DEF field, left
  <2>4. \A cut \in left : \E j \in 1 .. n : field(cut) = <<numeral(vlans[j])>>
    BY <2>1, <2>2
  <2> QED BY <2>1, <2>3, <2>4
<1>12. ToSet(vlans) = {vlans[j] : j \in 1 .. n}
  BY <1>1 DEF ToSet, n
<1>13. text # << >>
  BY <1>1, <1>5
<1> QED BY <1>5, <1>11, <1>12, <1>13 DEF text

LEMMA TrunkPrefix ==
  ASSUME NEW w \in AnyWord, NEW list \in Seq(AnyWord),
         NEW text, text = <<"trunk", ":", w, ":">> \o list
  PROVE  /\ text \in Seq(AnyWord) /\ IsPrefix(<<"trunk", ":">>, text)
         /\ SubSeq(text, 3, Len(text)) = <<w>> \o <<":">> \o list
<1> DEFINE mode == <<"trunk">>
           rest == <<w>> \o <<":">> \o list
<1>1. {"trunk", ":"} \subseteq AnyWord
  BY DEF AnyWord
<1>2. mode \in Seq(AnyWord) /\ Len(mode) = 1 /\ mode[1] = "trunk"
      /\ <<w>> \in Seq(AnyWord) /\ <<":">> \in Seq(AnyWord)
  BY <1>1
<1>3. rest \in Seq(AnyWord)
  BY <1>2, ConcatProperties
<1>4. text = mode \o <<":">> \o rest
  <2> DEFINE front == mode \o <<":">>
             native == <<w>> \o <<":">>
  <2>1. <<"trunk", ":", w, ":">> = front \o native
    BY SMTT(40)
  <2>2. front \in Seq(AnyWord) /\ native \in Seq(AnyWord)
    BY <1>2, ConcatProperties
  <2>3. text = (front \o native) \o list /\ rest = native \o list
    BY <2>1
  <2>4. front = mode \o <<":">>
    OBVIOUS
  <2> HIDE DEF front, native, rest, mode
  <2>5. (front \o native) \o list = front \o (native \o list)
    BY <2>2, ConcatAssociative, SMTT(40)
  <2> QED BY <2>3, <2>4, <2>5
<1> HIDE DEF mode, rest
<1>5. /\ text \in Seq(AnyWord) /\ Len(text) \in Nat /\ 2 \in 1 .. Len(text)
      /\ text[1] = "trunk" /\ text[2] = ":"
      /\ SubSeq(text, 3, Len(text)) = rest
  <2>1. /\ text \in Seq(AnyWord) /\ Len(text) \in Nat /\ Len(mode) + 1 \in 1 .. Len(text)
        /\ \A j \in 1 .. Len(mode) : text[j] = mode[j]
        /\ text[Len(mode) + 1] = ":"
        /\ SubSeq(text, Len(mode) + 2, Len(text)) = rest
    <3>1. ":" \in AnyWord /\ mode \in Seq(AnyWord)
      BY <1>1, <1>2
    <3>2. ASSUME NEW u, u = mode \o <<":">> \o rest
          PROVE  /\ u \in Seq(AnyWord) /\ Len(u) \in Nat /\ Len(mode) + 1 \in 1 .. Len(u)
                 /\ \A j \in 1 .. Len(mode) : u[j] = mode[j]
                 /\ u[Len(mode) + 1] = ":"
                 /\ SubSeq(u, Len(mode) + 2, Len(u)) = rest
      BY ONLY <1>3, <3>1, <3>2, Joined
    <3> QED BY <1>4, <3>2
  <2>2. Len(mode) + 1 = 2 /\ Len(mode) + 2 = 3
    BY <1>2
  <2> QED BY <1>2, <2>1, <2>2
<1>6. IsPrefix(<<"trunk", ":">>, text)
  <2> DEFINE prefix == <<"trunk", ":">>
  <2>1. prefix \in Seq(AnyWord) /\ Len(prefix) = 2 /\ prefix[1] = "trunk" /\ prefix[2] = ":"
    BY <1>1
  <2>2. /\ SubSeq(text, 1, 2) \in Seq(AnyWord) /\ Len(SubSeq(text, 1, 2)) = 2
        /\ SubSeq(text, 1, 2)[1] = text[1] /\ SubSeq(text, 1, 2)[2] = text[2]
    BY <1>5
  <2>3. /\ SubSeq(prefix, 1, 2) \in Seq(AnyWord) /\ Len(SubSeq(prefix, 1, 2)) = 2
        /\ SubSeq(prefix, 1, 2)[1] = prefix[1] /\ SubSeq(prefix, 1, 2)[2] = prefix[2]
    BY <2>1
  <2> HIDE DEF prefix
  <2>4. SubSeq(text, 1, 2) = SubSeq(prefix, 1, 2)
    BY <1>5, <2>1, <2>2, <2>3, SeqEqual
  <2>5. IsPrefix(prefix, text)
    BY <1>5, <2>1, <2>4 DEF IsPrefix
  <2> QED BY <2>5 DEF prefix
<1> QED BY <1>5, <1>6 DEF rest

\* An argument written from a table is accepted exactly if the table is, with
\* the same name and mode.
LEMMA ArgumentOfTable ==
  ASSUME NEW t \in Tables, Writable(t)
  PROVE  /\ t.name \in Seq(STRING)
         /\ construct(deserialize(t)) \in PortMode \cup {Refused}
         /\ deserialize(t).name = t.name
         /\ parse_spec(as_argument(t)) =
              IF construct(deserialize(t)) # Refused
              THEN [name |-> t.name, mode |-> construct(deserialize(t))]
              ELSE Refused
<1> DEFINE rest == IF t.mode = "access" THEN <<numeral(t.vlan)>>
                   ELSE <<"trunk", ":", IF t.native = NoVlan THEN "-" ELSE numeral(t.native), ":">>
                        \o csv(t.allowed)
           built == construct(deserialize(t))
<1>1. t.name \in Seq(STRING) /\ t.name \in Seq(AnyWord) /\ ~Contains(t.name, ":")
  <2>1. t.name \in Seq(STRING) /\ STRING \subseteq AnyWord
    BY ConfigurationAssumption DEF Table, AnyWord
  <2> QED BY <2>1, SeqMonotonic DEF Writable
<1>2. built \in PortMode \cup {Refused}
  BY AccessBuilt, TrunkBuilt DEF construct
<1>3. rest \in Seq(AnyWord) /\ parse_mode(rest) = built /\ deserialize(t).name = t.name
  <2>1. CASE t.mode = "access" /\ t.vlan \in U16
    <3>1. t.vlan \in Vlans(t)
      BY <2>1 DEF Vlans
    <3> DEFINE w == numeral(t.vlan)
    <3>2. w \in AnyWord /\ is_vlan(<<w>>) /\ vlan_of(<<w>>) = t.vlan
      BY <3>1, NumeralOf
    <3>3. rest = <<w>>
      BY <2>1
    <3> HIDE DEF w, rest
    <3>4. rest \in Seq(AnyWord)
      BY <3>2, <3>3
    <3>5. ~IsPrefix(<<"trunk", ":">>, rest)
      BY <3>3 DEF IsPrefix
    <3>6. parse_mode(rest) = access(t.vlan)
      BY <3>2, <3>3, <3>5 DEF parse_mode
    <3>7. deserialize(t) = [name |-> t.name, mode |-> "access", vlan |-> t.vlan]
      BY <2>1 DEF deserialize
    <3>8. built = access(t.vlan)
      BY <3>7 DEF construct
    <3> QED BY <3>4, <3>6, <3>7, <3>8
  <2>2. CASE /\ t.mode = "trunk" /\ Optional(t.native, U16)
             /\ ToSet(t.allowed) \subseteq U16
    <3> DEFINE w == IF t.native = NoVlan THEN "-" ELSE numeral(t.native)
               list == csv(t.allowed)
               back == <<w>> \o <<":">> \o list
    <3>1. w \in AnyWord /\ w # ":" /\ (w = "-" <=> t.native = NoVlan)
          /\ (t.native # NoVlan => is_vlan(<<w>>) /\ vlan_of(<<w>>) = t.native)
      <4>1. CASE t.native = NoVlan
        BY <4>1 DEF AnyWord
      <4>2. CASE t.native # NoVlan
        <5>1. t.native \in Vlans(t)
          BY <2>2, <4>2 DEF Vlans, Optional
        <5> QED BY <4>2, <5>1, NumeralOf
      <4> QED BY <4>1, <4>2
    <3>2. /\ list \in Seq(AnyWord)
          /\ (t.allowed = << >>) <=> (list = << >>)
          /\ t.allowed # << >> => fields(list) = {<<numeral(v)>> : v \in ToSet(t.allowed)}
      <4>1. CASE t.allowed = << >>
        <5>1. list = << >>
          <6>1. Len(<< >>) = 0 /\ 2 * 0 - 1 = -1 /\ 1 .. -1 = {}
            OBVIOUS
          <6>2. DOMAIN list = {} /\ list = [i \in DOMAIN list |-> list[i]]
            BY <4>1, <6>1 DEF csv
          <6> HIDE DEF list
          <6> QED BY <6>2
        <5> HIDE DEF list
        <5>2. list \in Seq(AnyWord)
          BY <5>1
        <5> QED BY <4>1, <5>1, <5>2
      <4>2. CASE t.allowed # << >>
        <5> DEFINE vlans == t.allowed
        <5>1. /\ csv(vlans) \in Seq(AnyWord) /\ csv(vlans) # << >>
              /\ fields(csv(vlans)) = {<<numeral(v)>> : v \in ToSet(vlans)}
          BY <2>2, <4>2, ListFields
        <5> QED BY <4>2, <5>1
      <4> QED BY <4>1, <4>2
    <3>3. rest = <<"trunk", ":", w, ":">> \o list
      BY <2>2
    <3> HIDE DEF w, list
    <3>4. /\ rest \in Seq(AnyWord) /\ IsPrefix(<<"trunk", ":">>, rest)
          /\ SubSeq(rest, 3, Len(rest)) = back
      <4> HIDE DEF rest
      <4> QED BY <3>1, <3>2, <3>3, TrunkPrefix
    <3>5. parse_mode(rest) = parse_trunk(back)
      BY <3>4 DEF parse_mode
    <3>6. splits(back) /\ before(back) = <<w>> /\ after(back) = list
      <4>1. <<w>> \in Seq(AnyWord) /\ ~Contains(<<w>>, ":")
        BY <3>1 DEF Contains
      <4>2. back = <<w>> \o <<":">> \o list
        OBVIOUS
      <4> DEFINE front == <<w>>
      <4>3. front \in Seq(AnyWord) /\ ~Contains(front, ":") /\ back = front \o <<":">> \o list
        BY <4>1, <4>2
      <4> HIDE DEF back, front
      <4>4. splits(back) /\ before(back) = front /\ after(back) = list
        BY <3>2, <4>3, SplitOnce
      <4> QED BY <4>4 DEF front
    <3> HIDE DEF back
    <3> DEFINE allowed == IF list = << >> THEN {} ELSE fields(list)
    <3>7. allowed = {<<numeral(v)>> : v \in ToSet(t.allowed)}
      BY <3>2 DEF ToSet
    <3>8. \A v \in ToSet(t.allowed) : is_vlan(<<numeral(v)>>) /\ vlan_of(<<numeral(v)>>) = v
      <4>1. ToSet(t.allowed) \subseteq Vlans(t)
        BY <2>2 DEF Vlans
      <4> QED BY <4>1, NumeralOf
    <3> HIDE DEF allowed
    <3>9. /\ \A s \in allowed : is_vlan(s)
          /\ {vlan_of(s) : s \in allowed} = ToSet(t.allowed)
      BY <3>7, <3>8
    <3>10. <<w>> = <<"-">> <=> t.native = NoVlan
      BY <3>1
    <3>11. parse_trunk(back) =
             IF /\ splits(back)
                /\ before(back) = <<"-">> \/ is_vlan(before(back))
                /\ \A s \in allowed : is_vlan(s)
             THEN trunk(IF before(back) = <<"-">> THEN NoVlan ELSE vlan_of(before(back)),
                        {vlan_of(s) : s \in allowed})
             ELSE Refused
      BY <3>6 DEF parse_trunk, allowed
    <3>12. parse_trunk(back) = trunk(t.native, ToSet(t.allowed))
      BY <3>1, <3>6, <3>9, <3>10, <3>11
    <3>13. deserialize(t) =
             [name |-> t.name, mode |-> "trunk", native |-> t.native, allowed |-> t.allowed]
      BY <2>2 DEF deserialize
    <3>14. built = trunk(t.native, ToSet(t.allowed))
      BY <3>13 DEF construct
    <3> QED BY <3>4, <3>5, <3>12, <3>13, <3>14
  <2> QED BY <2>1, <2>2 DEF Writable, deserialize
<1>4. as_argument(t) = t.name \o <<":">> \o rest
  BY DEF as_argument
<1> HIDE DEF rest, built
<1>5. splits(as_argument(t)) /\ before(as_argument(t)) = t.name /\ after(as_argument(t)) = rest
  BY <1>1, <1>3, <1>4, SplitOnce
<1>6. parse_spec(as_argument(t)) =
        IF built # Refused THEN [name |-> t.name, mode |-> built] ELSE Refused
  BY <1>3, <1>5 DEF parse_spec
<1> QED BY <1>1, <1>2, <1>3, <1>6 DEF built

FileTyped == file = Unreadable \/ file \in Seq(Tables)

\* The specs of the arguments are those of the entries, or both are refused.
LEMMA SameSpecs ==
  ASSUME file \in Seq(Tables), file # Unreadable,
         \A i \in DOMAIN file : Writable(file[i])
  PROVE  load(file) = parse_port_specs([i \in DOMAIN file |-> as_argument(file[i])])
<1> DEFINE line == [i \in DOMAIN file |-> as_argument(file[i])]
           entries == [i \in DOMAIN file |-> deserialize(file[i])]
           built(i) == construct(deserialize(file[i]))
           specs == [i \in DOMAIN entries |->
                       [name |-> entries[i].name, mode |-> construct(entries[i])]]
           parsed == [i \in DOMAIN line |-> parse_spec(line[i])]
<1>1. ASSUME NEW i \in DOMAIN file
      PROVE  /\ file[i] \in Tables /\ Writable(file[i])
             /\ specs[i] = [name |-> file[i].name, mode |-> built(i)]
             /\ parsed[i] = IF built(i) # Refused THEN specs[i] ELSE Refused
             /\ built(i) # Refused => specs[i] # Refused
  <2>1. file[i] \in Tables /\ Writable(file[i])
    OBVIOUS
  <2>2. /\ file[i].name \in Seq(STRING) /\ built(i) \in PortMode \cup {Refused}
        /\ deserialize(file[i]).name = file[i].name
        /\ parse_spec(as_argument(file[i])) =
             IF built(i) # Refused THEN [name |-> file[i].name, mode |-> built(i)] ELSE Refused
    BY <2>1, ArgumentOfTable
  <2>3. specs[i] = [name |-> file[i].name, mode |-> built(i)]
        /\ parsed[i] = parse_spec(as_argument(file[i]))
    BY <2>2
  <2> HIDE DEF specs, parsed, built
  <2>4. built(i) # Refused => [name |-> file[i].name, mode |-> built(i)] # Refused
    BY <2>2, RefusedAssumption
  <2> QED BY <2>1, <2>2, <2>3, <2>4
<1>2. load(file) = IF (\A i \in DOMAIN file : built(i) # Refused) /\ unique_names(specs)
                   THEN specs ELSE Refused
  <2>1. load(file) = into_specs(entries)
    BY DEF load, Writable
  <2>2. into_specs(entries) =
          IF (\A i \in DOMAIN specs : specs[i].mode # Refused) /\ unique_names(specs)
          THEN specs ELSE Refused
    BY Zenon DEF into_specs
  <2>3. DOMAIN specs = DOMAIN file
    OBVIOUS
  <2> HIDE DEF specs, entries, built
  <2> QED BY <1>1, <2>1, <2>2, <2>3
<1>3. parse_port_specs(line) =
        IF (\A i \in DOMAIN file : parsed[i] # Refused) /\ unique_names(parsed)
        THEN parsed ELSE Refused
  BY DEF parse_port_specs
<1>4. /\ DOMAIN specs = DOMAIN file /\ DOMAIN parsed = DOMAIN file
      /\ specs = [i \in DOMAIN file |-> specs[i]]
      /\ parsed = [i \in DOMAIN file |-> parsed[i]]
  OBVIOUS
<1> HIDE DEF specs, parsed, built
<1>5. CASE \A i \in DOMAIN file : built(i) # Refused
  <2>1. parsed = specs
    BY <1>1, <1>4, <1>5
  <2>2. \A i \in DOMAIN file : parsed[i] # Refused
    BY <1>1, <1>5, <2>1
  <2> QED BY <1>2, <1>3, <1>5, <2>1, <2>2
<1>6. CASE ~\A i \in DOMAIN file : built(i) # Refused
  <2>1. ~\A i \in DOMAIN file : parsed[i] # Refused
    BY <1>1, <1>6
  <2> QED BY <1>2, <1>3, <1>6, <2>1
<1> QED BY <1>5, <1>6

(***************************************************************************)
(* The two grammars agree, on every set of ports that both can write: for  *)
(* any number of ports, and trunks of any number of VLANs.                 *)
(***************************************************************************)
THEOREM GrammarsAgreeHolds == Spec => []GrammarsAgree
<1>1. Init => FileTyped
  <2>1. << >> \in Seq(Tables)
    OBVIOUS
  <2> QED BY <2>1 DEF Init, FileTyped
<1>2. FileTyped /\ [Next]_vars => FileTyped'
  BY DEF FileTyped, Next, type_argument, write_table, main, vars
<1>3. FileTyped => GrammarsAgree
  BY SameSpecs DEF FileTyped, GrammarsAgree
<1> QED BY <1>1, <1>2, <1>3, PTL DEF Spec

----------------------------------------------------------------------------
(***************************************************************************)
(* The way back: what is accepted is spelled out, word by word.            *)
(***************************************************************************)
LEMMA SplitApart ==
  ASSUME NEW S, NEW text \in Seq(S), splits(text)
  PROVE  LET c == colon(text)
         IN  /\ c \in 1 .. Len(text) /\ text[c] = ":" /\ Len(text) \in Nat
             /\ before(text) \in Seq(S) /\ Len(before(text)) = c - 1
             /\ \A j \in 1 .. c - 1 : before(text)[j] = text[j]
             /\ after(text) \in Seq(S) /\ Len(after(text)) = Len(text) - c
             /\ \A j \in 1 .. Len(text) - c : after(text)[j] = text[j + c]
<1> DEFINE c == colon(text)
<1>1. Len(text) \in Nat
  OBVIOUS
<1>2. c \in 1 .. Len(text) /\ text[c] = ":"
  <2>1. PICK k \in 1 .. Len(text) : text[k] = ":"
    BY DEF splits, Contains
  <2> DEFINE found == {i \in 1 .. Len(text) : text[i] = ":"}
  <2>2. found \in SUBSET Nat /\ k \in found
    BY <2>1
  <2>3. PICK m \in found : \A i \in found : m <= i
    <3> HIDE DEF found
    <3> QED BY <2>2, LeastPosition
  <2>4. m \in 1 .. Len(text) /\ text[m] = ":" /\ \A j \in 1 .. Len(text) : j < m => text[j] # ":"
    BY <2>3
  <2>5. c = m
    BY <1>1, <2>4, FirstFound, SearchesAreFirst
  <2> QED BY <2>4, <2>5
<1>3. before(text) = SubSeq(text, 1, c - 1) /\ after(text) = SubSeq(text, c + 1, Len(text))
  BY DEF before, after
<1> HIDE DEF c
<1>4. /\ before(text) \in Seq(S) /\ Len(before(text)) = c - 1
      /\ \A j \in 1 .. c - 1 : before(text)[j] = text[j]
  BY <1>1, <1>2, <1>3
<1>5. /\ after(text) \in Seq(S) /\ Len(after(text)) = Len(text) - c
      /\ \A j \in 1 .. Len(text) - c : after(text)[j] = text[j + c]
  BY <1>1, <1>2, <1>3
<1> QED BY <1>1, <1>2, <1>4, <1>5 DEF c

\* Nothing is lost between the two halves.
LEMMA Rejoined ==
  ASSUME NEW text \in Seq(AnyWord), splits(text)
  PROVE  /\ text = before(text) \o <<":">> \o after(text)
         /\ after(text) = SubSeq(text, Len(before(text)) + 2, Len(text))
<1> DEFINE c == colon(text)
           s == before(text)
           t == after(text)
           u == s \o <<":">> \o t
<1>1. /\ c \in 1 .. Len(text) /\ text[c] = ":" /\ Len(text) \in Nat
      /\ s \in Seq(AnyWord) /\ Len(s) = c - 1
      /\ \A j \in 1 .. c - 1 : s[j] = text[j]
      /\ t \in Seq(AnyWord) /\ Len(t) = Len(text) - c
      /\ \A j \in 1 .. Len(text) - c : t[j] = text[j + c]
  BY SplitApart
<1>2. t = SubSeq(text, c + 1, Len(text))
  BY DEF after
<1> HIDE DEF c, s, t
<1> DEFINE front == s \o <<":">>
<1>3. /\ front \in Seq(AnyWord) /\ Len(front) = c
      /\ \A j \in 1 .. c : front[j] = text[j]
  <2> DEFINE sep == <<":">>
  <2>1. sep \in Seq(AnyWord) /\ Len(sep) = 1 /\ sep[1] = ":"
    <3>1. ":" \in AnyWord
      BY DEF AnyWord
    <3> QED BY <3>1
  <2> HIDE DEF sep
  <2>2. front = s \o sep
    BY DEF sep
  <2> HIDE DEF front
  <2>3. /\ front \in Seq(AnyWord) /\ Len(front) = c
        /\ \A j \in 1 .. c : front[j] = IF j <= c - 1 THEN s[j] ELSE sep[j - (c - 1)]
    <3>1. front \in Seq(AnyWord) /\ Len(front) = Len(s) + Len(sep)
      BY <1>1, <2>1, <2>2, ConcatProperties
    <3>2. \A j \in 1 .. Len(s) + Len(sep) :
            front[j] = IF j <= Len(s) THEN s[j] ELSE sep[j - Len(s)]
      BY <1>1, <2>1, <2>2, ConcatProperties
    <3>3. Len(s) + Len(sep) = c /\ Len(s) = c - 1
      BY <1>1, <2>1
    <3> QED BY <3>1, <3>2, <3>3
  <2>4. ASSUME NEW j \in 1 .. c, ~(j <= c - 1) PROVE j = c /\ j - (c - 1) = 1
    BY <1>1, <2>4
  <2> QED BY <1>1, <2>1, <2>3, <2>4
<1>4. u = front \o t
  OBVIOUS
<1> HIDE DEF front, u
<1>5. /\ u \in Seq(AnyWord) /\ Len(u) = Len(text)
      /\ \A j \in 1 .. Len(text) : u[j] = IF j <= c THEN front[j] ELSE t[j - c]
  <2>1. u \in Seq(AnyWord) /\ Len(u) = Len(front) + Len(t)
    BY <1>1, <1>3, <1>4, ConcatProperties
  <2>2. \A j \in 1 .. Len(front) + Len(t) :
          u[j] = IF j <= Len(front) THEN front[j] ELSE t[j - Len(front)]
    BY <1>1, <1>3, <1>4, ConcatProperties
  <2>3. Len(front) + Len(t) = Len(text) /\ Len(front) = c
    BY <1>1, <1>3
  <2> QED BY <2>1, <2>2, <2>3
<1>7. ASSUME NEW j \in 1 .. Len(text) PROVE u[j] = text[j]
  <2>1. CASE j <= c
    BY <1>1, <1>3, <1>5, <2>1
  <2>2. CASE ~(j <= c)
    <3>1. j - c \in 1 .. Len(text) - c /\ (j - c) + c = j
      BY <1>1, <2>2
    <3>2. u[j] = t[j - c]
      BY <1>5, <2>2, <3>1
    <3>3. t[j - c] = text[(j - c) + c]
      BY <1>1, <3>1
    <3> QED BY <3>1, <3>2, <3>3
  <2> QED BY <2>1, <2>2
<1>8. u = text
  BY <1>5, <1>7, SeqEqual
<1>9. Len(s) + 2 = c + 1
  BY <1>1
<1> QED BY <1>2, <1>8, <1>9 DEF s, t, u

\* A field that is a VLAN is a numeral alone.
LEMMA OneWord ==
  ASSUME NEW text, is_vlan(text)
  PROVE  Len(text) = 1 /\ text[1] \in DOMAIN Numeral /\ vlan_of(text) = Numeral[text[1]]
         /\ text[1] \notin {":", ",", "-", "trunk"}
BY ConfigurationAssumption DEF is_vlan, vlan_of

\* If every field is one, the cuts are two apart.
LEMMA FieldsOfList ==
  ASSUME NEW list \in Seq(AnyWord), list # << >>, \A s \in fields(list) : is_vlan(s)
  PROVE  /\ IsList(list)
         /\ {vlan_of(s) : s \in fields(list)} = {Numeral[list[i]] : i \in Words(list)}
<1> DEFINE n == Len(list)
           cuts == {0, n + 1} \cup {i \in DOMAIN list : list[i] = ","}
           next(cut) == Min({c \in cuts : c > cut})
           field(cut) == SubSeq(list, cut + 1, next(cut) - 1)
           left == cuts \ {n + 1}
<1>1. n \in Nat /\ n >= 1
  OBVIOUS
<1>2. DOMAIN list = 1 .. n
  OBVIOUS
<1>3. fields(list) = {field(cut) : cut \in left}
  BY Zenon DEF fields
<1> HIDE DEF n
<1>4. /\ 0 \in cuts /\ n + 1 \in cuts /\ cuts \subseteq 0 .. n + 1
      /\ \A i \in 1 .. n : i \in cuts <=> list[i] = ","
  <2>1. cuts = {0, n + 1} \cup {i \in 1 .. n : list[i] = ","}
    BY <1>2
  <2>2. 0 \in 0 .. n + 1 /\ n + 1 \in 0 .. n + 1 /\ 1 .. n \subseteq 0 .. n + 1
        /\ \A i \in 1 .. n : i # 0 /\ i # n + 1
    BY <1>1
  <2> HIDE DEF cuts
  <2> QED BY ONLY <2>1, <2>2
<1>5. \A i \in 1 .. n : i \in cuts <=> list[i] = ","
  BY <1>4
<1>6. 0 \in cuts /\ n + 1 \in cuts /\ \A c \in cuts : c \in 0 .. n + 1
  BY ONLY <1>4
<1>7. left = cuts \ {n + 1}
  OBVIOUS
<1> HIDE DEF cuts, left
<1>8. ASSUME NEW cut \in left
      PROVE  /\ cut + 1 \in 1 .. n /\ cut + 2 \in cuts
             /\ list[cut + 1] \in DOMAIN Numeral /\ list[cut + 1] # ","
             /\ vlan_of(field(cut)) = Numeral[list[cut + 1]]
  <2> DEFINE later == {c \in cuts : c > cut}
             m == next(cut)
  <2>1. cut \in 0 .. n /\ n + 1 \in later /\ later \in SUBSET Nat
    <3>1. cut \in 0 .. n + 1 /\ cut # n + 1
      BY <1>6, <1>7
    <3>2. cut \in 0 .. n /\ n + 1 > cut
      BY <1>1, <3>1
    <3>3. \A c \in cuts : c \in Nat
      BY ONLY <1>1, <1>6
    <3> QED BY <1>6, <3>2, <3>3
  <2>2. PICK k \in later : \A c \in later : k <= c
    <3> HIDE DEF later
    <3> QED BY <2>1, LeastPosition
  <2>3. next(cut) = k
    <3>1. k \in Int /\ \A c \in later : c \in Int /\ k <= c
      BY <2>1, <2>2
    <3> HIDE DEF later
    <3>2. Min(later) = k
      BY <2>2, <3>1, LeastIs
    <3> QED BY <3>2 DEF later
  <2>4. k \in cuts /\ k \in Nat /\ k > cut /\ k <= n + 1
    BY <2>1, <2>2
  <2>5. field(cut) = SubSeq(list, cut + 1, k - 1)
    BY <2>3
  <2>6. is_vlan(field(cut))
    BY <1>3
  <2> HIDE DEF next, field
  <2>7. Len(field(cut)) = k - 1 - cut
    BY <1>1, <2>1, <2>4, <2>5 DEF n
  <2>8. k = cut + 2
    <3>1. k - 1 - cut = 1
      BY <2>6, <2>7, OneWord
    <3> QED BY <1>1, <2>1, <2>4, <3>1
  <2>9. cut + 1 \in 1 .. n
    BY <1>1, <2>1, <2>4, <2>8
  <2>10. field(cut)[1] = list[cut + 1]
    <3>1. k - 1 = cut + 1 /\ 1 + (cut + 1) - 1 = cut + 1
      BY <2>1, <2>8
    <3> QED BY <1>1, <2>1, <2>5, <2>9, <3>1 DEF n
  <2> QED BY <2>4, <2>6, <2>8, <2>9, <2>10, OneWord
<1> HIDE DEF field, next
<1> DEFINE fits(i) == IF i % 2 = 1 THEN list[i] \in DOMAIN Numeral ELSE list[i] = ","
<1>9. ASSUME NEW i \in 1 .. n PROVE fits(i)
  <2> DEFINE bad == {j \in 1 .. n : ~fits(j)}
  <2> SUFFICES ASSUME i \in bad PROVE FALSE
    OBVIOUS
  <2>1. bad \in SUBSET Nat
    <3> HIDE DEF fits
    <3> QED BY <1>1
  <2>2. PICK k \in bad : \A j \in bad : k <= j
    <3> HIDE DEF bad
    <3> QED BY <2>1, LeastPosition
  <2>3. k \in 1 .. n
    OBVIOUS
  <2>4. k \in 1 .. n /\ ~fits(k) /\ \A j \in 1 .. n : j < k => fits(j)
    <3> HIDE DEF fits
    <3> QED BY <1>1, <2>2
  <2> HIDE DEF bad
  <2>5. ASSUME NEW j \in 0 .. n - 1, j < k, j % 2 = 0 PROVE j \in left
    <3>1. CASE j = 0
      BY ONLY <1>1, <1>6, <1>7, <3>1
    <3>2. CASE j # 0
      <4>1. j \in 1 .. n /\ j % 2 # 1 /\ j # n + 1
        BY ONLY <1>1, <2>5, <3>2
      <4>2. list[j] = ","
        BY <2>4, <2>5, <4>1
      <4> QED BY <1>5, <1>7, <4>1, <4>2
    <3> QED BY <3>1, <3>2
  <2>6. CASE k % 2 = 1
    <3>1. k - 1 \in 0 .. n - 1 /\ k - 1 < k /\ (k - 1) % 2 = 0 /\ (k - 1) + 1 = k
      BY ONLY <1>1, <2>3, <2>6
    <3>2. list[k] \in DOMAIN Numeral
      BY <1>8, <2>5, <3>1
    <3> QED BY <2>4, <2>6, <3>2
  <2>7. CASE k % 2 # 1
    <3>1. k - 2 \in 0 .. n - 1 /\ k - 2 < k /\ (k - 2) % 2 = 0 /\ (k - 2) + 2 = k
      BY ONLY <1>1, <2>3, <2>7
    <3>2. k \in cuts
      BY <1>8, <2>5, <3>1
    <3>3. list[k] = ","
      BY <1>5, <2>4, <3>2
    <3> QED BY <2>4, <2>7, <3>3
  <2> QED BY <2>6, <2>7
<1>10. n % 2 = 1
  <2> SUFFICES ASSUME n % 2 # 1 PROVE FALSE
    OBVIOUS
  <2>1. n \in 1 .. n /\ n # n + 1
    BY <1>1
  <2>2. list[n] = ","
    BY <1>9, <2>1
  <2>3. n \in left
    BY <1>5, <1>7, <2>1, <2>2
  <2>4. n + 1 \in 1 .. n
    BY <1>8, <2>3
  <2> QED BY <1>1, <2>4
<1>11. Words(list) = {i \in 1 .. n : i % 2 = 1}
  BY <1>2 DEF Words
<1>12. IsList(list)
  BY <1>2, <1>9, <1>10, <1>11 DEF IsList, n
<1>13. ASSUME NEW cut \in left
       PROVE  cut + 1 \in Words(list) /\ vlan_of(field(cut)) = Numeral[list[cut + 1]]
  <2>1. cut \in 0 .. n /\ cut # n + 1
    BY ONLY <1>1, <1>6, <1>7
  <2>2. cut % 2 = 0
    <3>1. CASE cut = 0
      BY <3>1
    <3>2. CASE cut # 0
      <4>1. cut \in 1 .. n
        BY <1>1, <2>1, <3>2
      <4>2. list[cut] = "," /\ list[cut] \notin DOMAIN Numeral
        BY <1>5, <1>7, <4>1, ConfigurationAssumption
      <4>3. cut % 2 # 1
        BY <1>9, <4>1, <4>2
      <4> QED BY <4>1, <4>3
    <3> QED BY <3>1, <3>2
  <2>3. (cut + 1) % 2 = 1
    BY <2>1, <2>2
  <2> QED BY <1>8, <1>11, <2>3
<1>14. ASSUME NEW i \in Words(list)
       PROVE  i - 1 \in left /\ (i - 1) + 1 = i
  <2>1. i \in 1 .. n /\ i % 2 = 1
    BY <1>11
  <2>2. CASE i = 1
    BY ONLY <1>1, <1>6, <1>7, <2>2
  <2>3. CASE i # 1
    <3>1. i - 1 \in 1 .. n /\ (i - 1) % 2 # 1 /\ i - 1 # n + 1
      BY <1>1, <2>1, <2>3
    <3>2. list[i - 1] = ","
      BY <1>9, <3>1
    <3>3. i - 1 \in left
      BY <1>5, <1>7, <3>1, <3>2
    <3> QED BY ONLY <2>1, <3>3
  <2> QED BY <2>2, <2>3
<1>15. {vlan_of(s) : s \in fields(list)} = {Numeral[list[i]] : i \in Words(list)}
  <2> HIDE DEF fits
  <2>1. \A s \in fields(list) : \E i \in Words(list) : vlan_of(s) = Numeral[list[i]]
    <3>1. ASSUME NEW cut \in left
          PROVE  \E i \in Words(list) : vlan_of(field(cut)) = Numeral[list[i]]
      BY <1>13
    <3> QED BY <1>3, <3>1
  <2>2. \A i \in Words(list) : \E s \in fields(list) : vlan_of(s) = Numeral[list[i]]
    <3>1. ASSUME NEW i \in Words(list)
          PROVE  field(i - 1) \in fields(list) /\ vlan_of(field(i - 1)) = Numeral[list[i]]
      <4>1. i - 1 \in left /\ (i - 1) + 1 = i
        BY <1>14
      <4>2. vlan_of(field(i - 1)) = Numeral[list[(i - 1) + 1]]
        BY <1>13, <4>1
      <4> QED BY <1>3, <4>1, <4>2
    <3> QED BY <3>1
  <2> QED BY <2>1, <2>2
<1> QED BY <1>12, <1>15

LEMMA TrunkSpelled ==
  ASSUME NEW text \in Seq(AnyWord), IsPrefix(<<"trunk", ":">>, text),
         parse_trunk(SubSeq(text, 3, Len(text))) # Refused
  PROVE  SpelledTrunk(text, parse_trunk(SubSeq(text, 3, Len(text))))
<1> DEFINE prefix == <<"trunk", ":">>
           rest == SubSeq(text, 3, Len(text))
           native == before(rest)
           list == after(rest)
           allowed == IF list = << >> THEN {} ELSE fields(list)
           mode == parse_trunk(rest)
<1>1. /\ Len(text) \in Nat /\ Len(text) >= 2 /\ text[1] = "trunk" /\ text[2] = ":"
  <2>1. prefix \in Seq(AnyWord) /\ Len(prefix) = 2 /\ prefix[1] = "trunk" /\ prefix[2] = ":"
    <3>1. "trunk" \in AnyWord /\ ":" \in AnyWord
      BY DEF AnyWord
    <3> QED BY <3>1
  <2>2. IsPrefix(prefix, text)
    OBVIOUS
  <2> HIDE DEF prefix
  <2>3. Len(text) \in Nat /\ 2 <= Len(text) /\ SubSeq(prefix, 1, 2) = SubSeq(text, 1, 2)
    BY <2>1, <2>2 DEF IsPrefix
  <2>4. SubSeq(text, 1, 2)[1] = text[1] /\ SubSeq(text, 1, 2)[2] = text[2]
    BY <2>3
  <2>5. SubSeq(prefix, 1, 2)[1] = prefix[1] /\ SubSeq(prefix, 1, 2)[2] = prefix[2]
    BY <2>1
  <2> QED BY <2>1, <2>3, <2>4, <2>5
<1>2. /\ rest \in Seq(AnyWord) /\ Len(rest) = Len(text) - 2
      /\ \A j \in 1 .. Len(text) - 2 : rest[j] = text[j + 2]
  BY <1>1
<1> HIDE DEF rest
<1>3. /\ splits(rest)
      /\ native = <<"-">> \/ is_vlan(native)
      /\ \A s \in allowed : is_vlan(s)
      /\ mode = trunk(IF native = <<"-">> THEN NoVlan ELSE vlan_of(native),
                      {vlan_of(s) : s \in allowed})
  <2>1. mode # Refused
    BY DEF rest
  <2> QED BY <2>1, Zenon DEF parse_trunk
<1> DEFINE c == colon(rest)
<1>4. /\ c \in 1 .. Len(rest) /\ rest[c] = ":" /\ Len(rest) \in Nat
      /\ native \in Seq(AnyWord) /\ Len(native) = c - 1
      /\ \A j \in 1 .. c - 1 : native[j] = rest[j]
      /\ list \in Seq(AnyWord) /\ Len(list) = Len(rest) - c
      /\ \A j \in 1 .. Len(rest) - c : list[j] = rest[j + c]
  <2>1. rest \in Seq(AnyWord)
    BY <1>2
  <2>2. splits(rest)
    BY <1>3
  <2> QED BY ONLY <2>1, <2>2, SplitApart
<1>5. c \in 1 .. Len(rest) /\ Len(rest) \in Nat /\ Len(native) = c - 1 /\ Len(list) = Len(rest) - c
  BY ONLY <1>4
<1>6. list = SubSeq(rest, c + 1, Len(rest))
  BY DEF after
<1>7. mode # Refused
  BY DEF rest
<1> HIDE DEF c, native, list, allowed, mode
<1>8. Len(native) = 1 /\ native[1] \in {"-"} \cup DOMAIN Numeral
      /\ (native = <<"-">> <=> native[1] = "-")
      /\ (native # <<"-">> => vlan_of(native) = Numeral[native[1]])
  <2>1. CASE native = <<"-">>
    BY <2>1
  <2>2. CASE native # <<"-">>
    BY <1>3, <2>2, OneWord
  <2> QED BY <2>1, <2>2
<1>9. Len(native) = 1
  BY <1>8
<1>10. Len(text) \in Nat /\ Len(rest) = Len(text) - 2
  BY <1>1, <1>2
<1>11. c = 2 /\ Len(text) >= 4 /\ text[3] = native[1] /\ text[4] = ":"
  <2>1. c = 2
    <3>1. ASSUME NEW k \in Int, NEW l, l = k - 1, l = 1 PROVE k = 2
      BY ONLY <3>1
    <3>2. c \in Int
      BY ONLY <1>5
    <3>3. Len(native) = c - 1
      BY <1>5
    <3> QED BY ONLY <1>9, <3>1, <3>2, <3>3
  <2>2. Len(text) - 2 >= 2 /\ 1 \in 1 .. Len(text) - 2 /\ 2 \in 1 .. Len(text) - 2
    BY ONLY <1>5, <1>10, <2>1
  <2>3. rest[1] = text[1 + 2] /\ rest[2] = text[2 + 2] /\ native[1] = rest[1] /\ rest[2] = ":"
    BY <1>2, <1>4, <2>1, <2>2
  <2>4. Len(text) >= 4
    BY ONLY <1>10, <2>2
  <2>5. 1 + 2 = 3 /\ 2 + 2 = 4
    OBVIOUS
  <2> QED BY <2>1, <2>3, <2>4, <2>5
<1>12. c = 2 /\ Len(text) >= 4
  BY <1>11
<1>13. list = SubSeq(text, 5, Len(text))
  <2> DEFINE tail == SubSeq(text, 5, Len(text))
  <2>1. /\ tail \in Seq(AnyWord) /\ Len(tail) = Len(text) - 4
        /\ \A j \in 1 .. Len(text) - 4 : tail[j] = text[j + 4]
    <3>1. 5 \in Int /\ Len(text) - 5 + 1 = Len(text) - 4 /\ Len(text) - 4 \in Nat
      BY ONLY <1>10, <1>12
    <3> QED BY <1>10, <1>12, <3>1
  <2> HIDE DEF tail
  <2>2. Len(list) = Len(text) - 4
    BY ONLY <1>5, <1>10, <1>12
  <2>3. ASSUME NEW j \in 1 .. Len(text) - 4 PROVE list[j] = tail[j]
    <3>1. j \in 1 .. Len(rest) - c /\ j + c \in 1 .. Len(text) - 2 /\ (j + c) + 2 = j + 4
      BY ONLY <1>5, <1>10, <1>12
    <3>2. list[j] = rest[j + c]
      BY <1>4, <3>1
    <3>3. rest[j + c] = text[(j + c) + 2]
      BY <1>2, <3>1
    <3> QED BY <2>1, <3>1, <3>2, <3>3
  <2>4. list = tail
    BY <1>4, <2>1, <2>2, <2>3, SeqEqual
  <2> QED BY <2>4 DEF tail
<1>14. /\ IsList(list)
       /\ {vlan_of(s) : s \in allowed} = {Numeral[list[i]] : i \in Words(list)}
  <2>1. CASE list = << >>
    <3>1. DOMAIN list = {} /\ allowed = {}
      BY <2>1 DEF allowed
    <3> QED BY <2>1, <3>1 DEF IsList, Words
  <2>2. CASE list # << >>
    <3>1. allowed = fields(list)
      BY <2>2 DEF allowed
    <3> QED BY <1>3, <1>4, <2>2, <3>1, FieldsOfList
  <2> QED BY <2>1, <2>2
<1>15. mode = [kind |-> "trunk",
               native |-> IF text[3] = "-" THEN NoVlan ELSE Numeral[text[3]],
               allowed |-> {Numeral[list[i]] : i \in Words(list)}]
  <2> DEFINE v == IF native = <<"-">> THEN NoVlan ELSE vlan_of(native)
             vs == {vlan_of(s) : s \in allowed}
  <2>1. mode = trunk(v, vs)
    BY <1>3
  <2>2. v = IF text[3] = "-" THEN NoVlan ELSE Numeral[text[3]]
    BY <1>8, <1>11
  <2>3. vs = {Numeral[list[i]] : i \in Words(list)}
    BY <1>14
  <2> HIDE DEF v, vs
  <2>4. mode = [kind |-> "trunk", native |-> v, allowed |-> vs]
    BY <1>7, <2>1 DEF trunk
  <2> QED BY <2>2, <2>3, <2>4
<1>16. SpelledTrunk(text, mode)
  BY <1>1, <1>8, <1>11, <1>13, <1>14, <1>15 DEF SpelledTrunk
<1> QED BY <1>16 DEF mode, rest

LEMMA ArgumentSpelled ==
  ASSUME NEW arg \in Seq(AnyWord), parse_spec(arg) # Refused
  PROVE  LET spec == parse_spec(arg)
             text == SubSeq(arg, Len(spec.name) + 2, Len(arg))
         IN  /\ arg = spec.name \o <<":">> \o text
             /\ SpelledAccess(text, spec.mode) \/ SpelledTrunk(text, spec.mode)
<1> DEFINE spec == parse_spec(arg)
           text == after(arg)
           mode == parse_mode(text)
<1>1. splits(arg) /\ mode # Refused /\ spec = [name |-> before(arg), mode |-> mode]
  BY DEF parse_spec
<1>2. spec.name = before(arg) /\ spec.mode = mode
  BY <1>1
<1> HIDE DEF spec, mode
<1>3. /\ text \in Seq(AnyWord) /\ arg = spec.name \o <<":">> \o text
      /\ text = SubSeq(arg, Len(spec.name) + 2, Len(arg))
  BY <1>1, <1>2, SplitApart, Rejoined
<1> HIDE DEF text
<1>4. CASE IsPrefix(<<"trunk", ":">>, text)
  <2> DEFINE rest == SubSeq(text, 3, Len(text))
  <2>1. mode = parse_trunk(rest)
    BY <1>4, Zenon DEF parse_mode, mode
  <2>2. parse_trunk(rest) # Refused
    BY <1>1, <2>1
  <2>3. SpelledTrunk(text, parse_trunk(rest))
    BY <1>3, <1>4, <2>2, TrunkSpelled
  <2>4. SpelledTrunk(text, spec.mode)
    BY <1>2, <2>1, <2>3
  <2> QED BY <1>3, <2>4 DEF spec
<1>5. CASE ~IsPrefix(<<"trunk", ":">>, text)
  <2>1. is_vlan(text) /\ mode = access(vlan_of(text))
    BY <1>1, <1>5 DEF parse_mode, mode
  <2>2. mode = [kind |-> "access", vlan |-> vlan_of(text)]
    BY <1>1, <2>1 DEF access
  <2>3. SpelledAccess(text, spec.mode)
    BY <1>2, <2>1, <2>2, OneWord DEF SpelledAccess
  <2> QED BY <1>3, <2>3 DEF spec
<1> QED BY <1>4, <1>5

(***************************************************************************)
(* Nothing typed is dropped, from an argument of any length: every word of *)
(* what is accepted is in its place, and shows in the port's name or mode. *)
(***************************************************************************)
THEOREM NothingTypedIsDroppedHolds == Spec => []NothingTypedIsDropped
<1>1. ArgsTyped => NothingTypedIsDropped
  <2> SUFFICES ASSUME ArgsTyped, NEW i \in DOMAIN args, parse_spec(args[i]) # Refused
               PROVE  LET spec == parse_spec(args[i])
                          text == SubSeq(args[i], Len(spec.name) + 2, Len(args[i]))
                      IN  /\ args[i] = spec.name \o <<":">> \o text
                          /\ SpelledAccess(text, spec.mode) \/ SpelledTrunk(text, spec.mode)
    BY DEF NothingTypedIsDropped
  <2>1. args[i] \in Texts
    BY DEF ArgsTyped
  <2>2. Texts \subseteq Seq(STRING) /\ STRING \subseteq AnyWord
    BY ConfigurationAssumption DEF AnyWord
  <2>3. args[i] \in Seq(AnyWord)
    BY <2>1, <2>2, SeqMonotonic
  <2> QED BY <2>3, ArgumentSpelled
<1> QED BY <1>1, ArgsAreTyped, PTL
=============================================================================
