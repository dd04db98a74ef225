--------------------------- MODULE ContainerProofs ---------------------------
(***************************************************************************)
(* ll-box for any mounts, any number of other ll-box commands and any      *)
(* faults: which processes may outlive it, what its exit status tells, in  *)
(* which root the application runs and what the records of containers are  *)
(* worth; and that the composition with ContainerConfig is a Box.          *)
(***************************************************************************)
EXTENDS Container, TLAPS

(* Where each process can be. *)
BoxPlaces == {"main", "parsed", "cloned", "guarded", "opened", "written", "waited", "gone"}
EntryPlaces == {"none", "start", "mounted", "pivoted", "cloned", "guarded", "waited", "dead", "gone"}
InitPlaces == {"none", "start", "mounted", "guarded", "forked", "dead", "gone"}
AppPlaces == {"none", "start", "running", "dead", "gone"}

Ended == {"dead", "gone"}

PlacesOK ==
    /\ at \in [Procs -> BoxPlaces \cup EntryPlaces \cup InitPlaces \cup AppPlaces]
    /\ code \in [Procs -> Results \cup {"none"}]
    /\ armed \subseteq Procs /\ early \in BOOLEAN
    /\ at["cli"] \in {"running", "gone"}
    /\ at["box"] \in BoxPlaces
    /\ at["entry"] \in EntryPlaces
    /\ at["init"] \in InitPlaces
    /\ at["app"] \in AppPlaces /\ at["helper"] \in AppPlaces

(* A process lives only inside one that has cloned it, and is cloned once. *)
Nested ==
    /\ Alive("init") => at["entry"] \in {"cloned", "guarded", "waited"}
    /\ Alive("app") \/ Alive("helper") => at["init"] = "forked"
    /\ at["box"] \in {"main", "parsed"} => at["entry"] = "none"
    /\ at["entry"] \in {"none", "start", "mounted", "pivoted"} => at["init"] = "none"
    /\ at["init"] \in {"none", "start", "mounted", "guarded"} => at["app"] = "none" /\ at["helper"] = "none"

(* The entry process asks to die with ll-box before it waits; it is reaped *)
(* by ll-box, or has nobody left to reap it.                               *)
Bound ==
    /\ at["entry"] \in {"guarded", "waited"} => "entry" \in armed
    /\ at["box"] = "gone" => Over \/ early
    /\ at["box"] = "waited" => at["entry"] = "gone"
    /\ at["entry"] = "gone" => at["box"] \in {"waited", "gone"}

(* Nobody has a result before his end, and a 0 is passed on, never made. *)
Codes ==
    /\ \A p \in Procs \ {"box"} : at[p] \notin Ended => code[p] = "none"
    /\ at["box"] \notin {"waited", "gone"} => code["box"] = "none"
    /\ code["init"] = "zero" => code["app"] = "zero"
    /\ code["entry"] = "zero" => code["init"] = "zero"
    /\ code["box"] = "zero" => code["entry"] = "zero"

TreeInv == PlacesOK /\ Nested /\ Bound /\ Codes

Pivoted == {"pivoted", "cloned", "guarded", "waited"}

(* The root is complete before anything can run in it. *)
RootInv == at["entry"] \in Pivoted => root.pivoted /\ \A m \in Mounts : root.mounts[m] # "later"

(* ll-box has its record while it waits, and none when it says 0. *)
RecordInv ==
    /\ json = "full" => at["box"] \in {"written", "waited", "gone"} /\ at["entry"] # "none"
    /\ at["box"] \in {"cloned", "guarded", "opened", "written"} => at["entry"] # "none"
    /\ at["box"] = "gone" /\ code["box"] = "zero" => json = "none"

(* The container of a record found stale is over, and so is its ll-box or  *)
(* about to be: nobody writes the record again.                            *)
SweepInv ==
    \A q \in Cmds : cmd[q].stale =>
       /\ at["entry"] = "gone" /\ at["box"] \in {"waited", "gone"}
       /\ cmd[q].at = "clean" => cmd[q].snap
       /\ cmd[q].at \in {"read", "act", "done"} => json = "none" \/ stranger

CmdRecord == [at : {"idle", "scan", "clean", "read", "act", "done"}, what : {"none", "list", "exec", "kill"},
              snap : BOOLEAN, lived : BOOLEAN, stale : BOOLEAN, by : {"none", "children", "stat"},
              join : {"none", "entry", "init", "app", "stranger"}]

DataOK ==
    /\ handler \in BOOLEAN /\ stranger \in BOOLEAN /\ termed \in BOOLEAN
    /\ root \in [mounts : [Mounts -> {"absent", "rw", "later", "ro"}], pivoted : BOOLEAN]
    /\ json \in {"none", "empty", "full"}
    /\ cmd \in [Cmds -> CmdRecord]

IInv == TreeInv /\ DataOK /\ RootInv /\ RecordInv /\ SweepInv

(* What a process that ends with c has to go by. *)
Told(p, c) ==
    /\ c \in Results \cup {"none"}
    /\ c = "zero" => CASE p = "init" -> code["app"] = "zero"
                       [] p = "entry" -> code["init"] = "zero"
                       [] p = "box" -> code["entry"] = "zero"
                       [] OTHER -> p \in {"app", "helper"}

------------------------------------------------------------------------------
(* The end of a process                                                    *)

(* Ends: those that fall are over, the others are as they were, but for    *)
(* zombies that nobody is left to wait for.                                *)
LEMMA EndsFacts ==
    ASSUME PlacesOK, NEW p \in Procs, NEW c, Alive(p), Ends(p, c)
    PROVE  /\ at' \in [Procs -> BoxPlaces \cup EntryPlaces \cup InitPlaces \cup AppPlaces]
           /\ \A q \in Procs : Alive(q) /\ q \in FallWith(p) => at'[q] \in Ended
           /\ \A q \in Procs : Alive(q) /\ q \notin FallWith(p) => at'[q] = at[q] /\ code'[q] = code[q]
           /\ \A q \in Procs : ~Alive(q) => /\ code'[q] = code[q]
                                            /\ at'[q] = at[q] \/ (at[q] = "dead" /\ at'[q] = "gone")
           /\ code'[p] = c
           /\ \A q \in FallWith(p) \ {p} : Alive(q) => code'[q] = "failed"
           /\ at'["cli"] # "dead" /\ at'["box"] # "dead"
           /\ at'["entry"] = "gone" => at["entry"] = "gone" \/ at["box"] = "gone" \/ at'["box"] = "gone"
           /\ armed' = armed
           /\ early' = (early \/ (/\ "box" \in FallWith(p) /\ Alive("box")
                                  /\ at["entry"] \in {"start", "mounted", "pivoted", "cloned"}))
  <1> DEFINE fall == {q \in FallWith(p) : Alive(q)}
             left(q) == Alive(Parent(q)) /\ Parent(q) \notin fall /\ q # "cli"
             over(q) == q \in fall \/ (at[q] = "dead" /\ Parent(q) \in fall)
  <1>1. /\ at' = [q \in Procs |-> IF ~over(q) THEN at[q]
                                  ELSE IF left(q) /\ q # "box" THEN "dead" ELSE "gone"]
        /\ code' = [q \in Procs |-> IF q = p THEN c ELSE IF q \in fall THEN "failed" ELSE code[q]]
        /\ armed' = armed
        /\ early' = (early \/ ("box" \in fall /\ at["entry"] \in {"start", "mounted", "pivoted", "cloned"}))
    BY DEF Ends
  <1>2. p \in FallWith(p) /\ FallWith(p) \subseteq Procs
    BY DEF FallWith, Inside, Procs, Tree
  <1>3. "cli" \in Procs /\ "box" \in Procs /\ at["cli"] # "dead" /\ at["box"] # "dead"
    BY DEF PlacesOK, BoxPlaces, Procs
  <1>4. /\ at \in [Procs -> BoxPlaces \cup EntryPlaces \cup InitPlaces \cup AppPlaces]
        /\ {"dead", "gone"} \subseteq EntryPlaces
    BY DEF PlacesOK, EntryPlaces
  <1>5. \A q \in Procs : at[q] = "dead" => ~Alive(q)
    BY DEF Alive
  <1>6. \A q \in fall : q \in FallWith(p) /\ Alive(q)
    OBVIOUS
  <1>7. \A q \in FallWith(p) : Alive(q) => q \in fall
    OBVIOUS
  <1>8. \A q \in Procs : over(q) => at'[q] \in Ended
    BY <1>1 DEF Ended
  <1>9. \A q \in Procs : ~over(q) => at'[q] = at[q]
    BY <1>1
  <1>10. at' \in [Procs -> BoxPlaces \cup EntryPlaces \cup InitPlaces \cup AppPlaces]
    BY <1>1, <1>4
  <1>11. \A q \in Procs : ~Alive(q) => at'[q] = at[q] \/ (at[q] = "dead" /\ at'[q] = "gone")
    <2> SUFFICES ASSUME NEW q \in Procs, ~Alive(q), over(q)
                 PROVE  at[q] = "dead" /\ at'[q] = "gone"
      BY <1>9
    <2>1. at[q] = "dead" /\ Parent(q) \in fall
      BY <1>6
    <2> QED
      BY <1>1, <2>1
  <1>12. at'["cli"] # "dead" /\ at'["box"] # "dead"
    BY <1>1, <1>3
  <1>13. ASSUME at'["entry"] = "gone", at["entry"] # "gone"
         PROVE  at["box"] = "gone" \/ at'["box"] = "gone"
    <2>1. "entry" \in Procs /\ "entry" \notin {"cli", "box"} /\ Parent("entry") = "box"
      BY DEF Procs, Tree, Parent
    <2>2. ~left("entry")
      BY <1>1, <1>13, <2>1
    <2>3. ~Alive("box") \/ "box" \in fall
      BY <2>1, <2>2
    <2>4. "box" \in fall => at'["box"] = "gone"
      BY <1>1, <1>3
    <2>5. ~Alive("box") => at["box"] = "gone"
      BY DEF Alive, PlacesOK, BoxPlaces
    <2> QED
      BY <2>3, <2>4, <2>5
  <1>14. early' = (early \/ (/\ "box" \in FallWith(p) /\ Alive("box")
                            /\ at["entry"] \in {"start", "mounted", "pivoted", "cloned"}))
    BY <1>1
  <1> HIDE DEF left
  <1> QED
    BY <1>1, <1>2, <1>3, <1>5, <1>6, <1>7, <1>8, <1>9, <1>10, <1>11, <1>12, <1>13, <1>14

(* The kernel keeps the tree of processes in order, whoever ends. *)
LEMMA EndsTree ==
    ASSUME TreeInv, NEW p \in Procs, NEW c, Alive(p), Ends(p, c), Told(p, c)
    PROVE  TreeInv'
  <1> USE DEF Ended
  <1>1. PlacesOK /\ Nested /\ Bound /\ Codes
    BY DEF TreeInv
  <1>2. Procs = {"cli", "box", "entry", "init", "app", "helper"}
    BY DEF Procs, Tree
  <1>3. /\ at' \in [Procs -> BoxPlaces \cup EntryPlaces \cup InitPlaces \cup AppPlaces]
        /\ \A q \in Procs : Alive(q) /\ q \in FallWith(p) => at'[q] \in Ended
        /\ \A q \in Procs : Alive(q) /\ q \notin FallWith(p) => at'[q] = at[q] /\ code'[q] = code[q]
        /\ \A q \in Procs : ~Alive(q) => /\ code'[q] = code[q]
                                         /\ at'[q] = at[q] \/ (at[q] = "dead" /\ at'[q] = "gone")
        /\ code'[p] = c
        /\ \A q \in FallWith(p) \ {p} : Alive(q) => code'[q] = "failed"
        /\ at'["cli"] # "dead" /\ at'["box"] # "dead"
        /\ at'["entry"] = "gone" => at["entry"] = "gone" \/ at["box"] = "gone" \/ at'["box"] = "gone"
        /\ armed' = armed
        /\ early' = (early \/ (/\ "box" \in FallWith(p) /\ Alive("box")
                               /\ at["entry"] \in {"start", "mounted", "pivoted", "cloned"}))
    BY <1>1, EndsFacts
  <1>4. /\ \A q \in Procs : at'[q] = at[q] \/ at'[q] \in Ended
        /\ \A q \in Procs : Alive(q)' => at'[q] = at[q] /\ Alive(q) /\ q \notin FallWith(p)
        /\ \A q \in Procs : at'[q] = "none" => at[q] = "none"
    BY <1>3 DEF Alive
  <1>5. code' \in [Procs -> Results \cup {"none"}]
    <2>1. \A q \in Procs : code'[q] \in Results \cup {"none"}
      BY <1>1, <1>3 DEF PlacesOK, Told, Results
    <2>2. code' = [q \in Procs |-> code'[q]]
      BY DEF Ends
    <2> QED
      BY <2>1, <2>2
  <1>6. PlacesOK'
    <2>1. at'["cli"] \in {"running", "gone"}
      BY <1>1, <1>2, <1>3, <1>4 DEF PlacesOK
    <2>2. at'["box"] \in BoxPlaces
      BY <1>1, <1>2, <1>3, <1>4 DEF PlacesOK, BoxPlaces
    <2>3. at'["entry"] \in EntryPlaces /\ at'["init"] \in InitPlaces
      BY <1>1, <1>2, <1>4 DEF PlacesOK, EntryPlaces, InitPlaces
    <2>4. at'["app"] \in AppPlaces /\ at'["helper"] \in AppPlaces
      BY <1>1, <1>2, <1>4 DEF PlacesOK, AppPlaces
    <2>5. armed' \subseteq Procs /\ early' \in BOOLEAN
      BY <1>1, <1>3 DEF PlacesOK
    <2> QED
      BY <1>3, <1>5, <2>1, <2>2, <2>3, <2>4, <2>5 DEF PlacesOK
  (* Who goes on has everybody above him going on. *)
  <1>7. /\ "entry" \in FallWith(p) => Tree \subseteq FallWith(p)
        /\ "init" \in FallWith(p) => "app" \in FallWith(p) /\ "helper" \in FallWith(p)
        /\ "box" \in FallWith(p) /\ "entry" \in armed => "entry" \in FallWith(p)
    BY <1>2 DEF FallWith, Inside, Tree
  <1>8. Nested'
    <2>1. Alive("init")' => at'["entry"] \in {"cloned", "guarded", "waited"}
      <3> SUFFICES ASSUME Alive("init")'
                   PROVE  at'["entry"] \in {"cloned", "guarded", "waited"}
        OBVIOUS
      <3>1. Alive("init") /\ "init" \notin FallWith(p)
        BY <1>2, <1>4
      <3>2. at["entry"] \in {"cloned", "guarded", "waited"} /\ "entry" \notin FallWith(p)
        BY <1>1, <1>7, <3>1 DEF Nested, Tree
      <3> QED
        BY <1>2, <1>3, <3>2 DEF Alive
    <2>2. Alive("app")' \/ Alive("helper")' => at'["init"] = "forked"
      <3> SUFFICES ASSUME Alive("app")' \/ Alive("helper")'
                   PROVE  at'["init"] = "forked"
        OBVIOUS
      <3>1. at["init"] = "forked" /\ "init" \notin FallWith(p)
        BY <1>1, <1>2, <1>4, <1>7 DEF Nested
      <3> QED
        BY <1>2, <1>3, <3>1 DEF Alive
    <2>3. at'["box"] \in {"main", "parsed"} => at'["entry"] = "none"
      BY <1>1, <1>2, <1>3, <1>4 DEF Nested, Alive
    <2>4. at'["entry"] \in {"none", "start", "mounted", "pivoted"} => at'["init"] = "none"
      BY <1>1, <1>2, <1>3, <1>4 DEF Nested, Alive
    <2>5. at'["init"] \in {"none", "start", "mounted", "guarded"} => at'["app"] = "none" /\ at'["helper"] = "none"
      BY <1>1, <1>2, <1>3, <1>4 DEF Nested, Alive
    <2> QED
      BY <2>1, <2>2, <2>3, <2>4, <2>5 DEF Nested
  <1>9. Bound'
    <2>1. at'["entry"] \in {"guarded", "waited"} => "entry" \in armed'
      BY <1>1, <1>2, <1>3, <1>4 DEF Bound
    <2>2. ASSUME at'["box"] = "gone", ~early'
          PROVE  Over'
      <3>1. CASE at["box"] = "gone"
        <4>1. Over
          BY <1>1, <1>3, <2>2, <3>1 DEF Bound
        <4> QED
          BY <1>4, <4>1 DEF Over, Procs
      <3>2. CASE at["box"] # "gone"
        <4>1. Alive("box") /\ "box" \in FallWith(p)
          BY <1>1, <1>2, <1>3, <2>2, <3>2 DEF PlacesOK, BoxPlaces, Alive
        <4>2. at["entry"] \notin {"start", "mounted", "pivoted", "cloned"}
          BY <1>3, <2>2, <4>1
        <4>3. CASE Alive("entry")
          <5>1. "entry" \in armed
            BY <1>1, <4>2, <4>3 DEF Bound, PlacesOK, EntryPlaces, Alive
          <5> QED
            BY <1>4, <1>7, <4>1, <5>1 DEF Over, Procs
        <4>4. CASE ~Alive("entry")
          <5>1. ~Alive("init") /\ ~Alive("app") /\ ~Alive("helper")
            BY <1>1, <4>4 DEF Nested, Alive
          <5> QED
            BY <1>4, <4>4, <5>1 DEF Over, Procs, Tree
        <4> QED
          BY <4>3, <4>4
      <3> QED
        BY <3>1, <3>2
    <2>3. at'["box"] = "waited" => at'["entry"] = "gone"
      BY <1>1, <1>2, <1>3, <1>4 DEF Bound, Alive
    <2>4. at'["entry"] = "gone" => at'["box"] \in {"waited", "gone"}
      BY <1>1, <1>2, <1>3, <1>4 DEF Bound
    <2> QED
      BY <2>1, <2>2, <2>3, <2>4 DEF Bound
  <1>10. Codes'
    <2>1. \A q \in Procs \ {"box"} : at'[q] \notin Ended => code'[q] = "none"
      <3> SUFFICES ASSUME NEW q \in Procs \ {"box"}, at'[q] \notin Ended
                   PROVE  code'[q] = "none"
        OBVIOUS
      <3>1. code'[q] = code[q] /\ at'[q] = at[q]
        BY <1>3, <1>4
      <3> QED
        BY <1>1, <3>1 DEF Codes
    <2>2. at'["box"] \notin {"waited", "gone"} => code'["box"] = "none"
      BY <1>1, <1>2, <1>3, <1>4 DEF Codes
    <2>3. \A q \in Procs : code[q] = "zero" => code'[q] = "zero" \/ (q = "box" /\ Alive("box"))
      BY <1>1, <1>3 DEF Codes, Alive
    <2>4. \A q \in Procs : code'[q] = "zero" => code[q] = "zero" \/ (q = p /\ c = "zero")
      BY <1>1, <1>3
    <2>5. /\ code'["init"] = "zero" => code'["app"] = "zero"
          /\ code'["entry"] = "zero" => code'["init"] = "zero"
          /\ code'["box"] = "zero" => code'["entry"] = "zero"
      BY <1>1, <1>2, <2>3, <2>4 DEF Codes, Told
    <2> QED
      BY <2>1, <2>2, <2>5 DEF Codes
  <1> QED
    BY <1>6, <1>8, <1>9, <1>10 DEF TreeInv

------------------------------------------------------------------------------
(* The other steps of the processes                                        *)

(* Who may go where. *)
Steps == {<<"box", "main", "parsed">>, <<"box", "cloned", "guarded">>, <<"box", "guarded", "opened">>,
          <<"box", "guarded", "written">>, <<"box", "opened", "written">>,
          <<"entry", "start", "mounted">>, <<"entry", "mounted", "pivoted">>, <<"entry", "cloned", "guarded">>,
          <<"entry", "guarded", "waited">>,
          <<"init", "start", "mounted">>, <<"init", "mounted", "guarded">>,
          <<"app", "start", "running">>, <<"helper", "dead", "gone">>}

(* A step of one process. *)
LEMMA MoveTree ==
    ASSUME TreeInv, NEW p, NEW to, <<p, at[p], to>> \in Steps, at' = [at EXCEPT ![p] = to],
           code' = code, early' = early, armed \subseteq armed', armed' \subseteq Procs,
           p = "entry" /\ to = "guarded" => "entry" \in armed'
    PROVE  TreeInv'
  <1>1. PlacesOK /\ Nested /\ Bound /\ Codes
    BY DEF TreeInv
  <1>2. Procs = {"cli", "box", "entry", "init", "app", "helper"}
    BY DEF Procs, Tree
  <1>3. /\ p \in Procs /\ at'[p] = to /\ \A q \in Procs \ {p} : at'[q] = at[q]
        /\ at' \in [Procs -> BoxPlaces \cup EntryPlaces \cup InitPlaces \cup AppPlaces]
    BY <1>1, <1>2 DEF Steps, PlacesOK, BoxPlaces, EntryPlaces, InitPlaces, AppPlaces
  <1>4. /\ to # "none"
        /\ (at[p] \in {"none", "dead", "gone"}) <=> (to \in {"none", "dead", "gone"})
        /\ to \in Ended => at[p] \in Ended
        /\ p = "box" => to \in {"parsed", "guarded", "opened", "written"} /\ at[p] \notin {"waited", "gone"}
        /\ p = "box" /\ to = "parsed" => at[p] = "main"
        /\ p = "entry" => to \in {"mounted", "pivoted", "guarded", "waited"} /\ at[p] \notin Ended
        /\ p = "entry" /\ to \in {"mounted", "pivoted"} => at[p] \in {"start", "mounted"}
        /\ p = "entry" /\ to = "waited" => at[p] = "guarded"
        /\ p = "entry" /\ to = "guarded" => at[p] = "cloned"
        /\ p = "init" => to \in {"mounted", "guarded"} /\ at[p] \in {"start", "mounted"}
        /\ p = "app" => to = "running" /\ at[p] = "start"
        /\ p = "helper" => to = "gone" /\ at[p] = "dead"
        /\ p # "cli"
    BY DEF Steps, BoxPlaces, EntryPlaces, Ended
  <1>5. \A q \in Procs : Alive(q)' <=> Alive(q)
    BY <1>3, <1>4 DEF Alive
  <1>6. PlacesOK'
    <2>1. at'["cli"] \in {"running", "gone"} /\ at'["box"] \in BoxPlaces
      BY <1>1, <1>2, <1>3, <1>4 DEF PlacesOK, BoxPlaces
    <2>2. at'["entry"] \in EntryPlaces /\ at'["init"] \in InitPlaces
      BY <1>1, <1>2, <1>3, <1>4 DEF PlacesOK, EntryPlaces, InitPlaces
    <2>3. at'["app"] \in AppPlaces /\ at'["helper"] \in AppPlaces
      BY <1>1, <1>2, <1>3, <1>4 DEF PlacesOK, AppPlaces
    <2> QED
      BY <1>1, <1>3, <2>1, <2>2, <2>3 DEF PlacesOK
  <1>7. Nested'
    BY <1>1, <1>2, <1>3, <1>4, <1>5 DEF Nested, BoxPlaces, EntryPlaces
  <1>8. Bound'
    <2>1. Over' <=> Over
      BY <1>2, <1>5 DEF Over, Tree
    <2> QED
      BY <1>1, <1>2, <1>3, <1>4, <2>1 DEF Bound, BoxPlaces, EntryPlaces
  <1>9. Codes'
    BY <1>1, <1>2, <1>3, <1>4 DEF Codes, BoxPlaces, EntryPlaces, Ended
  <1> QED
    BY <1>6, <1>7, <1>8, <1>9 DEF TreeInv

(* A process clones its child; and the application leaves a daemon. *)
LEMMA StartTree ==
    ASSUME TreeInv, NEW p, NEW child, NEW to, NEW begin,
           \/ p = "box" /\ at["box"] = "parsed" /\ child = "entry" /\ to = "cloned" /\ begin = "start"
           \/ p = "entry" /\ at["entry"] = "pivoted" /\ child = "init" /\ to = "cloned" /\ begin = "start"
           \/ p = "init" /\ at["init"] = "guarded" /\ child = "app" /\ to = "forked" /\ begin = "start"
           \/ p = "app" /\ at["app"] = "running" /\ at["helper"] = "none" /\ child = "helper" /\ to = "running"
              /\ begin = "running",
           at' = [at EXCEPT ![p] = to, ![child] = begin], code' = code, early' = early, armed' = armed
    PROVE  TreeInv'
  <1>1. PlacesOK /\ Nested /\ Bound /\ Codes
    BY DEF TreeInv
  <1>2. Procs = {"cli", "box", "entry", "init", "app", "helper"}
    BY DEF Procs, Tree
  <1>3. /\ p \in Procs /\ child \in Procs /\ p # child /\ at'[p] = to /\ at'[child] = begin
        /\ \A q \in Procs \ {p, child} : at'[q] = at[q]
        /\ at' \in [Procs -> BoxPlaces \cup EntryPlaces \cup InitPlaces \cup AppPlaces]
    BY <1>1, <1>2 DEF PlacesOK, BoxPlaces, EntryPlaces, InitPlaces, AppPlaces
  <1>4. at[child] = "none"
    BY <1>1 DEF Nested
  <1>5. \A q \in Procs \ {child} : Alive(q)' <=> Alive(q)
    BY <1>3 DEF Alive
  <1>6. PlacesOK'
    BY <1>1, <1>2, <1>3 DEF PlacesOK, BoxPlaces, EntryPlaces, InitPlaces, AppPlaces
  <1>7. Nested'
    BY <1>1, <1>2, <1>3, <1>4, <1>5 DEF Nested, Alive
  <1>8. at["box"] # "gone" \/ early
    BY <1>1, <1>2 DEF Bound, Over, Alive, Tree
  <1>9. Bound'
    BY <1>1, <1>2, <1>3, <1>4, <1>8 DEF Bound
  <1>10. Codes'
    BY <1>1, <1>2, <1>3, <1>4 DEF Codes, Ended
  <1> QED
    BY <1>6, <1>7, <1>9, <1>10 DEF TreeInv

(* ll-box reaps the entry process and takes over its result. *)
LEMMA WaitTree ==
    ASSUME TreeInv, boxWaits
    PROVE  TreeInv'
  <1>1. PlacesOK /\ Nested /\ Bound /\ Codes
    BY DEF TreeInv
  <1>2. Procs = {"cli", "box", "entry", "init", "app", "helper"}
    BY DEF Procs, Tree
  <1>3. /\ at["box"] = "written" /\ at["entry"] = "dead"
        /\ at' = [at EXCEPT !["entry"] = "gone", !["box"] = "waited"]
        /\ code' = [code EXCEPT !["box"] = code["entry"]]
        /\ armed' = armed /\ early' = early
    BY DEF boxWaits, WaitAllUntil
  <1>4. /\ at'["box"] = "waited" /\ at'["entry"] = "gone"
        /\ \A q \in Procs \ {"box", "entry"} : at'[q] = at[q]
        /\ at' \in [Procs -> BoxPlaces \cup EntryPlaces \cup InitPlaces \cup AppPlaces]
    BY <1>1, <1>2, <1>3 DEF PlacesOK, BoxPlaces, EntryPlaces
  <1>5. /\ code' \in [Procs -> Results \cup {"none"}] /\ code'["box"] = code["entry"]
        /\ \A q \in Procs \ {"box"} : code'[q] = code[q]
    BY <1>1, <1>2, <1>3 DEF PlacesOK
  <1>6. PlacesOK'
    BY <1>1, <1>2, <1>3, <1>4, <1>5 DEF PlacesOK, BoxPlaces, EntryPlaces
  <1>7. Nested'
    BY <1>1, <1>2, <1>3, <1>4 DEF Nested, Alive
  <1>8. Bound'
    BY <1>4 DEF Bound
  <1>9. Codes'
    BY <1>1, <1>2, <1>3, <1>4, <1>5 DEF Codes, Ended
  <1> QED
    BY <1>6, <1>7, <1>8, <1>9 DEF TreeInv

------------------------------------------------------------------------------
(* Processes and the rest of the state                                     *)

(* The commands find no more stale records than before. *)
CmdsKept ==
    \A q \in Cmds : cmd'[q].stale =>
       /\ cmd[q].stale
       /\ cmd'[q].at = "clean" => cmd[q].at = "clean" /\ cmd'[q].snap = cmd[q].snap
       /\ cmd'[q].at \in {"read", "act", "done"} => cmd[q].at \in {"read", "act", "done"}

(* A step of the processes goes on with the commands as they are. *)
LEMMA Frame ==
    ASSUME IInv, TreeInv', DataOK', RootInv', RecordInv', cmd' = cmd \/ CmdsKept, stranger' = stranger,
           at["entry"] = "gone" => at'["entry"] = "gone",
           at["box"] \in {"waited", "gone"} => at'["box"] \in {"waited", "gone"} /\ json' \in {json, "none"}
    PROVE  IInv'
  <1>1. CmdsKept
    BY DEF CmdsKept
  <1>2. SweepInv'
    BY <1>1 DEF IInv, SweepInv, CmdsKept
  <1> QED
    BY <1>2 DEF IInv

(* A process ends. *)
LEMMA EndsIInv ==
    ASSUME IInv, NEW p \in Procs, NEW c, Alive(p), Ends(p, c), Told(p, c), DataOK',
           cmd' = cmd \/ CmdsKept, stranger' = stranger, json' \in {json, "none"},
           root' = root \/ p = "entry",
           p = "box" /\ c = "zero" => json' = "none"
    PROVE  IInv'
  <1>1. TreeInv' /\ PlacesOK
    BY EndsTree DEF IInv, TreeInv
  <1>2. \A q \in Procs : at'[q] = at[q] \/ (at[q] \notin {"none", "gone"} /\ at'[q] \in Ended)
    BY <1>1, EndsFacts DEF Alive, Ended
  <1>3. "entry" \in Procs /\ "box" \in Procs
    BY DEF Procs, Tree
  <1>4. RootInv'
    <2>1. CASE root' = root
      BY <1>2, <1>3, <2>1 DEF IInv, RootInv, Pivoted, Ended
    <2>2. CASE p = "entry"
      <3>1. at'["entry"] \in Ended
        BY <1>1, <1>3, <2>2, EndsFacts DEF FallWith, Inside, Tree
      <3> QED
        BY <3>1 DEF RootInv, Pivoted, Ended
    <2> QED
      BY <2>1, <2>2
  <1>5. at'["box"] # "dead"
    BY <1>1, EndsFacts
  <1>6. ASSUME at'["box"] = "gone", code'["box"] = "zero"
        PROVE  json' = "none"
    <2>1. CASE p = "box"
      BY <1>1, <1>6, <2>1, EndsFacts
    <2>2. CASE p # "box" /\ Alive("box")
      <3>1. "box" \notin FallWith(p)
        BY <1>1, <1>3, <1>6, <2>2, EndsFacts
      <3>2. at'["box"] = at["box"]
        BY <1>1, <1>3, <2>2, <3>1, EndsFacts
      <3> QED
        BY <1>6, <2>2, <3>2 DEF Alive
    <2>3. CASE ~Alive("box")
      <3>1. code'["box"] = code["box"] /\ at["box"] = "gone"
        BY <1>1, <1>3, <2>3, EndsFacts DEF Alive, PlacesOK, BoxPlaces
      <3> QED
        BY <1>6, <3>1 DEF IInv, RecordInv
    <2> QED
      BY <2>1, <2>2, <2>3
  <1>7. RecordInv'
    BY <1>2, <1>3, <1>5, <1>6 DEF IInv, RecordInv, Ended
  <1> QED
    BY <1>1, <1>2, <1>3, <1>4, <1>5, <1>7, Frame DEF Ended

(* SIGKILL, and every error a process does not survive. *)
LEMMA FailsIInv ==
    ASSUME IInv, NEW p \in Procs, Alive(p), Ends(p, "failed"), handler' = handler, termed' \in BOOLEAN,
           cmd' = cmd, stranger' = stranger, json' = json, root' = root
    PROVE  IInv'
  <1>1. Told(p, "failed")
    BY DEF Told, Results
  <1>2. DataOK'
    BY DEF IInv, DataOK
  <1> QED
    BY <1>1, <1>2, EndsIInv

(* A process takes one of its steps. *)
LEMMA MoveIInv ==
    ASSUME IInv, NEW p, NEW to, <<p, at[p], to>> \in Steps, at' = [at EXCEPT ![p] = to],
           code' = code, early' = early, armed \subseteq armed', armed' \subseteq Procs,
           p = "entry" /\ to = "guarded" => "entry" \in armed',
           DataOK', RootInv', cmd' = cmd, stranger' = stranger,
           \/ json' = json
           \/ p = "box" /\ to = "opened" /\ json' = "empty"
           \/ p = "box" /\ at[p] = "opened" /\ json' = "full"
    PROVE  IInv'
  <1>1. TreeInv' /\ PlacesOK
    BY MoveTree DEF IInv, TreeInv
  <1>2. p \in Procs /\ "box" \in Procs /\ "entry" \in Procs
    BY DEF Steps, Procs, Tree
  <1>3. at'[p] = to /\ \A q \in Procs \ {p} : at'[q] = at[q]
    BY <1>1, <1>2 DEF PlacesOK
  <1>4. /\ p = "box" => to \in {"parsed", "guarded", "opened", "written"}
                       /\ at[p] \in {"main", "cloned", "guarded", "opened"}
        /\ p = "box" /\ to \in {"guarded", "opened", "written"} => at[p] \in {"cloned", "guarded", "opened"}
        /\ p = "box" /\ at[p] = "opened" => to = "written"
        /\ p = "entry" => to # "none" /\ at[p] # "gone" /\ at[p] # "none"
    BY DEF Steps
  <1>5. RecordInv'
    <2>1. CASE p = "box"
      BY <1>2, <1>3, <1>4, <2>1 DEF IInv, RecordInv
    <2>2. CASE p # "box"
      BY <1>2, <1>3, <1>4, <2>2 DEF IInv, RecordInv
    <2> QED
      BY <2>1, <2>2
  <1>6. /\ at["entry"] = "gone" => at'["entry"] = "gone"
        /\ at["box"] \in {"waited", "gone"} => at'["box"] \in {"waited", "gone"} /\ json' \in {json, "none"}
    BY <1>2, <1>3, <1>4
  <1> QED
    BY <1>1, <1>5, <1>6, Frame

(* The same where only the processes change. *)
LEMMA QuietMoveIInv ==
    ASSUME IInv, NEW p, NEW to, <<p, at[p], to>> \in Steps, at' = [at EXCEPT ![p] = to],
           code' = code, early' = early, armed \subseteq armed', armed' \subseteq Procs,
           p = "entry" /\ to = "guarded" => "entry" \in armed',
           p = "entry" => to \in {"mounted", "guarded", "waited"},
           handler' \in BOOLEAN, UNCHANGED <<root, json, stranger, termed, cmd>>
    PROVE  IInv'
  <1>1. DataOK'
    BY DEF IInv, DataOK
  <1>2. RootInv'
    <2>1. p \in Procs /\ at'[p] = to /\ \A q \in Procs \ {p} : at'[q] = at[q]
      BY DEF IInv, TreeInv, PlacesOK, Steps, Procs, Tree
    <2>2. p = "entry" => to = "mounted" \/ at[p] \in Pivoted
      BY DEF Steps, Pivoted
    <2>3. "entry" \in Procs
      BY DEF Procs, Tree
    <2> QED
      BY <2>1, <2>2, <2>3 DEF IInv, RootInv, Pivoted
  <1> QED
    BY <1>1, <1>2, MoveIInv

(* A process clones its child, or the application leaves a daemon. *)
LEMMA StartIInv ==
    ASSUME IInv, NEW p, NEW child, NEW to, NEW begin,
           \/ p = "box" /\ at["box"] = "parsed" /\ child = "entry" /\ to = "cloned" /\ begin = "start"
           \/ p = "entry" /\ at["entry"] = "pivoted" /\ child = "init" /\ to = "cloned" /\ begin = "start"
           \/ p = "init" /\ at["init"] = "guarded" /\ child = "app" /\ to = "forked" /\ begin = "start"
           \/ p = "app" /\ at["app"] = "running" /\ at["helper"] = "none" /\ child = "helper" /\ to = "running"
              /\ begin = "running",
           at' = [at EXCEPT ![p] = to, ![child] = begin], code' = code, early' = early, armed' = armed,
           UNCHANGED <<handler, root, json, stranger, termed, cmd>>
    PROVE  IInv'
  <1>1. TreeInv' /\ PlacesOK
    BY StartTree DEF IInv, TreeInv
  <1>2. Procs = {"cli", "box", "entry", "init", "app", "helper"}
    BY DEF Procs, Tree
  <1>3. at'[p] = to /\ at'[child] = begin /\ \A q \in Procs \ {p, child} : at'[q] = at[q]
    BY <1>1, <1>2 DEF PlacesOK
  <1>4. DataOK'
    BY DEF IInv, DataOK
  <1>5. RootInv'
    BY <1>2, <1>3 DEF IInv, RootInv, Pivoted
  <1>6. RecordInv'
    <2>1. CASE p = "box"
      BY <1>2, <1>3, <2>1 DEF IInv, RecordInv
    <2>2. CASE p # "box"
      <3>1. at'["box"] = at["box"] /\ (at["entry"] # "none" => at'["entry"] # "none")
        BY <1>2, <1>3, <2>2
      <3> QED
        BY <2>2, <3>1 DEF IInv, RecordInv
    <2> QED
      BY <2>1, <2>2
  <1>7. at["entry"] = "gone" => p # "box"
    BY DEF IInv, TreeInv, Bound
  <1> QED
    BY <1>1, <1>2, <1>3, <1>4, <1>5, <1>6, <1>7, Frame

------------------------------------------------------------------------------
(* The actions                                                             *)

(* ll-box run. *)
LEMMA BoxIInv ==
    ASSUME IInv, BoxStep
    PROVE  IInv'
  <1>0. PlacesOK /\ DataOK /\ "box" \in Procs
    BY DEF IInv, TreeInv, Procs
  <1>1. CASE run
    <2>1. CASE Moves("box", "parsed")
      <3>1. <<"box", at["box"], "parsed">> \in Steps /\ armed \subseteq Procs /\ handler' \in BOOLEAN
        BY <1>0, <1>1 DEF run, Steps, PlacesOK, DataOK
      <3> QED
        BY <1>1, <2>1, <3>1, QuietMoveIInv DEF run, Moves
    <2>2. CASE Ends("box", "failed")
      BY <1>0, <1>1, <2>2, FailsIInv DEF run, Alive, DataOK
    <2> QED
      BY <1>1, <2>1, <2>2 DEF run
  <1>2. CASE Start
    <2>1. CASE Starts("box", "entry", "cloned")
      BY <1>2, <2>1, StartIInv DEF Start, Starts
    <2>2. CASE Ends("box", "failed")
      BY <1>0, <1>2, <2>2, FailsIInv DEF Start, Alive, DataOK
    <2> QED
      BY <1>2, <2>1, <2>2 DEF Start
  <1>3. CASE Guard("box", "cloned")
    <2>1. <<"box", at["box"], "guarded">> \in Steps /\ armed' \subseteq Procs /\ handler' \in BOOLEAN
      BY <1>0, <1>3 DEF Guard, Steps, PlacesOK, DataOK
    <2> QED
      BY <1>3, <2>1, QuietMoveIInv DEF Guard
  <1>4. CASE writeContainerJson
    <2>1. CASE at["box"] = "guarded" /\ Ends("box", "failed") /\ json' = json
      BY <1>0, <1>4, <2>1, FailsIInv DEF writeContainerJson, Alive, DataOK
    <2>2. CASE at["box"] = "guarded" /\ Moves("box", "written") /\ json' = json
      <3>1. <<"box", at["box"], "written">> \in Steps /\ armed \subseteq Procs /\ handler' \in BOOLEAN
        BY <1>0, <1>4, <2>2 DEF writeContainerJson, Steps, PlacesOK, DataOK
      <3> QED
        BY <1>4, <2>2, <3>1, QuietMoveIInv DEF writeContainerJson, Moves
    <2>3. CASE \/ at["box"] = "guarded" /\ Moves("box", "opened") /\ json' = "empty"
               \/ at["box"] = "opened" /\ Moves("box", "written") /\ json' = "full"
      <3>1. DataOK'
        BY <1>0, <1>4, <2>3 DEF writeContainerJson, DataOK
      <3>2. RootInv'
        BY <1>0, <1>4, <2>3 DEF writeContainerJson, IInv, RootInv, Moves, PlacesOK, Procs, Tree
      <3>3. cmd' = cmd /\ stranger' = stranger
        BY <1>4 DEF writeContainerJson
      <3> QED
        BY <1>0, <2>3, <3>1, <3>2, <3>3, MoveIInv DEF Moves, Steps, PlacesOK
    <2> QED
      BY <1>4, <2>1, <2>2, <2>3 DEF writeContainerJson
  <1>5. CASE boxWaits
    <2>1. /\ at["box"] = "written" /\ at["entry"] = "dead" /\ at'["box"] = "waited" /\ at'["entry"] = "gone"
          /\ UNCHANGED <<handler, root, json, stranger, termed, cmd>>
      BY <1>0, <1>5 DEF boxWaits, WaitAllUntil, PlacesOK, Procs, Tree
    <2>2. DataOK' /\ RootInv' /\ RecordInv'
      BY <2>1 DEF IInv, DataOK, RootInv, RecordInv, Pivoted
    <2>3. TreeInv'
      BY <1>5, WaitTree DEF IInv
    <2> QED
      BY <2>1, <2>2, <2>3, Frame
  <1>6. CASE removeJson
    <2>1. Told("box", code["box"])
      BY <1>0 DEF Told, IInv, TreeInv, Codes, PlacesOK, Results
    <2>2. DataOK'
      BY <1>0, <1>6 DEF removeJson, DataOK
    <2> QED
      BY <1>0, <1>6, <2>1, <2>2, EndsIInv DEF removeJson, Alive
  <1> QED
    BY <1>1, <1>2, <1>3, <1>4, <1>5, <1>6 DEF BoxStep

(* The entry process. *)
LEMMA EntryIInv ==
    ASSUME IInv, EntryStep
    PROVE  IInv'
  <1>0. PlacesOK /\ DataOK /\ "entry" \in Procs
    BY DEF IInv, TreeInv, Procs, Tree
  <1>1. CASE MountContainerPath
    <2>1. CASE Ends("entry", "failed") /\ root' = root
      BY <1>0, <1>1, <2>1, FailsIInv DEF MountContainerPath, Alive, DataOK
    <2>2. CASE ~(Ends("entry", "failed") /\ root' = root)
      <3>1. /\ at["entry"] = "start" /\ Moves("entry", "mounted")
            /\ UNCHANGED <<handler, json, stranger, termed, cmd>>
            /\ root' \in {[root EXCEPT !.mounts = f] : f \in [Mounts -> {"absent", "rw", "later"}]}
        BY <1>1, <2>2 DEF MountContainerPath
      <3>2. PICK f \in [Mounts -> {"absent", "rw", "later"}] : root' = [root EXCEPT !.mounts = f]
        BY <3>1
      <3>3. DataOK'
        <4>1. f \in [Mounts -> {"absent", "rw", "later", "ro"}]
          BY <3>2
        <4> QED
          BY <1>0, <3>1, <3>2, <4>1 DEF DataOK
      <3>4. RootInv'
        BY <1>0, <3>1 DEF RootInv, Pivoted, Moves, PlacesOK
      <3>5. <<"entry", at["entry"], "mounted">> \in Steps /\ armed \subseteq Procs
        BY <1>0, <3>1 DEF Steps, PlacesOK
      <3> QED
        BY <3>1, <3>3, <3>4, <3>5, MoveIInv DEF Moves
    <2> QED
      BY <2>1, <2>2
  <1>2. CASE PivotRoot
    <2>1. PICK f \in finalizeMounts :
             \/ root' = [mounts |-> f, pivoted |-> TRUE] /\ Moves("entry", "pivoted")
             \/ root' = [root EXCEPT !.mounts = f] /\ Ends("entry", "failed")
      BY <1>2 DEF PivotRoot
    <2>2. f \in [Mounts -> {"absent", "rw", "later", "ro"}] /\ \A m \in Mounts : f[m] # "later"
      BY <2>1 DEF finalizeMounts
    <2>3. at["entry"] = "mounted" /\ UNCHANGED <<handler, json, stranger, termed, cmd>>
      BY <1>2 DEF PivotRoot
    <2>4. DataOK'
      <3>1. root' \in [mounts : [Mounts -> {"absent", "rw", "later", "ro"}], pivoted : BOOLEAN]
        <4>1. CASE root' = [mounts |-> f, pivoted |-> TRUE]
          BY <2>2, <4>1
        <4>2. CASE root' = [root EXCEPT !.mounts = f]
          BY <1>0, <2>2, <4>2 DEF DataOK
        <4> QED
          BY <2>1, <4>1, <4>2
      <3> QED
        BY <1>0, <2>3, <3>1 DEF DataOK
    <2>5. CASE Ends("entry", "failed")
      BY <1>0, <2>3, <2>4, <2>5, EndsIInv DEF Alive, Told, Results
    <2>6. CASE root' = [mounts |-> f, pivoted |-> TRUE] /\ Moves("entry", "pivoted")
      <3>1. RootInv'
        BY <2>2, <2>6 DEF RootInv
      <3>2. <<"entry", at["entry"], "pivoted">> \in Steps /\ armed \subseteq Procs
        BY <1>0, <2>3 DEF Steps, PlacesOK
      <3> QED
        BY <2>3, <2>4, <2>6, <3>1, <3>2, MoveIInv DEF Moves
    <2> QED
      BY <2>1, <2>5, <2>6
  <1>3. CASE EntryProc
    <2>1. CASE Ends("entry", "failed")
      BY <1>0, <1>3, <2>1, FailsIInv DEF EntryProc, Alive, DataOK
    <2>2. CASE Starts("entry", "init", "cloned")
      BY <1>3, <2>2, StartIInv DEF EntryProc, Starts
    <2> QED
      BY <1>3, <2>1, <2>2 DEF EntryProc
  <1>4. CASE Guard("entry", "cloned")
    <2>1. <<"entry", at["entry"], "guarded">> \in Steps /\ armed' \subseteq Procs /\ handler' \in BOOLEAN
      BY <1>0, <1>4 DEF Guard, Steps, PlacesOK, DataOK
    <2> QED
      BY <1>4, <2>1, QuietMoveIInv DEF Guard
  <1>5. CASE sigtermHandler
    <2>1. <<"entry", at["entry"], "waited">> \in Steps /\ armed \subseteq Procs /\ handler' \in BOOLEAN
      BY <1>0, <1>5 DEF sigtermHandler, Steps, PlacesOK
    <2> QED
      BY <1>5, <2>1, QuietMoveIInv DEF sigtermHandler, Moves
  <1>6. CASE entryWaits
    <2>1. Told("entry", code["init"])
      BY <1>0 DEF Told, PlacesOK, Results, Procs, Tree
    <2>2. DataOK'
      BY <1>0, <1>6 DEF entryWaits, DataOK
    <2> QED
      BY <1>0, <1>6, <2>1, <2>2, EndsIInv DEF entryWaits, Alive
  <1> QED
    BY <1>1, <1>2, <1>3, <1>4, <1>5, <1>6 DEF EntryStep

(* The init of the container and its children. *)
LEMMA InitStepIInv ==
    ASSUME IInv, InitStep
    PROVE  IInv'
  <1>0. PlacesOK /\ DataOK /\ "init" \in Procs /\ "app" \in Procs
    BY DEF IInv, TreeInv, Procs, Tree
  <1>1. CASE NonePrivilegeProc
    <2>1. CASE Ends("init", "failed")
      BY <1>0, <1>1, <2>1, FailsIInv DEF NonePrivilegeProc, Alive, DataOK
    <2>2. CASE Moves("init", "mounted")
      <3>1. <<"init", at["init"], "mounted">> \in Steps /\ armed \subseteq Procs /\ handler' \in BOOLEAN
        BY <1>0, <1>1 DEF NonePrivilegeProc, Steps, PlacesOK, DataOK
      <3> QED
        BY <1>1, <2>2, <3>1, QuietMoveIInv DEF NonePrivilegeProc, Moves
    <2> QED
      BY <1>1, <2>1, <2>2 DEF NonePrivilegeProc
  <1>2. CASE Guard("init", "mounted")
    <2>1. <<"init", at["init"], "guarded">> \in Steps /\ armed' \subseteq Procs /\ handler' \in BOOLEAN
      BY <1>0, <1>2 DEF Guard, Steps, PlacesOK, DataOK
    <2> QED
      BY <1>2, <2>1, QuietMoveIInv DEF Guard
  <1>3. CASE forkAndExecProcess
    <2>1. CASE Ends("init", "failed")
      BY <1>0, <1>3, <2>1, FailsIInv DEF forkAndExecProcess, Alive, DataOK
    <2>2. CASE Starts("init", "app", "forked")
      BY <1>3, <2>2, StartIInv DEF forkAndExecProcess, Starts
    <2> QED
      BY <1>3, <2>1, <2>2 DEF forkAndExecProcess
  <1>4. CASE DoWait
    <2>1. CASE Ends("init", code["app"])
      <3>1. Told("init", code["app"])
        BY <1>0 DEF Told, PlacesOK, Results
      <3>2. DataOK'
        BY <1>0, <1>4 DEF DoWait, DataOK
      <3> QED
        BY <1>0, <1>4, <2>1, <3>1, <3>2, EndsIInv DEF DoWait, Alive
    <2>2. CASE at["helper"] = "dead" /\ Moves("helper", "gone")
      <3>1. <<"helper", at["helper"], "gone">> \in Steps /\ armed \subseteq Procs /\ handler' \in BOOLEAN
        BY <1>0, <1>4, <2>2 DEF DoWait, Steps, PlacesOK, DataOK
      <3> QED
        BY <1>4, <2>2, <3>1, QuietMoveIInv DEF DoWait, Moves
    <2> QED
      BY <1>4, <2>1, <2>2 DEF DoWait
  <1>5. CASE Exec
    <2>1. CASE Ends("app", "failed")
      BY <1>0, <1>5, <2>1, FailsIInv DEF Exec, Alive, DataOK
    <2>2. CASE Moves("app", "running")
      <3>1. <<"app", at["app"], "running">> \in Steps /\ armed \subseteq Procs /\ handler' \in BOOLEAN
        BY <1>0, <1>5 DEF Exec, Steps, PlacesOK, DataOK
      <3> QED
        BY <1>5, <2>2, <3>1, QuietMoveIInv DEF Exec, Moves
    <2> QED
      BY <1>5, <2>1, <2>2 DEF Exec
  <1> QED
    BY <1>1, <1>2, <1>3, <1>4, <1>5 DEF InitStep

(* The application, kills from outside, and the reuse of a pid. *)
LEMMA OutsideIInv ==
    ASSUME IInv, \/ AppForks
                 \/ \E p \in {"app", "helper"}, c \in Results : AppEnds(p, c)
                 \/ \E p \in {"cli", "box"} : Killed(p)
                 \/ Reused
    PROVE  IInv'
  <1>0. PlacesOK /\ DataOK /\ {"cli", "box", "app", "helper"} \subseteq Procs
    BY DEF IInv, TreeInv, Procs, Tree
  <1>1. CASE AppForks
    <2>1. at' = [at EXCEPT !["app"] = "running", !["helper"] = "running"]
      BY <1>0, <1>1 DEF AppForks, Moves, PlacesOK
    <2>2. /\ at["app"] = "running" /\ at["helper"] = "none" /\ code' = code /\ early' = early /\ armed' = armed
          /\ UNCHANGED <<handler, root, json, stranger, termed, cmd>>
      BY <1>1 DEF AppForks, Moves
    <2> DEFINE p == "app"
               child == "helper"
               to == "running"
    <2>3. /\ p = "app" /\ at["app"] = "running" /\ at["helper"] = "none" /\ child = "helper" /\ to = "running"
          /\ at' = [at EXCEPT ![p] = to, ![child] = to]
      BY <2>1, <2>2
    <2> HIDE DEF p, child, to
    <2> QED
      BY ONLY IInv, <2>2, <2>3, StartIInv
  <1>2. ASSUME NEW p \in {"app", "helper"}, NEW c \in Results, AppEnds(p, c)
        PROVE  IInv'
    <2>1. Told(p, c) /\ p \in Procs /\ Alive(p)
      BY <1>0, <1>2 DEF Told, AppEnds, Alive
    <2>2. DataOK'
      BY <1>0, <1>2 DEF AppEnds, DataOK
    <2> QED
      BY <1>2, <2>1, <2>2, EndsIInv DEF AppEnds
  <1>3. ASSUME NEW p \in {"cli", "box"}, Killed(p)
        PROVE  IInv'
    BY <1>0, <1>3, FailsIInv DEF Killed, DataOK
  <1>4. CASE Reused
    <2>1. UNCHANGED <<at, code, armed, early, handler, root, json, termed, cmd>> /\ stranger' = TRUE
      BY <1>4 DEF Reused, tree
    <2>2. TreeInv'
      BY <2>1 DEF IInv, TreeInv, PlacesOK, Nested, Bound, Codes, Alive, Over
    <2>3. DataOK' /\ RootInv' /\ RecordInv' /\ SweepInv'
      BY <2>1 DEF IInv, DataOK, RootInv, RecordInv, SweepInv
    <2> QED
      BY <2>2, <2>3 DEF IInv
  <1> QED
    BY <1>1, <1>2, <1>3, <1>4

(* The other ll-box commands. *)
LEMMA CommandIInv ==
    ASSUME IInv, NEW q \in Cmds, Command(q)
    PROVE  IInv'
  <1>0. DataOK /\ cmd[q] \in CmdRecord /\ cmd \in [Cmds -> CmdRecord]
    BY DEF IInv, DataOK
  <1>1. ASSUME UNCHANGED <<at, code, armed, early, handler, root, stranger, termed>>, json' \in {json, "none"},
               NEW r \in CmdRecord, cmd' = [cmd EXCEPT ![q] = r],
               r.stale => /\ at["entry"] = "gone" /\ at["box"] \in {"waited", "gone"}
                          /\ r.at = "clean" => r.snap
                          /\ r.at \in {"read", "act", "done"} => json' = "none" \/ stranger
        PROVE  IInv'
    <2>1. TreeInv'
      BY <1>1 DEF IInv, TreeInv, PlacesOK, Nested, Bound, Codes, Alive, Over
    <2>2. DataOK' /\ RootInv' /\ RecordInv'
      BY <1>0, <1>1 DEF IInv, DataOK, RootInv, RecordInv
    <2>3. SweepInv'
      <3> SUFFICES ASSUME NEW o \in Cmds, cmd'[o].stale
                   PROVE  /\ at["entry"] = "gone" /\ at["box"] \in {"waited", "gone"}
                          /\ cmd'[o].at = "clean" => cmd'[o].snap
                          /\ cmd'[o].at \in {"read", "act", "done"} => json' = "none" \/ stranger
        BY <1>1 DEF SweepInv
      <3>1. CASE o = q
        BY <1>0, <1>1, <3>1
      <3>2. CASE o # q
        BY <1>0, <1>1, <3>2 DEF IInv, SweepInv
      <3> QED
        BY <3>1, <3>2
    <2> QED
      BY <2>1, <2>2, <2>3 DEF IInv
  <1>2. ASSUME NEW what \in {"list", "exec", "kill"}, Invoke(q, what)
        PROVE  IInv'
    <2> DEFINE r == [[IdleCmd EXCEPT !.what = what] EXCEPT !.at = "scan"]
    <2>1. r \in CmdRecord /\ ~r.stale
      BY DEF CmdRecord, IdleCmd
    <2>2. cmd' = [cmd EXCEPT ![q] = r] /\ UNCHANGED <<at, code, armed, early, handler, root, json, stranger, termed>>
      BY <1>2 DEF Invoke, Step, tree
    <2> HIDE DEF r
    <2> QED
      BY <1>1, <2>1, <2>2
  <1>3. CASE readAllContainerJson(q)
    <2>1. UNCHANGED <<at, code, armed, early, handler, root, json, stranger, termed>>
      BY <1>3 DEF readAllContainerJson, tree
    <2>2. CASE cmd[q].at = "scan"
      <3> DEFINE r == [[cmd[q] EXCEPT !.snap = (json = "full"), !.stale = (json = "full" /\ ~PidLives)]
                          EXCEPT !.at = "clean"]
      <3>1. /\ r \in CmdRecord /\ r.at = "clean" /\ r.snap = (json = "full")
            /\ r.stale = (json = "full" /\ ~PidLives)
        BY <1>0 DEF CmdRecord
      <3>2. cmd' = [cmd EXCEPT ![q] = r]
        BY <1>3, <2>2 DEF readAllContainerJson, Step
      <3>3. json = "full" /\ ~PidLives => at["entry"] = "gone" /\ at["box"] \in {"waited", "gone"}
        BY DEF PidLives, Alive, IInv, RecordInv, TreeInv, Bound
      <3> HIDE DEF r
      <3> QED
        BY <1>1, <2>1, <3>1, <3>2, <3>3
    <2>3. CASE cmd[q].at = "read"
      <3> DEFINE r == [[cmd[q] EXCEPT !.snap = (json = "full")] EXCEPT !.at = "act"]
      <3>1. r \in CmdRecord /\ r.at = "act" /\ r.stale = cmd[q].stale
        BY <1>0 DEF CmdRecord
      <3>2. cmd' = [cmd EXCEPT ![q] = r]
        BY <1>3, <2>3 DEF readAllContainerJson, Step
      <3>3. cmd[q].stale => at["entry"] = "gone" /\ at["box"] \in {"waited", "gone"} /\ (json = "none" \/ stranger)
        BY <2>3 DEF IInv, SweepInv
      <3> HIDE DEF r
      <3> QED
        BY <1>1, <2>1, <3>1, <3>2, <3>3
    <2> QED
      BY <1>3, <2>2, <2>3 DEF readAllContainerJson
  <1>4. CASE containerJsonCleanUp(q)
    <2> DEFINE r == [[cmd[q] EXCEPT !.lived = PidLives] EXCEPT !.at = "read"]
    <2>1. PidLives \in BOOLEAN
      BY <1>0 DEF PidLives, DataOK, Alive
    <2>2. r \in CmdRecord /\ r.at = "read" /\ r.stale = cmd[q].stale
      BY <1>0, <2>1 DEF CmdRecord
    <2>3. /\ cmd' = [cmd EXCEPT ![q] = r] /\ cmd[q].at = "clean"
          /\ json' = IF cmd[q].snap /\ ~PidLives THEN "none" ELSE json
          /\ UNCHANGED <<at, code, armed, early, handler, root, stranger, termed>>
      BY <1>4 DEF containerJsonCleanUp, Step, tree
    <2>4. ASSUME cmd[q].stale
          PROVE  at["entry"] = "gone" /\ at["box"] \in {"waited", "gone"} /\ (json' = "none" \/ stranger)
      <3>1. at["entry"] = "gone" /\ at["box"] \in {"waited", "gone"} /\ cmd[q].snap
        BY <2>3, <2>4 DEF IInv, SweepInv
      <3>2. ~stranger => ~PidLives
        BY <3>1 DEF PidLives, Alive
      <3> QED
        BY <2>3, <3>1, <3>2
    <2> HIDE DEF r
    <2> QED
      BY <1>1, <2>2, <2>3, <2>4
  <1>5. CASE list(q)
    <2> DEFINE r == [cmd[q] EXCEPT !.at = "done"]
    <2>1. r \in CmdRecord /\ r.at = "done" /\ r.stale = cmd[q].stale
      BY <1>0 DEF CmdRecord
    <2>2. /\ cmd' = [cmd EXCEPT ![q] = r] /\ cmd[q].at = "act"
          /\ UNCHANGED <<at, code, armed, early, handler, root, json, stranger, termed>>
      BY <1>5 DEF list, Step, tree
    <2>3. cmd[q].stale => at["entry"] = "gone" /\ at["box"] \in {"waited", "gone"} /\ (json = "none" \/ stranger)
      BY <2>2 DEF IInv, SweepInv
    <2> HIDE DEF r
    <2> QED
      BY <1>1, <2>1, <2>2, <2>3
  <1>6. CASE exec(q)
    <2>1. findLastBox \in {"none", "entry", "init", "app", "stranger"}
      BY DEF findLastBox
    <2>2. findLastBoxFallback \subseteq {"none", "entry", "init", "app", "stranger"}
      BY DEF findLastBoxFallback
    <2>3. ASSUME NEW b \in {"children", "stat"}, NEW j \in {"none", "entry", "init", "app", "stranger"}
          PROVE  LET r == [[cmd[q] EXCEPT !.by = b, !.join = j] EXCEPT !.at = "done"]
                 IN  r \in CmdRecord /\ r.at = "done" /\ r.stale = cmd[q].stale
      BY <1>0, <2>3 DEF CmdRecord
    <2>4. PICK b \in {"children", "stat"}, j \in {"none", "entry", "init", "app", "stranger"} :
            Step(q, "done", [cmd[q] EXCEPT !.by = b, !.join = j])
      BY <1>6, <2>1, <2>2 DEF exec
    <2> DEFINE r == [[cmd[q] EXCEPT !.by = b, !.join = j] EXCEPT !.at = "done"]
    <2>5. r \in CmdRecord /\ r.at = "done" /\ r.stale = cmd[q].stale
      BY <2>3
    <2>6. /\ cmd' = [cmd EXCEPT ![q] = r] /\ cmd[q].at = "act"
          /\ UNCHANGED <<at, code, armed, early, handler, root, json, stranger, termed>>
      BY <1>6, <2>4 DEF exec, Step, tree
    <2>7. cmd[q].stale => at["entry"] = "gone" /\ at["box"] \in {"waited", "gone"} /\ (json = "none" \/ stranger)
      BY <2>6 DEF IInv, SweepInv
    <2> HIDE DEF r
    <2> QED
      BY <1>1, <2>5, <2>6, <2>7
  <1>7. CASE kill(q)
    <2> DEFINE r == [cmd[q] EXCEPT !.at = "done"]
    <2>1. r \in CmdRecord /\ r.at = "done" /\ r.stale = cmd[q].stale
      BY <1>0 DEF CmdRecord
    <2>2. /\ cmd' = [cmd EXCEPT ![q] = r] /\ cmd[q].at = "act"
          /\ UNCHANGED <<handler, root, json, stranger>>
      BY <1>7 DEF kill, Step
    <2>3. cmd[q].stale => at["entry"] = "gone" /\ at["box"] \in {"waited", "gone"} /\ (json = "none" \/ stranger)
      BY <2>2 DEF IInv, SweepInv
    <2> HIDE DEF r
    <2>4. CASE UNCHANGED <<tree, termed>>
      BY <1>1, <2>1, <2>2, <2>3, <2>4 DEF tree
    <2>5. CASE Alive("entry") /\ Ends("entry", "failed") /\ termed' = TRUE
      <3>1. CmdsKept
        BY <1>0, <2>1, <2>2 DEF CmdsKept
      <3>2. DataOK'
        BY <1>0, <2>1, <2>2, <2>5 DEF DataOK
      <3>3. Told("entry", "failed") /\ "entry" \in Procs
        BY DEF Told, Results, Procs, Tree
      <3> QED
        BY <2>2, <2>5, <3>1, <3>2, <3>3, EndsIInv
    <2> QED
      BY <1>7, <2>4, <2>5 DEF kill
  <1> QED
    BY <1>2, <1>3, <1>4, <1>5, <1>6, <1>7 DEF Command

------------------------------------------------------------------------------
(* ll-cli has started ll-box, and there is nothing else. *)
LEMMA InitIInv == Init => IInv
  <1> SUFFICES ASSUME Init
               PROVE  IInv
    OBVIOUS
  <1>1. Procs = {"cli", "box", "entry", "init", "app", "helper"}
    BY DEF Procs, Tree
  <1>2. /\ at["cli"] = "running" /\ at["box"] = "main"
        /\ at["entry"] = "none" /\ at["init"] = "none" /\ at["app"] = "none" /\ at["helper"] = "none"
        /\ \A p \in Procs : code[p] = "none"
    BY <1>1 DEF Init
  <1>3. /\ at \in [Procs -> BoxPlaces \cup EntryPlaces \cup InitPlaces \cup AppPlaces]
        /\ code \in [Procs -> Results \cup {"none"}]
    BY DEF Init, BoxPlaces, EntryPlaces, InitPlaces, AppPlaces
  <1>4. PlacesOK
    BY <1>2, <1>3 DEF Init, PlacesOK, BoxPlaces, EntryPlaces, InitPlaces, AppPlaces
  <1>5. Nested /\ Bound
    BY <1>2 DEF Nested, Bound, Alive
  <1>6. Codes
    BY <1>1, <1>2 DEF Codes, Ended
  <1>7. DataOK
    BY DEF Init, DataOK, CmdRecord, IdleCmd
  <1>8. RootInv /\ RecordInv
    BY <1>2 DEF Init, RootInv, RecordInv, Pivoted
  <1>9. SweepInv
    BY DEF Init, SweepInv, IdleCmd
  <1> QED
    BY <1>4, <1>5, <1>6, <1>7, <1>8, <1>9 DEF IInv, TreeInv

(* Every step keeps the invariant. *)
LEMMA NextIInv ==
    ASSUME IInv, [Next]_vars
    PROVE  IInv'
  <1>1. CASE BoxStep \/ EntryStep \/ InitStep
    BY <1>1, BoxIInv, EntryIInv, InitStepIInv
  <1>2. CASE \/ AppForks \/ Reused
             \/ \E p \in {"app", "helper"}, c \in Results : AppEnds(p, c)
             \/ \E p \in {"cli", "box"} : Killed(p)
    BY <1>2, OutsideIInv
  <1>3. CASE \E q \in Cmds : Command(q)
    BY <1>3, CommandIInv
  <1>4. CASE UNCHANGED vars
    BY <1>4 DEF vars, IInv, TreeInv, PlacesOK, Nested, Bound, Codes, DataOK, RootInv, RecordInv, SweepInv,
                Alive, Over
  <1> QED
    BY <1>1, <1>2, <1>3, <1>4 DEF Next

(* The inductive invariant holds in every reachable state. *)
LEMMA Always == Spec => []IInv
  BY InitIInv, NextIInv, PTL DEF Spec

(* A container outlives its ll-box only if that died before the entry      *)
(* process had asked to die with it, whatever was killed in which order.   *)
THEOREM OrphansOnlyEarly == Spec => []NoOrphans
  <1>1. IInv => NoOrphans
    BY DEF IInv, TreeInv, Bound, NoOrphans
  <1> QED
    BY <1>1, Always, PTL

(* ll-box returns 0 only if the application did, with its record removed;  *)
(* the application runs only in a complete root; all values have their     *)
(* types.                                                                  *)
THEOREM StartSound == Spec => []StartIsSound
  <1>1. IInv => TypeOK
    <2> SUFFICES ASSUME IInv
                 PROVE  TypeOK
      OBVIOUS
    <2>1. at \in [Procs -> {"none", "dead", "gone", "main", "parsed", "cloned", "guarded", "opened", "written",
                            "waited", "start", "mounted", "pivoted", "forked", "running"}]
      BY DEF IInv, TreeInv, PlacesOK, BoxPlaces, EntryPlaces, InitPlaces, AppPlaces
    <2> QED
      BY <2>1 DEF IInv, TreeInv, PlacesOK, DataOK, TypeOK, CmdRecord
  <1>2. IInv => ExitTells
    BY DEF IInv, TreeInv, Codes, RecordInv, ExitTells
  <1>3. IInv => AppInFinalRoot
    <2> SUFFICES ASSUME IInv, Alive("app") \/ Alive("helper")
                 PROVE  root.pivoted /\ \A m \in Mounts : root.mounts[m] # "later"
      BY DEF AppInFinalRoot
    <2>1. Alive("init")
      BY DEF IInv, TreeInv, Nested, Alive
    <2>2. at["entry"] \in Pivoted
      BY <2>1 DEF IInv, TreeInv, Nested, Pivoted
    <2> QED
      BY <2>2 DEF IInv, RootInv
  <1> QED
    BY <1>1, <1>2, <1>3, Always, PTL DEF StartIsSound

(* If the entry process does not live nothing in its container does. *)
LEMMA OverWithEntry ==
    ASSUME IInv, ~Alive("entry")
    PROVE  Over
  <1>1. ~Alive("init") /\ ~Alive("app") /\ ~Alive("helper")
    BY DEF IInv, TreeInv, Nested, Alive
  <1> QED
    BY <1>1 DEF Over, Tree

(* A record disappears only when its container is over: the two places     *)
(* that remove it.                                                         *)
LEMMA RecordKept ==
    ASSUME IInv, [Next]_vars
    PROVE  RecordedWhileAlive
  <1> SUFFICES ASSUME json = "full", json' = "none"
               PROVE  Over
    BY DEF RecordedWhileAlive
  <1>1. CASE removeJson
    BY <1>1, OverWithEntry DEF removeJson, IInv, TreeInv, Bound, Alive
  <1>2. ASSUME NEW q \in Cmds, containerJsonCleanUp(q)
        PROVE  Over
    BY <1>2, OverWithEntry DEF containerJsonCleanUp, PidLives
  <1>3. CASE writeContainerJson
    BY <1>3 DEF writeContainerJson
  <1>4. ASSUME NEW q \in Cmds, Command(q), ~containerJsonCleanUp(q)
        PROVE  json' = json
    BY <1>4 DEF Command, Invoke, readAllContainerJson, list, exec, kill
  <1>5. CASE EntryStep \/ InitStep
    BY <1>5 DEF EntryStep, InitStep, MountContainerPath, PivotRoot, EntryProc, Guard, sigtermHandler, entryWaits,
                NonePrivilegeProc, forkAndExecProcess, DoWait, Exec
  <1>6. CASE BoxStep
    BY <1>1, <1>3, <1>6 DEF BoxStep, run, Start, Guard, boxWaits
  <1>7. CASE \/ AppForks \/ Reused
             \/ \E p \in {"app", "helper"}, c \in Results : AppEnds(p, c)
             \/ \E p \in {"cli", "box"} : Killed(p)
    BY <1>7 DEF AppForks, Reused, AppEnds, Killed
  <1> QED
    BY <1>2, <1>4, <1>5, <1>6, <1>7 DEF Next, vars

(* ll-box exec beside a running application joins its namespaces, or those *)
(* of the entry process where the kernel lists no children: only exec      *)
(* chooses whom to join.                                                   *)
LEMMA ExecJoins ==
    ASSUME IInv, [Next]_vars
    PROVE  ExecBesideApp
  <1> SUFFICES ASSUME NEW q \in Cmds, cmd[q].join # cmd'[q].join, cmd'[q].join # "none", at["app"] = "running"
               PROVE  cmd'[q].join = (IF cmd'[q].by = "stat" THEN "entry" ELSE "init")
    BY DEF ExecBesideApp
  <1>1. cmd \in [Cmds -> CmdRecord]
    BY DEF IInv, DataOK
  <1>2. PICK o \in Cmds : Command(o)
    <2>1. cmd' # cmd
      OBVIOUS
    <2> QED
      BY <2>1 DEF Next, vars, BoxStep, EntryStep, InitStep, MountContainerPath, PivotRoot, EntryProc, Guard,
            sigtermHandler, entryWaits, NonePrivilegeProc, forkAndExecProcess, DoWait, Exec, run, Start,
            writeContainerJson, boxWaits, removeJson, AppForks, Reused, AppEnds, Killed
  <1>3. ASSUME NEW r, cmd' = [cmd EXCEPT ![o] = r]
        PROVE  o = q /\ cmd'[q] = r
    BY <1>1, <1>3
  <1>4. exec(o)
    <2>1. ASSUME NEW what, Invoke(o, what)
          PROVE  FALSE
      <3>1. o = q /\ cmd'[q] = [[IdleCmd EXCEPT !.what = what] EXCEPT !.at = "scan"]
        BY <1>3, <2>1 DEF Invoke, Step
      <3> QED
        BY <3>1 DEF IdleCmd
    <2>2. ASSUME NEW r, cmd' = [cmd EXCEPT ![o] = r], r.join = cmd[o].join
          PROVE  FALSE
      BY <1>3, <2>2
    <2>3. ~readAllContainerJson(o)
      <3> DEFINE scanned == [[cmd[o] EXCEPT !.snap = (json = "full"), !.stale = (json = "full" /\ ~PidLives)]
                                EXCEPT !.at = "clean"]
                 again == [[cmd[o] EXCEPT !.snap = (json = "full")] EXCEPT !.at = "act"]
      <3>1. scanned.join = cmd[o].join /\ again.join = cmd[o].join
        BY <1>1 DEF CmdRecord
      <3>2. readAllContainerJson(o) => cmd' = [cmd EXCEPT ![o] = scanned] \/ cmd' = [cmd EXCEPT ![o] = again]
        BY DEF readAllContainerJson, Step
      <3> HIDE DEF scanned, again
      <3> QED
        BY <2>2, <3>1, <3>2
    <2>4. ~containerJsonCleanUp(o)
      <3> DEFINE swept == [[cmd[o] EXCEPT !.lived = PidLives] EXCEPT !.at = "read"]
      <3>1. swept.join = cmd[o].join
        BY <1>1 DEF CmdRecord
      <3>2. containerJsonCleanUp(o) => cmd' = [cmd EXCEPT ![o] = swept]
        BY DEF containerJsonCleanUp, Step
      <3> HIDE DEF swept
      <3> QED
        BY <2>2, <3>1, <3>2
    <2>5. ~list(o) /\ ~kill(o)
      <3>1. [cmd[o] EXCEPT !.at = "done"].join = cmd[o].join
        BY <1>1 DEF CmdRecord
      <3> QED
        BY <2>2, <3>1 DEF list, kill, Step
    <2> QED
      BY <1>2, <2>1, <2>3, <2>4, <2>5 DEF Command
  <1>5. Alive("init") /\ Alive("entry") /\ at["app"] # "start"
    BY DEF IInv, TreeInv, Nested, Alive
  <1>6. findLastBox \in {"init", "none"} /\ findLastBoxFallback = {"none", "entry"}
    BY <1>5 DEF findLastBox, findLastBoxFallback, Alive
  <1>7. ASSUME NEW b, NEW j, Step(o, "done", [cmd[o] EXCEPT !.by = b, !.join = j])
        PROVE  cmd'[q].by = b /\ cmd'[q].join = j
    <2>1. cmd'[q] = [[cmd[o] EXCEPT !.by = b, !.join = j] EXCEPT !.at = "done"]
      BY <1>3, <1>7 DEF Step
    <2> QED
      BY <1>1, <2>1 DEF CmdRecord
  <1>8. PICK b, j : /\ Step(o, "done", [cmd[o] EXCEPT !.by = b, !.join = j])
                    /\ \/ b = "children" /\ j \in {findLastBox, "none"}
                       \/ b = "stat" /\ j \in findLastBoxFallback \cup {"none"}
    BY <1>4 DEF exec
  <1> QED
    BY <1>6, <1>7, <1>8

(* Records are neither taken from the living nor kept for the dead, and    *)
(* lead to the application, or to the entry process where the kernel lists *)
(* no children, with any number of commands at work.                       *)
THEOREM RecordsTrue == Spec => RecordsTell
  <1>1. IInv => StaleSwept
    BY DEF IInv, SweepInv, StaleSwept
  <1>2. IInv /\ IInv' /\ [Next]_vars => [StaleSwept' /\ ExecBesideApp /\ RecordedWhileAlive]_vars
    <2>1. IInv' => StaleSwept'
      BY <1>1, PTL
    <2> QED
      BY <2>1, RecordKept, ExecJoins
  <1> QED
    BY <1>2, Always, PTL DEF Spec, RecordsTell

(* The start of a container from its configuration on is a start of ll-box *)
(* and some steps before: what is proved of Box holds for it.              *)
THEOREM ContainerIsABox == ContainerSpec => Spec
  <1>1. ContainerInit => Init
    BY DEF ContainerInit
  <1>2. [ContainerNext]_allVars => [Next]_vars
    BY DEF ContainerNext, InBox, allVars
  <1> QED
    BY <1>1, <1>2, PTL DEF ContainerSpec, Spec
==============================================================================
