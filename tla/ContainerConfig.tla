--------------------------- MODULE ContainerConfig ---------------------------
(***************************************************************************)
(* From a base layer and the host to the config.json of a container:       *)
(* ContainerBuilder::create applies the patches and generators of config.d *)
(* in the order of their names, adds what the application asks for, and    *)
(* fixMount makes room for the mounts whose destination the base does not  *)
(* have; Container::run adds one more mount and writes the file, and       *)
(* ll-box makes the mounts one after the other.                            *)
(* A destination is a sequence of names.  What is mounted there is told    *)
(* apart only as far as the properties need it:                            *)
(*   tmpfs, room (a tmpfs of fixMount), base (an entry of the base), host  *)
(*   (the like of the host), home (the user's), private (the application's *)
(*   substitute for a directory of the home), skel, data, bundle (a file   *)
(*   ll-cli wrote), asked (a bind of the package).                         *)
(* Mounts that no property tells apart are one: fonts stands for icons and *)
(* themes, snd for the other devices, wayland for pulse and gvfs, .config  *)
(* for .cache and the state directory, resolv.conf for the other links.    *)
(***************************************************************************)
EXTENDS Naturals, FiniteSets, SequencesExt

CONSTANTS Hosts,    \* what a start may meet: see Host
          MaxSkips  \* how many generators may fail or be too slow in one start

BasePaths ==
    {<<"etc">>, <<"etc", "passwd">>, <<"etc", "ssl">>, <<"etc", "ssl", "certs">>, <<"etc", "resolv.conf">>,
     <<"etc", "resolvconf">>, <<"etc", "profile.d">>, <<"etc", "profile.d", "00env.sh">>, <<"etc", "ld.so.conf.d">>,
     <<"etc", "ld.so.conf.d", "zz">>, <<"usr">>, <<"usr", "share">>, <<"usr", "share", "fonts">>,
     <<"usr", "share", "doc">>, <<"usr", "lib">>, <<"usr", "lib", "locale">>, <<"usr", "bin">>, <<"home">>, <<"run">>,
     <<"dev">>, <<"tmp">>, <<"opt">>, <<"var">>, <<"var", "cache">>, <<".profile">>, <<"etc", ".pwd.lock">>,
     <<"usr", "share", ".uuid">>}
DotEntries == {p \in BasePaths : Last(p) \in {".profile", ".pwd.lock", ".uuid"}}

Things == {"runtime", "app", "udev", "snd", "media", "fonts", "certs", "locale", "fontcache", "resolvconf", "skel",
           "dconf", "private config", "bad permissions", "x11", "system bus", "runtime dir", "wayland", "session bus",
           "xauth", "bad localtime", "360"}
Dirs == {".ssh", "Documents"}

\* has: what exists on the host and what the package is.  base: what the base
\* layer has, with each path those above it.  usual: HOME is /home/$USER.  dirs: the directories of the
\* home, links those that are symbolic links, and permissions.json.
Host == [has : SUBSET Things, base : SUBSET BasePaths, usual : BOOLEAN, dirs : SUBSET Dirs, links : SUBSET Dirs,
         allowed : SUBSET Dirs, disallowed : SUBSET Dirs, binds : Seq(Seq(STRING))]

VARIABLES host,   \* the input
          phase,  \* where create and run are
          next,   \* the next file of config.d
          skips,  \* how many files were ignored
          mounts, \* config.mounts
          env,    \* the variables of config.process.env that name a place in the container
          places, \* fixMount's tmpfsPath
          made    \* the mounts ll-box has made
buildVars == <<host, phase, next, skips, mounts, env, places, made>>

Mount(dst, what) == [dst |-> dst, what |-> what]
InSomeOrder(S) == FoldSet(LAMBDA x, seq : Append(seq, x), <<>>, S)   \* beside each other, any order is as good
If(thing, seq) == IF thing \in host.has THEN seq ELSE <<>>

------------------------------------------------------------------------------
\* The files of config.d.  Each adds mounts and variables to what is there.

Opt == <<"opt", "apps", "app", "files">>
initialize == If("runtime", <<Mount(<<"runtime">>, "host")>>)
              \o If("app", <<Mount(<<"opt">>, "tmpfs"), Mount(Opt, "host")>>)

basics == <<Mount(<<"sys">>, "host"), Mount(<<"proc">>, "host"), Mount(<<"dev">>, "tmpfs"), Mount(<<"dev", "pts">>, "host"),
            Mount(<<"run">>, "tmpfs"), Mount(<<"run", "udev">>, "host"), Mount(<<"tmp">>, "host"),
            Mount(<<"etc", "passwd">>, "host")>>

devices == If("udev", <<Mount(<<"run", "udev">>, "host")>>) \o If("snd", <<Mount(<<"dev", "snd">>, "host")>>)
           \o If("media", <<Mount(<<"media">>, "host")>>)

hostRootfs == <<Mount(<<"run", "host">>, "tmpfs"), Mount(<<"run", "host", "rootfs">>, "host")>>

hostStatics == <<Mount(<<"usr", "share", "fonts">>, "host"), Mount(<<"etc", "ssl", "certs">>, "host")>>

Home == <<"home", "user">>
HostHome == IF host.usual THEN Home ELSE <<"root">>
blackList == {".ssh"}   \* and .gnupg

\* The home, then what covers parts of it, then what permissions.json allows.
HomeDirs == <<Mount(<<"home">>, "tmpfs"), Mount(Home, "home"), Mount(Home \o <<".local", "share">>, "home"),
              Mount(Home \o <<".config">>, IF "private config" \in host.has THEN "private" ELSE "home")>>
            \o If("dconf", <<Mount(Home \o <<".config", "dconf">>, "home")>>)
HomeMasks == If("skel", <<Mount(HostHome \o <<".bashrc">>, "skel")>>) \o <<Mount(Home \o <<".linglong">>, "data")>>
             \o LET hidden == InSomeOrder((host.disallowed \cup blackList) \cap host.dirs)
                IN  [i \in DOMAIN hidden |-> Mount(Home \o <<hidden[i]>>, "private")]
AllowedDirs == LET shown == InSomeOrder((host.allowed \ blackList) \cap host.dirs)
               IN  [i \in DOMAIN shown |-> Mount((IF shown[i] \in host.links THEN HostHome ELSE Home) \o <<shown[i]>>, "home")]

userHome == HomeDirs \o HomeMasks \o AllowedDirs
HomeEnv == {<<"HOME", Home>>, <<"XDG_DATA_HOME", Home \o <<".local", "share">>>>, <<"XDG_CONFIG_HOME", Home \o <<".config">>>>}

RuntimeDir == <<"run", "user", "uid">>
hostIpc == If("x11", <<Mount(<<"tmp", ".X11-unix">>, "host")>>)
           \o If("system bus", <<Mount(<<"run", "dbus", "system_bus_socket">>, "host")>>)
           \o <<Mount(<<"run", "user">>, "tmpfs")>>
           \o If("runtime dir", <<Mount(RuntimeDir, "tmpfs")>>
                                \o If("wayland", <<Mount(Append(RuntimeDir, "wayland"), "host")>>)
                                \o If("session bus", <<Mount(Append(RuntimeDir, "bus"), "host")>>))
           \o If("xauth", <<Mount(Append(Home, ".Xauthority"), "host")>>)
           \o <<Mount(<<"run", "linglong", "etc">>, "tmpfs"), Mount(<<"etc", "resolv.conf">>, "bundle")>>
EnvIf(things, pair) == IF things \subseteq host.has THEN {pair} ELSE {}
IpcEnv == EnvIf({"system bus"}, <<"DBUS_SYSTEM_BUS_ADDRESS", <<"run", "dbus", "system_bus_socket">>>>)
          \cup EnvIf({"runtime dir"}, <<"XDG_RUNTIME_DIR", RuntimeDir>>)
          \cup EnvIf({"runtime dir", "session bus"}, <<"DBUS_SESSION_BUS_ADDRESS", Append(RuntimeDir, "bus")>>)
          \cup EnvIf({"xauth"}, <<"XAUTHORITY", Append(Home, ".Xauthority")>>)

legacy == If("resolvconf", <<Mount(<<"run", "host", "etc", "resolvconf">>, "host"), Mount(<<"etc", "resolvconf">>, "host")>>)
          \o If("certs", <<Mount(<<"run", "host", "etc", "certs">>, "host"), Mount(<<"etc", "ssl", "certs">>, "host")>>)
          \o If("locale", <<Mount(<<"usr", "lib", "locale">>, "host")>>)
          \o If("fonts", <<Mount(<<"usr", "share", "fonts">>, "host")>>)
          \o If("fontcache", <<Mount(<<"var", "cache", "fontconfig">>, "host")>>)
          \o If("360", <<Mount(<<"apps-data">>, "tmpfs"), Mount(<<"apps-data", "private">>, "home")>>)

\* entryInfoList sorts by name.
ConfigD == <<"05-initialize", "10-basics", "20-devices", "25-host-rootfs", "25-host-statics", "30-user-home",
             "40-host-ipc", "90-legacy">>
Adds(file) == CASE file = "05-initialize" -> initialize
                [] file = "10-basics" -> basics
                [] file = "20-devices" -> devices
                [] file = "25-host-rootfs" -> hostRootfs
                [] file = "25-host-statics" -> hostStatics
                [] file = "30-user-home" -> userHome
                [] file = "40-host-ipc" -> hostIpc
                [] OTHER -> legacy
Sets(file) == CASE file = "30-user-home" -> HomeEnv [] file = "40-host-ipc" -> IpcEnv [] OTHER -> {}
Refuses(file) == \/ file = "30-user-home" /\ "bad permissions" \in host.has
                 \/ file = "40-host-ipc" /\ "bad localtime" \in host.has

------------------------------------------------------------------------------
\* ContainerBuilder::create.

Phases == {"start", "config", "patch", "options", "fix", "run", "written", "mounted", "failed", "handed"}

BuildInit ==
    /\ host \in Hosts
    /\ phase = "start" /\ next = 1 /\ skips = 0
    /\ mounts = <<>> /\ env = {} /\ places = <<>> /\ made = <<>>

\* A phase that ends well or with an error of create or run.
Then(from, to) == phase = from /\ phase' \in {to, "failed"}

getBundleDir ==
    /\ Then("start", "config")
    /\ UNCHANGED <<host, next, skips, mounts, env, places, made>>

getOCIConfig ==
    /\ Then("config", "patch")
    /\ UNCHANGED <<host, next, skips, mounts, env, places, made>>

Ignored == /\ skips < MaxSkips
           /\ skips' = skips + 1
           /\ UNCHANGED <<mounts, env>>

\* A generator that is too slow, fails or prints something else is ignored as
\* a whole, and so is a patch with one operation that does not apply.
applyPatches ==
    /\ phase = "patch" /\ next \in DOMAIN ConfigD
    /\ \/ /\ ~Refuses(ConfigD[next])
          /\ mounts' = mounts \o Adds(ConfigD[next])
          /\ env' = env \cup Sets(ConfigD[next])
          /\ UNCHANGED skips
       \/ Refuses(ConfigD[next]) /\ UNCHANGED <<mounts, env, skips>>
       \/ Ignored
    /\ next' = next + 1
    /\ UNCHANGED <<host, phase, places, made>>

\* What the user's config.yaml binds becomes a list of pairs where JSON Patch
\* wants objects, and is refused.
getPatchesForApplication == <<>>

BindsOf(dsts) == [i \in DOMAIN dsts |-> Mount(dsts[i], "asked")]
options ==
    /\ phase = "patch" /\ next \notin DOMAIN ConfigD
    /\ phase' \in {"fix", "failed"}
    /\ mounts' = mounts \o getPatchesForApplication \o BindsOf(host.binds)
                 \o <<Mount(<<"etc", "profile.d", "00env.sh">>, "bundle")>>
    /\ UNCHANGED <<host, next, skips, env, places, made>>

------------------------------------------------------------------------------
\* fixMount.

\* entryInfoList, which leaves out the entries whose name begins with a dot.
Entries(p) == {q \in host.base \ DotEntries : Len(q) = Len(p) + 1 /\ IsPrefix(p, q)}

\* The longest part of a destination that the base has.
existsPath(dst) == SubSeq(dst, 1, Cardinality({k \in DOMAIN dst : SubSeq(dst, 1, k) \in host.base}))

commonParent(p, q) == LET n == Cardinality({k \in DOMAIN p \cap DOMAIN q : SubSeq(p, 1, k) = SubSeq(q, 1, k)})
                      IN  IF n \in {Len(p), Len(q)} THEN SubSeq(p, 1, n - 1) ELSE SubSeq(p, 1, n)

\* One destination: its place is new, or equals one of the list, or is merged
\* with the first one that it shares a directory with.
AddPlace(list, dst) ==
    LET p == existsPath(dst)
        shares == {i \in DOMAIN list : list[i] # p /\ commonParent(p, list[i]) # <<>>}
        first == CHOOSE i \in shares : \A j \in shares : i <= j
    IN  IF dst \in host.base \/ p = <<>> THEN list
        ELSE IF shares # {} THEN [list EXCEPT ![first] = commonParent(p, list[first])]
        ELSE IF p \in ToSet(list) THEN list ELSE Append(list, p)

tmpfsPath == FoldLeft(LAMBDA list, m : AddPlace(list, m.dst), <<>>, mounts)

BaseBinds(p) == LET e == InSomeOrder(Entries(p)) IN [i \in DOMAIN e |-> Mount(e[i], "base")]
roomFor_no_tmpfs(p) == BaseBinds(p) \* mutant: the directory of the base stays
roomFor(p) == <<Mount(p, "room")>> \o BaseBinds(p)

\* Of several mounts on one destination the last stays.
removeDuplicates(list) ==
    LET last == SelectSeq([i \in DOMAIN list |-> i], LAMBDA i : \A j \in DOMAIN list : j > i => list[j].dst # list[i].dst)
    IN  [i \in DOMAIN last |-> list[last[i]]]

fixMount ==
    /\ phase = "fix" /\ phase' = "run"
    /\ \E room \in {tmpfsPath} :
         \E all \in {BaseBinds(<<>>) \o FlattenSeq([i \in DOMAIN room |-> roomFor(room[i])]) \o mounts} :
            places' = room /\ mounts' = removeDuplicates(all)
    /\ UNCHANGED <<host, next, skips, env, made>>

\* Container::run, up to the file config.json.
writeConfig ==
    /\ Then("run", "written")
    /\ mounts' = Append(mounts, Mount(<<"etc", "ld.so.conf.d", "zz">>, "bundle"))
    /\ UNCHANGED <<host, next, skips, env, places, made>>

------------------------------------------------------------------------------
\* ll-box.  The mount that decides what is seen at p, none for the empty root.
CoverIn(list, p) == LET on == {i \in DOMAIN list : IsPrefix(list[i].dst, p)}
                    IN  IF on = {} THEN Mount(<<>>, "room") ELSE list[CHOOSE i \in on : \A j \in on : j <= i]
Cover(p) == CoverIn(made, p)

\* The source of a bind may be missing.
NoSource(m) == \/ m.dst = <<"usr", "share", "fonts">> /\ m.what = "host" /\ "fonts" \notin host.has
               \/ m.dst = <<"etc", "ssl", "certs">> /\ m.what = "host" /\ "certs" \notin host.has
               \/ m.dst = <<"run", "udev">> /\ "udev" \notin host.has

\* CreateDestinationPath: a base layer belongs to another user, so a mount over
\* it needs a destination that is there.
MountNode1(list, m) ==
    IF NoSource(m) \/ (CoverIn(list, m.dst).what = "base" /\ m.dst \notin host.base) THEN list ELSE Append(list, m)

MountAll ==
    /\ phase = "written" /\ phase' = "mounted"
    /\ made' = FoldLeft(MountNode1, <<>>, mounts)
    /\ UNCHANGED <<host, next, skips, mounts, env, places>>

BuildNext == getBundleDir \/ getOCIConfig \/ applyPatches \/ options \/ fixMount \/ writeConfig \/ MountAll

------------------------------------------------------------------------------
\* The types; after fixMount no destination is mounted twice.
BuildTypeOK ==
    /\ host.base \subseteq BasePaths /\ host.has \subseteq Things /\ phase \in Phases
    /\ next \in 1 .. (Len(ConfigD) + 1) /\ skips \in 0 .. MaxSkips
    /\ phase = "run" => \A i, j \in DOMAIN mounts : mounts[i].dst = mounts[j].dst => i = j

Mounted == phase = "mounted"
Given(m) == m.what \notin {"base", "room"}

\* Every entry of the base layer is still seen in the container unless a mount
\* was asked for there or above: fixMount makes room without losing anything but
\* the dot entries of the root and of the directories it makes room in, though
\* those of every other directory stay.
BaseStillSeen ==
    Mounted => \A p \in host.base :
        \/ Cover(p).what = "base"
        \/ Cover(p) = Mount(p, "room")
        \/ \E i \in DOMAIN made : Given(made[i]) /\ IsPrefix(made[i].dst, p)
        \/ p \in DotEntries /\ Front(p) \in {<<>>} \cup ToSet(places)

\* fixMount forgot the place it had found for a destination: it merged it with
\* another into their common parent, or put a place above it behind it.
Forgotten(dst) ==
    LET p == existsPath(dst)
    IN  /\ dst \notin host.base /\ p # <<>>
        /\ \/ p \notin ToSet(places)
           \/ \E i, j \in DOMAIN places : i < j /\ places[i] = p /\ IsStrictPrefix(places[j], p)

\* Of the mounts that were asked for and have a source, exactly those are not made
\* for which fixMount forgot the place it had found, with no earlier mount above
\* them.  (ld.so.conf is added after fixMount, and a package may hide what is there.)
AskedIsMounted ==
    Mounted => \A i \in DOMAIN mounts :
        \/ ~Given(mounts[i]) \/ NoSource(mounts[i]) \/ i = Len(mounts)
        \/ \E m \in ToSet(mounts) : m.what = "asked" /\ IsPrefix(m.dst, mounts[i].dst)
        \/ mounts[i] \notin ToSet(made) <=>
             /\ Forgotten(mounts[i].dst)
             /\ ~\E j \in 1 .. (i - 1) : Given(mounts[j]) /\ mounts[j] \in ToSet(made) /\ IsPrefix(mounts[j].dst, mounts[i].dst)

\* No mount hides another that was asked for, whichever generators were ignored,
\* unless the package itself asks to: this is what the order of config.d is for.
NothingHidden ==
    Mounted => \A i \in DOMAIN made : Given(made[i]) => Cover(made[i].dst) \in {made[i], Mount(Cover(made[i].dst).dst, "asked")}

\* At its usual place the user's home is never without what covers parts of it:
\* the default .bashrc, an own .linglong, and substitutes for the directories
\* that are not for applications, except those permissions.json allows.  (The
\* root of the host in /run/host/rootfs has the home too, and nothing covers it.)
HomeIsCovered ==
    Mounted /\ Cover(Home).what = "home" =>
        /\ Cover(Append(Home, ".linglong")).what = "data"
        /\ "skel" \in host.has /\ host.usual => Cover(Append(Home, ".bashrc")).what = "skel"
        /\ \A d \in host.dirs : d \in blackList \/ d \in host.disallowed \ host.allowed => Cover(Append(Home, d)).what = "private"

\* A variable that names a socket, a file or a directory of the container names
\* one that is mounted there.
EnvIsMounted ==
    Mounted => \A v \in env : Cover(v[2]).dst = v[2]

\* The mounts of all the parts compose: what each of them asked for is what is seen.
MountsCompose ==
    /\ BuildTypeOK
    /\ BaseStillSeen
    /\ AskedIsMounted
    /\ NothingHidden
    /\ HomeIsCovered
    /\ EnvIsMounted
==============================================================================
