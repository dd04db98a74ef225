------------------------------- MODULE Resolve ------------------------------
(***************************************************************************)
(* Requests that turn a fuzzy reference into a version, on top of the      *)
(* configuration they read.  Install and Update look the package up among  *)
(* the layers, ask the server, and wait for it in an event loop of their   *)
(* own, in which the daemon goes on to serve other calls, setConfiguration *)
(* among them.  What they accept is pulled later by a task.  ll-cli list   *)
(* --upgradable resolves the same way in its own process.                  *)
(***************************************************************************)
EXTENDS VersionOrder, RepoConfig

CONSTANTS Locals,     \* lists of layers that may be installed
          Asked,      \* what the user may ask for
          Records,    \* what the server has, for every repository
          Files,      \* layer files that may be installed
          Slow,       \* bound: the requests <<kind, layers, asked>> that may come while the
                      \* configuration changes; the others come once it is settled
          MaxAsks     \* bound on the requests

VARIABLES ask,        \* the request under way
          asks        \* requests so far

vars == <<configVars, ask, asks>>

NoRef == {}

NoFuzzy == [channel |-> "", id |-> "", version |-> <<>>, arch |-> ""]

Idle == [pc |-> "idle", kind |-> "", items |-> <<>>, asked |-> <<>>, fuzzy |-> NoFuzzy, module |-> "", force |-> FALSE,
         ref |-> NoRef, found |-> NoRef, listed |-> NoRef, repo |-> "", url |-> NoUrl,
         pulled |-> NoUrl, slow |-> FALSE, changed |-> FALSE]

Init == ConfigInit /\ ask = Idle /\ asks = 0

-----------------------------------------------------------------------------
(* ClientAPI_fuzzySearchApp: the records of the repository whose id begins *)
(* as the one asked for and, if a version is given, whose version does, in *)
(* any order.                                                              *)
Begins(v, asked) == asked = <<>> \/ (Len(asked) <= Len(v) /\ SubSeq(v, 1, Len(asked)) = asked)

fuzzySearchApp(repo, fuzzy) ==
    {r \in Records[repo] : Begins(r.version, fuzzy.version) /\ fuzzy.channel \in {"", r.channel}}

(* fuzzyReferenceFromPackage, and FuzzyReference::parse in ll-cli before.  *)
Fuzzy(asked) == FuzzyReferenceParse(asked)

(* Install pins a module other than binary to the version of the installed *)
(* package; Update forgets the version asked for, when the package is an   *)
(* application.                                                            *)
Wanted(kind, fuzzy, ref, module, app) ==
    CASE kind = "install" /\ module \notin {"binary", "runtime"} /\ ref # NoRef ->
           [fuzzy EXCEPT !.version = (CHOOSE r \in ref : TRUE).version]
      [] kind = "update" /\ app -> [fuzzy EXCEPT !.version = <<>>]
      [] OTHER -> fuzzy

(* getLayerItem: the layer of exactly this version and module; binary and  *)
(* runtime stand for each other.                                           *)
getLayerItem(items, ref, module) ==
    \E i \in queryLayerItem(items, ref.id) :
        i.version = ref.version /\ OfModule(i, IF module = "runtime" THEN "binary" ELSE module)

(* ClientFactory: the address the next client is made with. *)
createClientV2_shipped == Url(Shipped)

createClientV2 == daemon.server

Settled == spent = 0 /\ \A c \in Clients : clients[c].pc = "ended"

(* Update and Install up to the request to the server.  The version asked  *)
(* for must not be installed, or must be, respectively.                    *)
Ask(kind, items, asked, module, force) ==
    /\ At("up") /\ ask.pc = "idle" /\ asks < MaxAsks
    /\ <<kind, items, asked>> \in Slow \/ Settled
    /\ asks' = asks + 1
    /\ \E fuzzy \in Fuzzy(asked) :
         LET latest == IF kind = "install" THEN [fuzzy EXCEPT !.version = <<>>] ELSE fuzzy
             local  == clearReferenceLocal(items, latest)
         IN  /\ CASE kind = "install" -> fuzzy.version # <<>> => clearReferenceLocal(items, fuzzy) = {}
                  [] kind = "update" -> local # {}
                  [] OTHER -> TRUE
             /\ \E ref \in (IF local = {} THEN {NoRef} ELSE {{r} : r \in local}) :
                  LET app == \A i \in queryLayerItem(items, fuzzy.id) : i.kind = "app"
                  IN  ask' = [Idle EXCEPT !.pc = "asked", !.kind = kind, !.items = items,
                                          !.asked = fuzzy.version,
                                          !.fuzzy = Wanted(kind, fuzzy, ref, module, app),
                                          !.module = module, !.force = force, !.ref = ref,
                                          !.slow = <<kind, items, asked>> \in Slow,
                                          !.repo = daemon.cfg.default, !.url = createClientV2]
    /\ UNCHANGED configVars

(* What the handler says to the version found: an install of another       *)
(* module needs the binary of that version and is refused, like any other, *)
(* if the version is the installed one; an older version needs --force.    *)
AcceptsInstall(items, ref, found, module, force) ==
    \A n \in found :
        /\ module \notin {"binary", "runtime"} => getLayerItem(items, n, "binary")
        /\ \A r \in ref : /\ ~Equal(n.version, r.version)
                          /\ Less(r.version, n.version) \/ force

AcceptsUpdate_equal(ref, found) == \A r \in ref, n \in found : ~Less(n.version, r.version)

AcceptsUpdate(ref, found) == \A r \in ref, n \in found : ~LessEqual(n.version, r.version)

(* Cli::listUpgradable: what it shows of the package of this type.         *)
listUpgradable(items, list, fuzzy, type) ==
    {n \in HighestRecord(list, fuzzy) :
       \E i \in OfType(listLocalLatest(items), type) :
           i.id = fuzzy.id /\ ~LessEqual(n.version, i.version)}

(* installFromLayer: the file must be of the binary or runtime module, for *)
(* this machine and of a version with a tweak (fromPackageInfo).  It is    *)
(* compared with the installed version only if that has the file's module. *)
fromPackageInfo(info) ==
    UNION {Reference(info.channel, info.id, v, a) :
             v \in {w \in VersionParse(info.version) : Len(w) = 4}, a \in ArchitectureParse(info.arch)}

InstallLayer(items, info, force) ==
    /\ At("up") /\ ask.pc = "idle" /\ asks < MaxAsks /\ Settled
    /\ info.module \in {"binary", "runtime"} /\ info.arch = HostArch
    /\ asks' = asks + 1
    /\ \E new \in fromPackageInfo(info) :
         LET local == clearReferenceLocal(items, [NoFuzzy EXCEPT !.id = new.id])
             ref   == {r \in local : getLayerItem(items, r, info.module)}
         IN  /\ AcceptsInstall(items, ref, {new}, info.module, force)
             /\ ask' = [Idle EXCEPT !.pc = "taken", !.kind = "layer", !.items = items, !.force = force,
                                    !.module = info.module, !.ref = ref, !.found = {new}]
    /\ UNCHANGED configVars

(* ll-cli info and content: the binary module of the version found among   *)
(* the layers.                                                             *)
Show(items, asked) ==
    /\ At("up") /\ ask.pc = "idle" /\ asks < MaxAsks /\ Settled
    /\ asks' = asks + 1
    /\ \E fuzzy \in Fuzzy(asked) : \E ref \in clearReferenceLocal(items, fuzzy) :
         /\ getLayerItem(items, ref, "binary")
         /\ ask' = [Idle EXCEPT !.pc = "shown", !.kind = "info", !.items = items,
                                !.asked = fuzzy.version, !.ref = {ref}]
    /\ UNCHANGED configVars

(* The server answers and the handler goes on. *)
Answer ==
    /\ At("up") /\ ask.pc = "asked"
    /\ \E list \in SetToSeqs(fuzzySearchApp(ask.repo, ask.fuzzy)) :
            LET found == clearReferenceRemote(list, ask.fuzzy, ask.module)
                takes == /\ found # NoRef
                         /\ IF ask.kind = "install"
                            THEN AcceptsInstall(ask.items, ask.ref, found, ask.module, ask.force)
                            ELSE AcceptsUpdate(ask.ref, found)
            IN  ask' = IF ask.kind = "list"
                       THEN [ask EXCEPT !.pc = "listed", !.found = found,
                               !.listed = listUpgradable(ask.items, list, ask.fuzzy, "app")]
                       ELSE [ask EXCEPT !.pc = IF takes THEN "queued" ELSE "refused", !.found = found]
    /\ UNCHANGED <<configVars, asks>>

(* The request fails: no answer, or a code other than 200. *)
NoAnswer ==
    /\ At("up") /\ ask.pc = "asked"
    /\ ask' = Idle
    /\ UNCHANGED <<configVars, asks>>

(* The task pulls, from the remote of the repository that is the default   *)
(* by then; a missing remote is an error.                                  *)
Pull ==
    /\ At("up") /\ ask.pc = "queued"
    /\ ask' = IF remotes[daemon.cfg.default] = NoUrl THEN Idle
              ELSE [ask EXCEPT !.pc = "pulled", !.pulled = remotes[daemon.cfg.default]]
    /\ UNCHANGED <<configVars, asks>>

Finish ==
    /\ ask.pc \in {"refused", "listed", "pulled", "taken", "shown"}
    /\ ask' = Idle
    /\ UNCHANGED <<configVars, asks>>

(* The daemon serves other calls while a request waits for the server or   *)
(* its task for its turn, not while a handler runs.  A crash loses both.   *)
ConfigStep ==
    /\ ask.pc = "idle" \/ (ask.pc \in {"asked", "queued"} /\ ask.slow)
    /\ ConfigNext
    /\ ask' = CASE daemon'.pc = "down" -> Idle
                [] daemon'.pc # "down" /\ daemon'.cfg # daemon.cfg /\ ask.pc # "idle" ->
                     [ask EXCEPT !.changed = TRUE]
                [] OTHER -> ask
    /\ UNCHANGED asks

Next ==
    \/ ConfigStep
    \/ \E kind \in {"install", "update", "list"}, items \in Locals, asked \in Asked,
          module \in {"binary", "develop"}, force \in BOOLEAN :
            /\ kind # "install" => module = "binary" /\ ~force
            /\ kind = "list" => asked.version = <<>>
            /\ Ask(kind, items, asked, module, force)
    \/ \E items \in Locals, info \in Files, force \in BOOLEAN : InstallLayer(items, info, force)
    \/ \E items \in Locals, asked \in Asked : Show(items, asked)
    \/ Answer \/ NoAnswer \/ Pull \/ Finish

Spec == Init /\ [][Next]_vars

-----------------------------------------------------------------------------
(* Types of the request; those of the daemon are in RepoConfig. *)
TypeOK ==
    /\ ask.pc \in {"idle", "asked", "refused", "listed", "queued", "pulled", "taken", "shown"}
    /\ ask.url \in Urls \cup {NoUrl} /\ ask.pulled \in Urls \cup {NoUrl}
    /\ asks \in 0..MaxAsks

Installed == {i \in ToSet(ask.items) : ~i.deleted}

(* The versions installed have numbers of the same length, so that their   *)
(* text order is their order.                                              *)
TextOrderHolds == \A i, j \in Installed : TextGreater(i.version, j.version) => ~Less(i.version, j.version)

(* Whatever the order of the server's records, the version found is the    *)
(* highest of those of the package, module and channel asked for           *)
(* (ostree_repo.cpp:1309).                                                 *)
RemoteHighest ==
    ask.kind # "layer" => \A n \in ask.found : \A r \in fuzzySearchApp(ask.repo, ask.fuzzy) :
        r.id = n.id /\ OfModule(r, ask.module) /\ VersionParse(r.version) # {}
            => ~Less(n.version, r.version)

(* A package is never upgraded to a version that is not above every        *)
(* version installed of those asked for, unless the installed ones have numbers of different  *)
(* lengths, which are sorted as text (repo_cache.cpp:275), or one of the   *)
(* two versions has three parts and the other the same and a tweak of 0    *)
(* (version.cpp:144).                                                      *)
UpgradeRises ==
    ask.kind = "update" /\ ask.pc = "queued" /\ TextOrderHolds =>
        \A n \in ask.found, i \in Installed :
            i.id = n.id /\ Compatible(i.version, ask.asked)
                => \/ Less(i.version, n.version)
                   \/ SameNumbers(i.version, n.version) /\ ~Equal(i.version, n.version)

(* Without --force nothing installed, from the server or from a layer      *)
(* file, takes the place of a version that is not below it                 *)
(* (package_manager.cpp:591, :1168), but for the two cases above.          *)
InstallRises ==
    ask.kind \in {"install", "layer"} /\ ask.pc \in {"queued", "taken"} /\ ~ask.force /\ TextOrderHolds =>
        \A n \in ask.found, i \in Installed :
            i.id = n.id => \/ Less(i.version, n.version)
                           \/ SameNumbers(i.version, n.version) /\ ~Equal(i.version, n.version)

(* ll-cli info shows the version that is the latest by number, which is    *)
(* what ll-cli list --upgradable starts from, but for versions whose text  *)
(* order differs (repo_cache.cpp:275).                                     *)
InfoShowsLatest ==
    ask.kind = "info" /\ ask.asked = <<>> /\ TextOrderHolds =>
        \A r \in ask.ref : \E k \in listLocalLatest(ask.items) :
            k.id = r.id /\ SameNumbers(k.version, r.version)

(* What ll-cli list --upgradable shows is what ll-cli upgrade would then   *)
(* install, unless the highest version on the server has no binary module, *)
(* which only list looks at (cli.cpp:1408).                                *)
ListedCanUpgrade ==
    \A n \in ask.listed :
        \/ ~TextOrderHolds
        \/ \A r \in fuzzySearchApp(ask.repo, ask.fuzzy) :
             r.id = n.id /\ SameNumbers(r.version, n.version) => r.module = "develop"
        \/ /\ \E f \in ask.found : SameNumbers(f.version, n.version)
           /\ AcceptsUpdate(ask.ref, ask.found)

(* Every question about versions is answered with the one it means: the    *)
(* highest there is, and above what is installed.                          *)
VersionsChosen ==
    /\ TypeOK
    /\ RemoteHighest
    /\ UpgradeRises
    /\ InstallRises
    /\ InfoShowsLatest
    /\ ListedCanUpgrade

(* The version is pulled from the server that offered it, unless the       *)
(* configuration was set while the request or its task waited, or the      *)
(* remote could not be changed with it.                                    *)
PulledWhereFound ==
    [][ask'.pc = "pulled" /\ ask.pc = "queued"
         => ask'.pulled = ask.url \/ ask.changed \/ "remote" \in hist.marks]_vars
=============================================================================
