----------------------------- MODULE RepoConfig -----------------------------
(***************************************************************************)
(* The configuration of the repository and the start of the daemon that    *)
(* owns it.  ll-package-manager loads config.yaml, migrates a repository   *)
(* written before 1.7.0, opens the ostree repository, exports the launcher *)
(* entries again and registers on the bus.  ll-cli repo reads the whole    *)
(* configuration, changes it and sets it back; the daemon then saves the   *)
(* file, changes the ostree remote and rebuilds its cache, and undoes what *)
(* it did when a step fails.  The daemon may be killed between any two     *)
(* steps.                                                                  *)
(***************************************************************************)
EXTENDS Naturals, Sequences, FiniteSets, TLC

CONSTANTS Names,          \* names of repositories
          Urls,           \* addresses that begin with http
          Shipped,        \* LINGLONG_DATA_DIR/config.yaml
          Saved,          \* what config.yaml may hold before
          Clients,        \* users of ll-cli repo
          Ops,            \* the commands they give
          Layers,         \* layers of the repository before it is migrated
          Homeless,       \* those without a directory, under their own name or, a
                          \* runtime module, under that of binary
          WrittenBy,      \* the versions that may have written the repository
          ThisVersion,    \* LINGLONG_VERSION
          Faults,         \* what may fail, beside the crash of the daemon
          MaxFaults       \* bound on failures and crashes

(* A configuration file that can be loaded names a default repository and  *)
(* has it.                                                                 *)
Config == {c \in [default : Names, repos : UNION {[N -> Urls] : N \in SUBSET Names}] :
             c.default \in DOMAIN c.repos}

NoClient == "nobody"
NoUrl == "none"

ASSUME ConfigAssumption == Shipped \in Config /\ Saved \subseteq Config
ASSUME OpsAssumption == \A op \in Ops : op.name \in Names
ASSUME ClientsAssumption == NoClient \notin Clients
ASSUME VersionsAssumption == \A v \in WrittenBy \cup {ThisVersion} : Len(v) = 3
ASSUME MaxFaultsAssumption == MaxFaults \in Nat

VARIABLES yaml,      \* LINGLONG_ROOT/config.yaml
          remotes,   \* the remotes of the ostree repository
          daemon,    \* ll-package-manager
          clients,   \* the ll-cli repo processes
          store,     \* .version, the refs, layers/ and entries/ of the repository
          spent,     \* failures and crashes so far
          hist       \* what happened, for the properties

configVars == <<yaml, remotes, daemon, clients, store, spent, hist>>

Url(c) == c.repos[c.default]

Down == [pc |-> "down", cfg |-> Shipped, server |-> NoUrl, new |-> Shipped,
         client |-> NoClient, back |-> FALSE, failed |-> FALSE, fresh |-> FALSE, todo |-> {}]

ConfigInit ==
    /\ yaml \in {[state |-> "absent", cfg |-> Shipped]} \cup [state : {"whole"}, cfg : Saved]
    /\ remotes = [n \in Names |-> NoUrl]
    /\ daemon = Down
    /\ clients \in [Clients -> {[pc |-> "idle", op |-> op, base |-> Shipped, new |-> Shipped] : op \in Ops}]
    /\ store \in {[version |-> v, repo |-> r, refs |-> {}, links |-> {},
                    share |-> IF r THEN "kept" ELSE "none"] : v \in WrittenBy, r \in BOOLEAN}
    /\ ~store.repo => store.version # ThisVersion
    /\ spent = 0
    /\ hist = [allowed |-> {yaml.cfg}, serial |-> yaml.cfg, marks |-> {}, cuts |-> 0]

May(fault) == fault \in Faults /\ spent < MaxFaults

Mark(m) == [hist EXCEPT !.marks = @ \cup {m}]

At(pc) == daemon.pc = pc

Goto(pc) == daemon' = [daemon EXCEPT !.pc = pc]

-----------------------------------------------------------------------------
(* The start of ll-package-manager. *)

(* loadConfig: the file under LINGLONG_ROOT, else the shipped one.  A torn *)
(* file is an error that loadConfig dereferences: it takes the next file   *)
(* or dies there, which leaves everything as it is.                        *)
loadConfig == IF yaml.state = "whole" THEN yaml.cfg ELSE Shipped

Load ==
    /\ At("down")
    /\ daemon' = [Down EXCEPT !.pc = "migrate", !.cfg = loadConfig, !.new = loadConfig,
                              !.server = Url(loadConfig)]
    /\ hist' = [hist EXCEPT !.serial = loadConfig, !.allowed = {loadConfig}, !.marks = @ \ {"torn", "unrolled"}]
    /\ UNCHANGED <<yaml, remotes, clients, store, spent>>

(* The order migrate.cpp gives versions: smaller in any of the numbers.    *)
MigrateBefore(v, w) == \E i \in DOMAIN w : v[i] < w[i]

(* parseVersion takes exactly three numbers.                               *)
parseVersion(v) == Len(v) = 3

(* migrateRef: refs without a repository, less those that already have a   *)
(* twin with the repository's name.  The prefix grows with every           *)
(* comparison, so that only the first ref, whichever it is, is recognised. *)
NeedMigrate_all(repo, first) == {l \in Layers : <<repo, l>> \notin store.refs}

NeedMigrate(repo, first) == Layers \ {l \in {first} : <<repo, l>> \in store.refs}

tryMigrate ==
    /\ At("migrate")
    /\ \/ /\ store.version = ThisVersion
          /\ Goto("opening")
          /\ UNCHANGED <<store, spent>>
       \/ /\ ~parseVersion(store.version)
          /\ daemon' = [daemon EXCEPT !.pc = "opening", !.failed = TRUE]
          /\ UNCHANGED <<store, spent>>
       \/ /\ parseVersion(store.version) /\ store.version # ThisVersion
          /\ ~store.repo \/ ~MigrateBefore(store.version, <<1, 7, 0>>)
          /\ Goto("stamp")
          /\ UNCHANGED <<store, spent>>
       \/ /\ parseVersion(store.version) /\ store.version # ThisVersion
          /\ store.repo /\ MigrateBefore(store.version, <<1, 7, 0>>)
          /\ \E first \in Layers :
               LET need == NeedMigrate(daemon.cfg.default, first)
               IN  \/ /\ daemon' = [daemon EXCEPT !.pc = IF need = {} THEN "stamp" ELSE "link",
                                                  !.todo = need]
                      /\ store' = [store EXCEPT !.refs = @ \cup {<<daemon.cfg.default, l>> : l \in need}]
                      /\ UNCHANGED spent
                   \/ /\ need # {} /\ May("ostree")
                      /\ daemon' = [daemon EXCEPT !.pc = "opening", !.failed = TRUE]
                      /\ spent' = spent + 1
                      /\ UNCHANGED store
    /\ UNCHANGED <<yaml, remotes, clients, hist>>

(* The link layers/<commit> to the old directory of the layer, if there is *)
(* one.                                                                    *)
LinkLayer ==
    /\ At("link")
    /\ \/ /\ daemon.todo = {}
          /\ Goto("stamp")
          /\ UNCHANGED <<store, spent, hist>>
       \/ \E l \in daemon.todo :
            /\ daemon' = [daemon EXCEPT !.todo = @ \ {l}]
            /\ store' = IF l \in Homeless THEN store ELSE [store EXCEPT !.links = @ \cup {l}]
            /\ UNCHANGED <<spent, hist>>
       \/ /\ daemon.todo # {} /\ May("link")
          /\ daemon' = [daemon EXCEPT !.pc = "opening", !.failed = TRUE, !.todo = {}]
          /\ hist' = [hist EXCEPT !.cuts = @ + 1]
          /\ spent' = spent + 1
          /\ UNCHANGED store
    /\ UNCHANGED <<yaml, remotes, clients>>

(* .version is truncated, then written. *)
OpenVersion ==
    /\ At("stamp")
    /\ \/ /\ Goto("stamping")
          /\ store' = [store EXCEPT !.version = <<>>]
          /\ UNCHANGED spent
       \/ /\ May("disk")
          /\ daemon' = [daemon EXCEPT !.pc = "opening", !.failed = TRUE]
          /\ spent' = spent + 1
          /\ UNCHANGED store
    /\ UNCHANGED <<yaml, remotes, clients, hist>>

(* That the stream failed is not looked at: the file stays empty.          *)
WriteVersion ==
    /\ At("stamping")
    /\ Goto("opening")
    /\ \/ /\ store' = [store EXCEPT !.version = ThisVersion]
          /\ UNCHANGED <<spent, hist>>
       \/ /\ May("disk")
          /\ hist' = Mark("version")
          /\ spent' = spent + 1
          /\ UNCHANGED store
    /\ UNCHANGED <<yaml, remotes, clients>>

(* The constructor of OSTreeRepo opens the ostree repository or creates    *)
(* one, sets its remote, which need not succeed unless it was created, and *)
(* loads or rebuilds the cache; other failures end the program.            *)
OpenRepo ==
    /\ At("opening")
    /\ \/ /\ daemon' = [daemon EXCEPT !.pc = "delete", !.fresh = ~store.repo]
          /\ store' = [store EXCEPT !.repo = TRUE]
          /\ UNCHANGED spent
       \/ /\ ~store.repo /\ May("ostree")
          /\ daemon' = Down
          /\ spent' = spent + 1
          /\ UNCHANGED store
    /\ UNCHANGED <<yaml, remotes, clients, hist>>

CreateCache ==
    /\ At("cache")
    /\ \/ /\ Goto("export")
          /\ UNCHANGED spent
       \/ /\ May("rebuild")
          /\ daemon' = Down
          /\ spent' = spent + 1
    /\ UNCHANGED <<yaml, remotes, clients, store, hist>>

(* exportAllEntries builds a new share directory.  Where there is a share, *)
(* it is moved aside and the new one put in its place; where there is      *)
(* none, the new one is renamed by a path that does not lead to it, which  *)
(* fails.  An error is only logged.                                        *)
exportAllEntries ==
    /\ At("export")
    /\ \/ /\ store.share = "kept"
          /\ Goto("rename")
          /\ store' = [store EXCEPT !.share = "moved"]
          /\ UNCHANGED spent
       \/ /\ store.share # "kept"
          /\ Goto("register")
          /\ UNCHANGED <<store, spent>>
       \/ /\ May("disk")
          /\ Goto("register")
          /\ spent' = spent + 1
          /\ UNCHANGED store
    /\ UNCHANGED <<yaml, remotes, clients, hist>>

RenameShare ==
    /\ At("rename")
    /\ Goto("register")
    /\ \/ /\ store' = [store EXCEPT !.share = "kept"]
          /\ UNCHANGED <<spent, hist>>
       \/ /\ May("disk")
          /\ spent' = spent + 1
          /\ hist' = Mark("share")
          /\ UNCHANGED store
    /\ UNCHANGED <<yaml, remotes, clients>>

(* A failed migration asks the event loop to end; the daemon is set up to  *)
(* its end all the same, then leaves, as it does when the bus refuses the  *)
(* name.                                                                   *)
Register ==
    /\ At("register")
    /\ \/ /\ daemon' = IF daemon.failed THEN Down ELSE [daemon EXCEPT !.pc = "up"]
          /\ UNCHANGED spent
       \/ /\ May("bus")
          /\ daemon' = Down
          /\ spent' = spent + 1
    /\ UNCHANGED <<yaml, remotes, clients, store, hist>>

-----------------------------------------------------------------------------
(* ll-cli repo: the configuration the command makes of the one it read.    *)
RepoCommand(op, c) ==
    CASE op.what = "add" /\ op.url \in Urls /\ op.name \notin DOMAIN c.repos ->
           {[c EXCEPT !.repos = [n \in DOMAIN @ \cup {op.name} |-> IF n = op.name THEN op.url ELSE @[n]]]}
      [] op.what = "remove" /\ op.name \in DOMAIN c.repos \ {c.default} ->
           {[c EXCEPT !.repos = [n \in DOMAIN @ \ {op.name} |-> @[n]]]}
      [] op.what = "update" /\ op.url \in Urls /\ op.name \in DOMAIN c.repos ->
           {[c EXCEPT !.repos[op.name] = op.url]}
      [] op.what = "set-default" /\ op.name \in DOMAIN c.repos -> {[c EXCEPT !.default = op.name]}
      [] OTHER -> {}

ClientEnds(c, how) == clients' = [clients EXCEPT ![c].pc = how]

(* Cli::repo reads the property Configuration; a command the configuration *)
(* does not allow ends there, as does set-default to what is the default.  *)
ReadConfiguration(c) ==
    /\ At("up") /\ clients[c].pc = "idle"
    /\ LET made == RepoCommand(clients[c].op, daemon.cfg)
       IN  \/ /\ made = {} \/ (clients[c].op.what = "set-default" /\ made = {daemon.cfg})
              /\ ClientEnds(c, "ended")
           \/ /\ clients[c].op.what = "set-default" => made # {daemon.cfg}
              /\ \E new \in made :
                   clients' = [clients EXCEPT ![c].pc = "read", ![c].new = new, ![c].base = daemon.cfg]
    /\ UNCHANGED <<yaml, remotes, daemon, store, spent, hist>>

(* PackageManager::setConfiguration up to the first write. *)
SetConfiguration(c) ==
    /\ At("up") /\ clients[c].pc = "read"
    /\ IF clients[c].new = daemon.cfg
       THEN /\ ClientEnds(c, "ended")
            /\ UNCHANGED <<daemon, hist>>
       ELSE /\ daemon' = [daemon EXCEPT !.pc = "open", !.new = clients[c].new, !.client = c]
            /\ ClientEnds(c, "waits")
            /\ hist' = [hist EXCEPT !.allowed = @ \cup {clients[c].new},
                                    !.marks = IF clients[c].base = daemon.cfg THEN @
                                              ELSE @ \cup {"stale"}]
    /\ UNCHANGED <<yaml, remotes, store, spent>>

-----------------------------------------------------------------------------
(* OSTreeRepo::setConfig.  Forward it saves the file, changes the remote   *)
(* and rebuilds the cache; backward, what was done is undone in reverse    *)
(* order with the configuration in memory.                                 *)

Target == IF daemon.back THEN daemon.cfg ELSE daemon.new

Setting == daemon.client # NoClient

(* The call returns, with an error unless every step succeeded. *)
Return(ok) ==
    LET cfg == IF ok THEN daemon.new ELSE daemon.cfg
    IN  /\ daemon' = [daemon EXCEPT !.pc = "up", !.cfg = cfg, !.new = cfg, !.back = FALSE,
                                    !.client = NoClient,
                                    !.server = IF ok THEN Url(cfg) ELSE @]
        /\ ClientEnds(daemon.client, "ended")

Answered(h, ok) ==
    LET op == clients[daemon.client].op
        cfg == IF ok THEN daemon.new ELSE daemon.cfg
    IN  [h EXCEPT !.allowed = {cfg},
                  !.serial = IF ok /\ RepoCommand(op, @) # {}
                             THEN CHOOSE s \in RepoCommand(op, @) : TRUE ELSE @]

Undo(pc) == daemon' = [daemon EXCEPT !.pc = pc, !.back = TRUE]

(* saveConfig opens, and so empties, the file ... *)
OpenYaml ==
    /\ At("open")
    /\ \/ /\ Goto("write")
          /\ yaml' = [yaml EXCEPT !.state = "torn"]
          /\ UNCHANGED <<clients, spent, hist>>
       \/ /\ May("disk")
          /\ Return(FALSE)
          /\ hist' = Answered(IF daemon.back THEN Mark("unrolled") ELSE hist, FALSE)
          /\ spent' = spent + 1
          /\ UNCHANGED yaml
    /\ UNCHANGED <<remotes, store>>

(* ... and writes it; that the stream failed is not looked at: the file    *)
(* stays empty and the call goes on.                                       *)
Written(h) ==
    IF daemon.back
    THEN Return(FALSE) /\ hist' = Answered(h, FALSE)
    ELSE Goto("delete") /\ hist' = h /\ UNCHANGED clients

WriteYaml ==
    /\ At("write")
    /\ \/ /\ yaml' = [state |-> "whole", cfg |-> Target]
          /\ Written([hist EXCEPT !.marks = @ \ {"torn", "unrolled"}])
          /\ UNCHANGED spent
       \/ /\ May("disk")
          /\ Written(Mark("torn"))
          /\ spent' = spent + 1
          /\ UNCHANGED yaml
    /\ UNCHANGED <<remotes, store>>

(* updateOstreeRepoConfig failed.  Its own undoing is not registered yet,  *)
(* so that what it did to the remote of the default repository stays.      *)
RemoteFails ==
    /\ IF Setting THEN Undo("open")
       ELSE daemon' = IF daemon.fresh THEN Down ELSE [daemon EXCEPT !.pc = "cache"]
    /\ hist' = IF Target.default = daemon.cfg.default THEN Mark("remote") ELSE hist
    /\ UNCHANGED clients

DeleteRemote ==
    /\ At("delete")
    /\ \/ /\ Goto("add")
          /\ remotes' = [remotes EXCEPT ![Target.default] = NoUrl]
          /\ UNCHANGED <<clients, hist, spent>>
       \/ /\ May("ostree")
          /\ RemoteFails
          /\ spent' = spent + 1
          /\ UNCHANGED remotes
    /\ UNCHANGED <<yaml, store>>

AddRemote ==
    /\ At("add")
    /\ \/ /\ remotes' = [remotes EXCEPT ![Target.default] = Url(Target)]
          /\ Goto(IF ~Setting THEN "cache" ELSE IF daemon.back THEN "open" ELSE "rebuild")
          /\ hist' = [hist EXCEPT !.marks = @ \ {"remote"}]
          /\ UNCHANGED <<clients, spent>>
       \/ /\ May("ostree")
          /\ \E url \in {NoUrl, Url(Target)} : remotes' = [remotes EXCEPT ![Target.default] = url]
          /\ RemoteFails
          /\ spent' = spent + 1
    /\ UNCHANGED <<yaml, store>>

RebuildCache_undoes_file ==
    /\ At("rebuild")
    /\ \/ /\ Return(TRUE)
          /\ hist' = Answered(hist, TRUE)
          /\ UNCHANGED spent
       \/ /\ May("rebuild")
          /\ Undo("open")
          /\ spent' = spent + 1
          /\ UNCHANGED <<clients, hist>>
    /\ UNCHANGED <<yaml, remotes, store>>

RebuildCache ==
    /\ At("rebuild")
    /\ \/ /\ Return(TRUE)
          /\ hist' = Answered(hist, TRUE)
          /\ UNCHANGED spent
       \/ /\ May("rebuild")
          /\ Undo("delete")
          /\ spent' = spent + 1
          /\ UNCHANGED <<clients, hist>>
    /\ UNCHANGED <<yaml, remotes, store>>

(* The daemon is killed; the call it was in fails. *)
Crash ==
    /\ ~At("down") /\ May("crash")
    /\ daemon' = Down
    /\ clients' = [c \in Clients |-> IF c = daemon.client THEN [clients[c] EXCEPT !.pc = "ended"]
                                     ELSE clients[c]]
    /\ hist' = [hist EXCEPT !.cuts = IF At("link") /\ daemon.todo # {} THEN @ + 1 ELSE @,
                            !.marks = CASE At("rename") -> @ \cup {"share"}
                                        [] At("stamping") -> @ \cup {"version"}
                                        [] At("write") -> @ \cup {"torn"}
                                        [] OTHER -> @]
    /\ spent' = spent + 1
    /\ UNCHANGED <<yaml, remotes, store>>

ConfigNext ==
    \/ Load \/ tryMigrate \/ LinkLayer \/ OpenVersion \/ WriteVersion
    \/ OpenRepo \/ CreateCache
    \/ exportAllEntries \/ RenameShare \/ Register
    \/ \E c \in Clients : ReadConfiguration(c) \/ SetConfiguration(c)
    \/ OpenYaml \/ WriteYaml \/ DeleteRemote \/ AddRemote \/ RebuildCache
    \/ Crash

-----------------------------------------------------------------------------
(* Types. *)
ConfigTypeOK ==
    /\ yaml \in [state : {"absent", "torn", "whole"}, cfg : Config]
    /\ remotes \in [Names -> Urls \cup {NoUrl}]
    /\ daemon \in [pc : {"down", "migrate", "link", "stamp", "stamping", "opening", "cache", "delete", "add", "export",
                         "rename", "register", "up", "open", "write", "rebuild"},
                   cfg : Config, server : Urls \cup {NoUrl}, new : Config,
                   client : Clients \cup {NoClient}, back : BOOLEAN, failed : BOOLEAN, fresh : BOOLEAN,
                   todo : SUBSET Layers]
    /\ clients \in [Clients -> [pc : {"idle", "read", "waits", "ended"}, op : Ops,
                                base : Config, new : Config]]
    /\ store \in [version : WrittenBy \cup {ThisVersion, <<>>}, repo : BOOLEAN,
                  refs : SUBSET (Names \X Layers), links : SUBSET Layers, share : {"kept", "none", "moved"}]
    /\ spent \in 0..MaxFaults

(* The saving of config.yaml went wrong unseen since it was last whole or  *)
(* loaded: the daemon was killed between emptying and writing it, or the   *)
(* write failed, which nobody looks at (config.cpp:72-80), so that the     *)
(* next start takes the shipped configuration; or the file could not be    *)
(* opened to undo what was saved, so that it holds a refused one.          *)
Spoilt == hist.marks \cap {"torn", "unrolled"} # {}

(* While the daemon waits for calls, what it has in memory, what it would  *)
(* load if it started now, the server it asks and the ostree remote it     *)
(* pulls from are of one configuration: a setConfig that failed at any     *)
(* step has put everything back (ostree_repo.cpp:793), unless              *)
(* updateOstreeRepoConfig itself failed or the file is spoilt.             *)
Agree ==
    At("up") =>
        /\ daemon.server = Url(daemon.cfg)
        /\ loadConfig = daemon.cfg \/ Spoilt
        /\ remotes[daemon.cfg.default] = Url(daemon.cfg) \/ "remote" \in hist.marks

(* A daemon that dies at any moment would start again with the             *)
(* configuration that was last loaded or answered for, or with the one     *)
(* that is being set, and never with one it refused.  The exceptions are a *)
(* spoilt file, and a death between emptying and writing it: after those a *)
(* start takes the shipped configuration, or the refused one.              *)
LoadsOldOrNew ==
    \/ loadConfig \in hist.allowed
    \/ At("write")
    \/ "unrolled" \in hist.marks
    \/ "torn" \in hist.marks /\ loadConfig = Shipped

(* Commands of ll-cli repo that were answered without an error all show in *)
(* the configuration, in the order of their answers, as long as no client  *)
(* set a configuration made of an older one (cli.cpp:1481 reads it, the    *)
(* whole of it is set at cli.cpp:1607).                                    *)
NoLostUpdate == At("up") /\ "stale" \notin hist.marks => daemon.cfg = hist.serial

(* The configuration is one and the one that was set, in memory, in the    *)
(* file, at the server and in the ostree repository.                       *)
ConfigKept == ConfigTypeOK /\ Agree /\ LoadsOldOrNew /\ NoLostUpdate

(* A migrated repository misses at most one layer for every time its       *)
(* migration was cut short: the next start recognises only one of the refs *)
(* it finds migrated already and links the others (migrate.cpp:98).        *)
MigrationLosesOnePerCut ==
    At("up") /\ store.refs # {} => Cardinality(Layers \ (Homeless \cup store.links)) <= hist.cuts

(* The launcher entries are in place when the daemon serves, unless it was *)
(* killed, or the second rename failed, while the old ones were moved      *)
(* aside (ostree_repo.cpp:1705); then no later start brings them back.     *)
EntriesKept == At("up") /\ store.share = "moved" => "share" \in hist.marks

(* A start of the daemon during which nothing fails serves, unless an      *)
(* earlier one emptied .version and was killed before it had written it,   *)
(* or its write failed, which nobody looks at (migrate.cpp:265-271): after *)
(* that every start gives up.                                              *)
StartFailsOnlyTorn ==
    /\ daemon'.failed /\ ~daemon.failed /\ spent' = spent => "version" \in hist.marks
    /\ At("migrate") /\ "version" \in hist.marks /\ daemon'.pc \notin {"migrate", "down"} => daemon'.failed

(* Every start brings back what the last one left halfway, but for the     *)
(* three losses named above.                                               *)
StartRecovers ==
    [][MigrationLosesOnePerCut' /\ EntriesKept' /\ StartFailsOnlyTorn]_configVars
=============================================================================
