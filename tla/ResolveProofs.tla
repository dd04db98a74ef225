--------------------------- MODULE ResolveProofs ---------------------------
(***************************************************************************)
(* Resolve for any repositories, layers, clients, commands and faults: the *)
(* configuration is one whatever fails while it is set, every start of the *)
(* daemon recovers but for the named losses, and a version is pulled from  *)
(* the server that offered it.                                             *)
(***************************************************************************)
EXTENDS Resolve, FiniteSetTheorems, TLAPS

-----------------------------------------------------------------------------
(* The inductive invariant                                                 *)

DaemonRecord ==
    [pc : {"down", "migrate", "link", "stamp", "stamping", "opening", "cache", "delete", "add", "export",
           "rename", "register", "up", "open", "write", "rebuild"},
     cfg : Config, server : Urls \cup {NoUrl}, new : Config,
     client : Clients \cup {NoClient}, back : BOOLEAN, failed : BOOLEAN, fresh : BOOLEAN,
     todo : SUBSET Layers]

ClientRecord == [pc : {"idle", "read", "waits", "ended"}, op : Ops, base : Config, new : Config]

StoreRecord ==
    [version : WrittenBy \cup {ThisVersion, <<>>}, repo : BOOLEAN,
     refs : SUBSET (Names \X Layers), links : SUBSET Layers, share : {"kept", "none", "moved"}]

Marks == {"unrolled", "torn", "remote", "stale", "share", "version"}

HistRecord == [allowed : SUBSET Config, serial : Config, marks : SUBSET Marks, cuts : Nat]

Types ==
    /\ yaml \in [state : {"absent", "torn", "whole"}, cfg : Config]
    /\ remotes \in [Names -> Urls \cup {NoUrl}]
    /\ daemon \in DaemonRecord
    /\ clients \in [Clients -> ClientRecord]
    /\ store \in StoreRecord
    /\ spent \in 0..MaxFaults
    /\ hist \in HistRecord

(* Where the daemon is in a call of setConfiguration, and what it goes by. *)
CallInv ==
    /\ daemon.pc \in {"open", "write", "rebuild"} => Setting
    /\ Setting => daemon.pc \in {"open", "write", "delete", "add", "rebuild"} /\ ~daemon.failed
    /\ ~Setting => ~daemon.back /\ daemon.new = daemon.cfg
    /\ daemon.pc = "rebuild" => ~daemon.back
    /\ daemon.pc = "up" => ~daemon.failed
    /\ daemon.pc # "down" => daemon.server = Url(daemon.cfg)

(* What a client sets is what its command made of what it read; when that  *)
(* is no longer the configuration, the update is stale.                    *)
ClientsInv ==
    /\ \A c \in Clients : clients[c].pc \in {"read", "waits"} =>
                             RepoCommand(clients[c].op, clients[c].base) = {clients[c].new}
    /\ Setting => /\ clients[daemon.client].pc = "waits"
                  /\ clients[daemon.client].new = daemon.new
                  /\ clients[daemon.client].base = daemon.cfg \/ "stale" \in hist.marks
    /\ daemon.pc # "down" => daemon.cfg = hist.serial \/ "stale" \in hist.marks

FileIsOf(cfg) == loadConfig = cfg

(* The file, step by step through saving and undoing. *)
FileInv ==
    /\ LoadsOldOrNew
    /\ Setting => daemon.new \in hist.allowed
    /\ daemon.pc # "down" /\ ~Setting => FileIsOf(daemon.cfg) \/ Spoilt
    /\ daemon.pc = "open" /\ ~daemon.back => FileIsOf(daemon.cfg) \/ Spoilt
    /\ daemon.pc = "write" \/ "torn" \in hist.marks => yaml.state = "torn"
    /\ Setting /\ ~daemon.back /\ daemon.pc \in {"delete", "add", "rebuild"} =>
         FileIsOf(daemon.new) \/ "torn" \in hist.marks

RemoteIsOf(cfg) == remotes[cfg.default] = Url(cfg)

(* The ostree remote, step by step. *)
RemoteInv ==
    /\ daemon.pc \in {"cache", "export", "rename", "register", "up", "open", "write"} =>
         RemoteIsOf(daemon.cfg) \/ "remote" \in hist.marks
    /\ Setting /\ ~daemon.back /\ daemon.pc = "delete" => RemoteIsOf(daemon.cfg) \/ "remote" \in hist.marks
    /\ Setting /\ ~daemon.back /\ daemon.pc = "add" =>
         RemoteIsOf(daemon.cfg) \/ "remote" \in hist.marks \/ daemon.new.default = daemon.cfg.default
    /\ daemon.pc = "rebuild" => RemoteIsOf(daemon.new)

(* Layers that ought to be linked and are not. *)
Unlinked == Layers \ (Homeless \cup store.links)

BeingLinked == IF daemon.pc = "link" THEN daemon.todo ELSE {}

Opened == {"opening", "delete", "add", "cache", "export", "rename", "register", "up", "open", "write", "rebuild"}

(* The migration: a layer is missed only after a cut, and at most one when *)
(* it is through; a repository that was migrated is an old one, or done.   *)
(* An emptied .version stays so and keeps the migration from going on.     *)
MigrationInv ==
    /\ daemon.pc \in Opened /\ ~daemon.failed => store.version \in {ThisVersion, <<>>}
    /\ store.refs # {} => /\ store.repo
                          /\ \/ store.version \in {ThisVersion, <<>>}
                             \/ MigrateBefore(store.version, <<1, 7, 0>>)
                          /\ Unlinked \subseteq BeingLinked \/ hist.cuts >= 1
    /\ \/ store.refs = {}
       \/ ~(daemon.pc \in {"link", "stamp", "stamping"} \/ store.version \in {ThisVersion, <<>>})
       \/ \E l : Unlinked \ BeingLinked \subseteq {l}
    /\ daemon.pc = "link" => store.refs # {} /\ store.version \notin {ThisVersion, <<>>}
    /\ store.version = <<>> <=> daemon.pc = "stamping" \/ "version" \in hist.marks
    /\ "version" \in hist.marks => daemon.pc \notin {"link", "stamp", "stamping"}
    /\ store.share = "moved" => daemon.pc = "rename" \/ "share" \in hist.marks

ConfigInv == Types /\ CallInv /\ ClientsInv /\ FileInv /\ RemoteInv /\ MigrationInv

(* A request that waits is for the server of the configuration, unless     *)
(* that was changed.                                                       *)
AskInv ==
    /\ {"pc", "url", "changed", "pulled"} \subseteq DOMAIN ask
    /\ ask.pc \in {"asked", "queued"} =>
         daemon.pc # "down" /\ (ask.url = Url(daemon.cfg) \/ ask.changed)

IInv == ConfigInv /\ AskInv

-----------------------------------------------------------------------------
(* Configurations                                                          *)

(* A configuration has a default repository with an address. *)
LEMMA ConfigIs ==
    ASSUME NEW c \in Config
    PROVE  /\ c = [default |-> c.default, repos |-> c.repos]
           /\ c.default \in Names /\ c.default \in DOMAIN c.repos /\ DOMAIN c.repos \subseteq Names
           /\ c.repos \in [DOMAIN c.repos -> Urls]
           /\ Url(c) \in Urls
  <1>1. /\ c \in [default : Names, repos : UNION {[N -> Urls] : N \in SUBSET Names}]
        /\ c.default \in DOMAIN c.repos
    BY DEF Config
  <1>2. PICK N \in SUBSET Names : c.repos \in [N -> Urls]
    BY <1>1
  <1>3. DOMAIN c.repos = N
    BY <1>2
  <1> QED
    BY <1>1, <1>2, <1>3 DEF Url

(* What makes a configuration. *)
LEMMA ConfigOf ==
    ASSUME NEW d \in Names, NEW N \in SUBSET Names, NEW r \in [N -> Urls], d \in N
    PROVE  [default |-> d, repos |-> r] \in Config
  BY DEF Config

(* A command makes at most one configuration of the one it is given. *)
LEMMA RepoCommandIs ==
    ASSUME NEW op \in Ops, NEW c \in Config
    PROVE  \/ RepoCommand(op, c) = {}
           \/ \E d \in Config : RepoCommand(op, c) = {d}
  <1>1. op.name \in Names
    BY OpsAssumption
  <1>2. /\ c = [default |-> c.default, repos |-> c.repos]
        /\ c.default \in Names /\ c.default \in DOMAIN c.repos /\ DOMAIN c.repos \subseteq Names
        /\ c.repos \in [DOMAIN c.repos -> Urls]
    BY ConfigIs
  <1> DEFINE N == DOMAIN c.repos
  <1>3. CASE op.what = "add"
    <2> DEFINE r == [n \in N \cup {op.name} |-> IF n = op.name THEN op.url ELSE c.repos[n]]
    <2>1. CASE op.url \in Urls /\ op.name \notin N
      <3>1. RepoCommand(op, c) = {[c EXCEPT !.repos = r]}
        BY <1>3, <2>1 DEF RepoCommand
      <3>2. [c EXCEPT !.repos = r] = [default |-> c.default, repos |-> r]
        BY <1>2
      <3>3. r \in [N \cup {op.name} -> Urls] /\ N \cup {op.name} \in SUBSET Names
        BY <1>1, <1>2, <2>1
      <3>4. [default |-> c.default, repos |-> r] \in Config
        BY <1>2, <3>3, ConfigOf
      <3> QED
        BY <3>1, <3>2, <3>4
    <2>2. CASE ~(op.url \in Urls /\ op.name \notin N)
      BY <1>3, <2>2 DEF RepoCommand
    <2> QED
      BY <2>1, <2>2
  <1>4. CASE op.what = "remove"
    <2> DEFINE r == [n \in N \ {op.name} |-> c.repos[n]]
    <2>1. CASE op.name \in N \ {c.default}
      <3>1. RepoCommand(op, c) = {[c EXCEPT !.repos = r]}
        BY <1>4, <2>1 DEF RepoCommand
      <3>2. [c EXCEPT !.repos = r] = [default |-> c.default, repos |-> r]
        BY <1>2
      <3>3. r \in [N \ {op.name} -> Urls] /\ N \ {op.name} \in SUBSET Names /\ c.default \in N \ {op.name}
        BY <1>1, <1>2, <2>1
      <3>4. [default |-> c.default, repos |-> r] \in Config
        BY <1>2, <3>3, ConfigOf
      <3> QED
        BY <3>1, <3>2, <3>4
    <2>2. CASE ~(op.name \in N \ {c.default})
      BY <1>4, <2>2 DEF RepoCommand
    <2> QED
      BY <2>1, <2>2
  <1>5. CASE op.what = "update"
    <2> DEFINE r == [c.repos EXCEPT ![op.name] = op.url]
    <2>1. CASE op.url \in Urls /\ op.name \in N
      <3>1. RepoCommand(op, c) = {[c EXCEPT !.repos = r]}
        BY <1>5, <2>1 DEF RepoCommand
      <3>2. [c EXCEPT !.repos = r] = [default |-> c.default, repos |-> r]
        BY <1>2
      <3>3. r \in [N -> Urls]
        BY <1>2, <2>1
      <3>4. [default |-> c.default, repos |-> r] \in Config
        BY <1>2, <3>3, ConfigOf
      <3> QED
        BY <3>1, <3>2, <3>4
    <2>2. CASE ~(op.url \in Urls /\ op.name \in N)
      BY <1>5, <2>2 DEF RepoCommand
    <2> QED
      BY <2>1, <2>2
  <1>6. CASE op.what = "set-default"
    <2>1. CASE op.name \in N
      <3>1. RepoCommand(op, c) = {[c EXCEPT !.default = op.name]}
        BY <1>6, <2>1 DEF RepoCommand
      <3>2. [c EXCEPT !.default = op.name] = [default |-> op.name, repos |-> c.repos]
        BY <1>2
      <3>3. [default |-> op.name, repos |-> c.repos] \in Config
        BY <1>1, <1>2, <2>1, ConfigOf
      <3> QED
        BY <3>1, <3>2, <3>3
    <2>2. CASE op.name \notin N
      BY <1>6, <2>2 DEF RepoCommand
    <2> QED
      BY <2>1, <2>2
  <1>7. CASE op.what \notin {"add", "remove", "update", "set-default"}
    BY <1>7 DEF RepoCommand
  <1> QED
    BY <1>3, <1>4, <1>5, <1>6, <1>7

-----------------------------------------------------------------------------
(* The start                                                               *)

(* No daemon runs, nothing has happened. *)
LEMMA InitIInv == Init => IInv
  <1> SUFFICES ASSUME Init PROVE IInv
    OBVIOUS
  <1>1. /\ yaml \in [state : {"absent", "torn", "whole"}, cfg : Config]
        /\ remotes \in [Names -> Urls \cup {NoUrl}]
        /\ spent \in 0..MaxFaults
    <2>1. yaml \in {[state |-> "absent", cfg |-> Shipped]} \cup [state : {"whole"}, cfg : Saved]
          /\ remotes = [n \in Names |-> NoUrl] /\ spent = 0
      BY DEF Init, ConfigInit
    <2> QED
      BY <2>1, ConfigAssumption, MaxFaultsAssumption
  <1>2. daemon = Down /\ Down \in DaemonRecord
    BY ConfigAssumption DEF Init, ConfigInit, Down, DaemonRecord
  <1>3. clients \in [Clients -> ClientRecord] /\ \A c \in Clients : clients[c].pc = "idle"
    <2>1. clients \in [Clients -> {[pc |-> "idle", op |-> op, base |-> Shipped, new |-> Shipped] : op \in Ops}]
      BY DEF Init, ConfigInit
    <2>2. \A x \in {[pc |-> "idle", op |-> op, base |-> Shipped, new |-> Shipped] : op \in Ops} :
             x \in ClientRecord /\ x.pc = "idle"
      BY ConfigAssumption DEF ClientRecord
    <2> QED
      BY <2>1, <2>2
  <1>4. store \in StoreRecord /\ store.refs = {} /\ store.share # "moved" /\ store.version \in WrittenBy
    <2>1. PICK v \in WrittenBy, r \in BOOLEAN :
            store = [version |-> v, repo |-> r, refs |-> {}, links |-> {}, share |-> IF r THEN "kept" ELSE "none"]
      BY DEF Init, ConfigInit
    <2> QED
      BY <2>1 DEF StoreRecord
  <1>5. store.version # <<>>
    BY <1>4, VersionsAssumption
  <1>6. hist \in HistRecord /\ hist.allowed = {yaml.cfg} /\ hist.marks = {}
    <2>1. hist = [allowed |-> {yaml.cfg}, serial |-> yaml.cfg, marks |-> {}, cuts |-> 0]
      BY DEF Init, ConfigInit
    <2> QED
      BY <1>1, <2>1 DEF HistRecord
  <1>7. daemon.pc = "down" /\ daemon.client = NoClient /\ daemon.new = daemon.cfg
    BY <1>2 DEF Down
  <1>8. ~daemon.back
    BY <1>2 DEF Down
  <1>9. Types
    BY <1>1, <1>2, <1>3, <1>4, <1>6 DEF Types
  <1>10. CallInv
    BY <1>7, <1>8 DEF CallInv, Setting
  <1>11. ClientsInv
    BY <1>3, <1>7 DEF ClientsInv, Setting
  <1>12. FileInv
    <2>1. loadConfig = yaml.cfg
      BY DEF Init, ConfigInit, loadConfig
    <2> QED
      BY <1>6, <1>7, <2>1 DEF FileInv, LoadsOldOrNew, Setting
  <1>13. RemoteInv
    BY <1>7 DEF RemoteInv, Setting
  <1>14. MigrationInv
    BY <1>4, <1>5, <1>6, <1>7 DEF MigrationInv, Opened
  <1>15. AskInv
    BY DEF AskInv, Init, Idle
  <1> QED
    BY <1>9, <1>10, <1>11, <1>12, <1>13, <1>14, <1>15 DEF IInv, ConfigInv

-----------------------------------------------------------------------------
(* What most steps leave alone                                             *)

(* A step of the start: the configuration, the file and the remote are not *)
(* touched, and the daemon gets no further than its remote allows.         *)
LEMMA StartupKeeps ==
    ASSUME CallInv, ClientsInv, FileInv, RemoteInv, yaml' = yaml, remotes' = remotes, clients' = clients,
           daemon'.cfg = daemon.cfg, daemon'.server = daemon.server, daemon'.new = daemon.new,
           daemon'.client = daemon.client, daemon'.back = daemon.back,
           daemon.pc # "down", daemon'.pc \notin {"open", "write", "rebuild"}, ~Setting,
           daemon'.pc \in {"cache", "export", "rename", "register", "up"} =>
             daemon.pc \in {"cache", "export", "rename", "register"},
           daemon'.pc = "up" => ~daemon'.failed,
           hist'.allowed = hist.allowed, hist'.serial = hist.serial, hist.marks \subseteq hist'.marks,
           "torn" \in hist'.marks => "torn" \in hist.marks
    PROVE  CallInv' /\ ClientsInv' /\ FileInv' /\ RemoteInv'
  <1>1. ~Setting'
    BY DEF Setting
  <1>2. CallInv'
    BY <1>1 DEF CallInv
  <1>3. ClientsInv'
    BY <1>1 DEF ClientsInv
  <1>4. FileInv'
    <2>1. daemon.pc # "write"
      BY DEF CallInv
    <2> QED
      BY <1>1, <2>1 DEF FileInv, FileIsOf, LoadsOldOrNew, Spoilt, At, loadConfig
  <1>5. RemoteInv'
    BY <1>1 DEF RemoteInv, RemoteIsOf
  <1> QED
    BY <1>2, <1>3, <1>4, <1>5

(* The daemon is gone; a call it was in has failed. *)
LEMMA DownKeeps ==
    ASSUME ClientsInv, FileInv, daemon' = Down, yaml' = yaml,
           \A c \in Clients : clients'[c] = clients[c] \/ clients'[c].pc = "ended",
           hist'.allowed = hist.allowed, hist.marks \subseteq hist'.marks,
           daemon.pc = "write" => "torn" \in hist'.marks,
           "torn" \in hist'.marks => "torn" \in hist.marks \/ daemon.pc = "write"
    PROVE  CallInv' /\ ClientsInv' /\ FileInv' /\ RemoteInv'
  <1>1. daemon'.pc = "down" /\ daemon'.client = NoClient /\ daemon'.new = daemon'.cfg
    BY DEF Down
  <1>2. ~daemon'.back
    BY DEF Down
  <1>3. ~Setting'
    BY <1>1 DEF Setting
  <1>4. CallInv'
    BY <1>1, <1>2, <1>3 DEF CallInv
  <1>5. ClientsInv'
    BY <1>1, <1>3 DEF ClientsInv
  <1>6. FileInv'
    BY <1>1, <1>3 DEF FileInv, LoadsOldOrNew, Spoilt, At, loadConfig
  <1>7. RemoteInv'
    BY <1>1, <1>3 DEF RemoteInv
  <1> QED
    BY <1>4, <1>5, <1>6, <1>7

(* A step that has nothing to do with the migration. *)
LEMMA MigrationKept ==
    ASSUME MigrationInv, Types, Types', store'.version = store.version, store'.refs = store.refs, store'.links = store.links,
           store.repo => store'.repo,
           store'.share = "moved" => store.share = "moved" \/ daemon'.pc = "rename",
           daemon.pc = "rename" => store'.share # "moved" \/ "share" \in hist'.marks,
           daemon.pc \notin {"link", "stamp", "stamping"}, daemon'.pc \notin {"link", "stamp", "stamping"},
           daemon'.pc \in Opened /\ ~daemon'.failed =>
             (daemon.pc \in Opened /\ ~daemon.failed) \/ store.version \in {ThisVersion, <<>>},
           hist'.cuts = hist.cuts, hist.marks \cap {"share", "version"} \subseteq hist'.marks,
           "version" \in hist'.marks => "version" \in hist.marks
    PROVE  MigrationInv'
  <1>1. BeingLinked = {} /\ BeingLinked' = {} /\ Unlinked' = Unlinked
    BY DEF BeingLinked, Unlinked
  <1>2. store'.share = "moved" => daemon'.pc = "rename" \/ "share" \in hist'.marks
    BY DEF MigrationInv
  <1>3. store'.version = <<>> <=> "version" \in hist'.marks
    BY DEF MigrationInv
  <1>4. daemon'.pc \in Opened /\ ~daemon'.failed => store'.version \in {ThisVersion, <<>>}
    BY DEF MigrationInv
  <1>5. store'.refs # {} => /\ store'.repo
                            /\ \/ store'.version \in {ThisVersion, <<>>}
                               \/ MigrateBefore(store'.version, <<1, 7, 0>>)
                            /\ Unlinked' \subseteq BeingLinked' \/ hist'.cuts >= 1
    BY <1>1 DEF MigrationInv
  <1>6. \/ store'.refs = {}
        \/ ~(daemon'.pc \in {"link", "stamp", "stamping"} \/ store'.version \in {ThisVersion, <<>>})
        \/ \E l : Unlinked' \ BeingLinked' \subseteq {l}
    BY <1>1 DEF MigrationInv
  <1> QED
    BY <1>2, <1>3, <1>4, <1>5, <1>6 DEF MigrationInv, MigrateBefore

-----------------------------------------------------------------------------
(* The start of the daemon                                                 *)

(* The daemon goes on with the configuration it has. *)
SameCall ==
    /\ daemon'.cfg = daemon.cfg /\ daemon'.server = daemon.server /\ daemon'.new = daemon.new
    /\ daemon'.client = daemon.client /\ daemon'.back = daemon.back

(* The daemon loads what the file holds. *)
LEMMA LoadInv ==
    ASSUME ConfigInv, Load
    PROVE  ConfigInv'
  <1>1. /\ daemon.pc = "down" /\ yaml' = yaml /\ remotes' = remotes /\ clients' = clients /\ store' = store
        /\ spent' = spent
    BY DEF Load, At
  <1>2. loadConfig \in Config /\ FileIsOf(loadConfig)
    BY ConfigAssumption DEF loadConfig, ConfigInv, Types, FileIsOf
  <1>3. /\ daemon'.pc = "migrate" /\ daemon'.cfg = loadConfig /\ daemon'.new = loadConfig
        /\ daemon'.server = Url(loadConfig) /\ daemon'.client = NoClient /\ daemon'.todo = {}
    BY DEF Load, Down
  <1>4. ~daemon'.back /\ ~daemon'.failed
    BY DEF Load, Down
  <1>5. daemon' \in DaemonRecord
    <2>1. Down \in DaemonRecord
      BY ConfigAssumption DEF Down, DaemonRecord
    <2>2. Url(loadConfig) \in Urls
      BY <1>2, ConfigIs
    <2> QED
      BY <1>2, <2>1, <2>2 DEF Load, DaemonRecord
  <1>6. /\ hist' \in HistRecord /\ hist'.allowed = {loadConfig} /\ hist'.marks = hist.marks \ {"torn", "unrolled"}
        /\ hist'.cuts = hist.cuts /\ hist'.serial = loadConfig
    <2>1. hist \in HistRecord
      BY DEF ConfigInv, Types
    <2>2. PICK a \in SUBSET Config, m \in SUBSET Marks :
            a = {loadConfig} /\ m = hist.marks \ {"torn", "unrolled"}
      BY <1>2, <2>1 DEF HistRecord
    <2>3. hist' = [hist EXCEPT !.serial = loadConfig, !.allowed = a, !.marks = m]
      BY <2>1, <2>2 DEF Load, HistRecord
    <2> QED
      BY <1>2, <2>1, <2>2, <2>3 DEF HistRecord
  <1>7. Types'
    BY <1>1, <1>5, <1>6 DEF ConfigInv, Types
  <1>8. ~Setting'
    BY <1>3 DEF Setting
  <1>9. CallInv'
    BY <1>3, <1>4, <1>8 DEF CallInv
  <1>10. ClientsInv'
    BY <1>1, <1>3, <1>6, <1>8 DEF ConfigInv, ClientsInv
  <1>11. FileInv'
    BY <1>1, <1>2, <1>3, <1>6, <1>8 DEF ConfigInv, FileInv, LoadsOldOrNew, Spoilt, At, loadConfig, FileIsOf
  <1>12. RemoteInv'
    BY <1>3, <1>8 DEF RemoteInv
  <1>13. MigrationInv'
    BY <1>1, <1>3, <1>6, <1>7, MigrationKept DEF ConfigInv, Opened
  <1> QED
    BY <1>7, <1>9, <1>10, <1>11, <1>12, <1>13 DEF ConfigInv

(* A step of the start with the migration proved for it. *)
LEMMA StartupInv ==
    ASSUME ConfigInv, Types', MigrationInv', yaml' = yaml, remotes' = remotes, clients' = clients,
           daemon'.cfg = daemon.cfg, daemon'.server = daemon.server, daemon'.new = daemon.new,
           daemon'.client = daemon.client, daemon'.back = daemon.back,
           daemon.pc # "down", daemon'.pc \notin {"open", "write", "rebuild"}, ~Setting,
           daemon'.pc \in {"cache", "export", "rename", "register", "up"} =>
             daemon.pc \in {"cache", "export", "rename", "register"},
           daemon'.pc = "up" => ~daemon'.failed,
           hist'.allowed = hist.allowed, hist'.serial = hist.serial, hist.marks \subseteq hist'.marks,
           "torn" \in hist'.marks => "torn" \in hist.marks
    PROVE  ConfigInv'
  BY StartupKeeps DEF ConfigInv

(* Nothing is set while the daemon starts. *)
LEMMA NotSetting ==
    ASSUME ConfigInv, daemon.pc \notin {"open", "write", "delete", "add", "rebuild"}
    PROVE  ~Setting
  BY DEF ConfigInv, CallInv

(* An emptied .version is not one that parseVersion takes. *)
LEMMA EmptyIsNoVersion ==
    ASSUME NEW v, parseVersion(v)
    PROVE  v # <<>>
  <1>1. Len(<<>>) = 0
    OBVIOUS
  <1> QED
    BY <1>1 DEF parseVersion

(* tryMigrate: nothing to do, a version it cannot read, no old repository, *)
(* or the refs of one.                                                     *)
LEMMA TryMigrateInv ==
    ASSUME ConfigInv, tryMigrate
    PROVE  ConfigInv'
  <1>1. /\ daemon.pc = "migrate" /\ yaml' = yaml /\ remotes' = remotes /\ clients' = clients /\ hist' = hist
    BY DEF tryMigrate, At
  <1>2. ~Setting /\ BeingLinked = {}
    BY <1>1, NotSetting DEF BeingLinked
  <1>3. daemon \in DaemonRecord /\ store \in StoreRecord /\ spent \in 0..MaxFaults /\ MaxFaults \in Nat
        /\ daemon.cfg \in Config /\ store.refs \subseteq Names \X Layers
    BY MaxFaultsAssumption DEF ConfigInv, Types, DaemonRecord, StoreRecord
  <1>4. CASE /\ store' = store /\ spent' \in {spent, spent + 1} /\ spent' \in 0..MaxFaults
             /\ \/ daemon' = [daemon EXCEPT !.pc = "opening"] /\ store.version = ThisVersion
                \/ daemon' = [daemon EXCEPT !.pc = "opening", !.failed = TRUE]
    <2>1. /\ daemon' \in DaemonRecord /\ daemon'.pc = "opening" /\ daemon'.cfg = daemon.cfg
          /\ daemon'.server = daemon.server /\ daemon'.new = daemon.new /\ daemon'.client = daemon.client
          /\ daemon'.back = daemon.back
      BY <1>3, <1>4 DEF DaemonRecord
    <2>2. ~daemon'.failed => store.version = ThisVersion
      BY <1>3, <1>4 DEF DaemonRecord
    <2>3. Types'
      BY <1>1, <1>4, <2>1 DEF ConfigInv, Types
    <2>5. MigrationInv'
      BY <1>1, <1>4, <2>1, <2>2, <2>3, MigrationKept DEF ConfigInv
    <2> QED
      BY <1>1, <1>2, <2>1, <2>3, <2>5, StartupInv
  <1>5. CASE /\ parseVersion(store.version) /\ store.version # ThisVersion
             /\ ~store.repo \/ ~MigrateBefore(store.version, <<1, 7, 0>>)
             /\ daemon' = [daemon EXCEPT !.pc = "stamp"] /\ UNCHANGED <<store, spent>>
    <2>1. /\ daemon' \in DaemonRecord /\ daemon'.pc = "stamp" /\ daemon'.cfg = daemon.cfg
          /\ daemon'.server = daemon.server /\ daemon'.new = daemon.new /\ daemon'.client = daemon.client
          /\ daemon'.back = daemon.back
      BY <1>3, <1>5 DEF DaemonRecord
    <2>2. Types'
      BY <1>1, <1>5, <2>1 DEF ConfigInv, Types
    <2>3. store.version # <<>>
      BY <1>5, EmptyIsNoVersion
    <2>4. store.refs = {}
      BY <1>5, <2>3 DEF ConfigInv, MigrationInv
    <2>5. MigrationInv'
      BY <1>1, <1>5, <2>1, <2>3, <2>4 DEF ConfigInv, MigrationInv, Opened
    <2> QED
      BY <1>1, <1>2, <2>1, <2>2, <2>5, StartupInv
  <1>6. ASSUME NEW first \in Layers, NEW need, need = NeedMigrate(daemon.cfg.default, first),
               parseVersion(store.version), store.version # ThisVersion, store.repo,
               MigrateBefore(store.version, <<1, 7, 0>>),
               daemon' = [daemon EXCEPT !.pc = IF need = {} THEN "stamp" ELSE "link", !.todo = need],
               store' = [store EXCEPT !.refs = @ \cup {<<daemon.cfg.default, l>> : l \in need}], spent' = spent
        PROVE  ConfigInv'
    <2>1. need \subseteq Layers /\ Layers \ need \subseteq {first} /\ (store.refs = {} => need = Layers)
      BY <1>6 DEF NeedMigrate
    <2>2. /\ daemon' \in DaemonRecord /\ daemon'.pc = (IF need = {} THEN "stamp" ELSE "link") /\ daemon'.cfg = daemon.cfg
          /\ daemon'.server = daemon.server /\ daemon'.new = daemon.new /\ daemon'.client = daemon.client
          /\ daemon'.back = daemon.back /\ daemon'.todo = need
      BY <1>3, <1>6, <2>1 DEF DaemonRecord
    <2>3. {<<daemon.cfg.default, l>> : l \in need} \subseteq Names \X Layers
      <3>1. daemon.cfg.default \in Names
        BY <1>3, ConfigIs
      <3> QED
        BY <2>1, <3>1
    <2>4. /\ store' \in StoreRecord /\ store'.version = store.version /\ store'.repo = store.repo
          /\ store'.links = store.links /\ store'.share = store.share
          /\ store'.refs = store.refs \cup {<<daemon.cfg.default, l>> : l \in need}
      <3> DEFINE more == {<<daemon.cfg.default, l>> : l \in need}
      <3>1. store.refs \cup more \in SUBSET (Names \X Layers)
        BY <1>3, <2>3
      <3>2. store' = [store EXCEPT !.refs = store.refs \cup more]
        BY <1>3, <1>6 DEF StoreRecord
      <3> HIDE DEF more
      <3>3. /\ store' \in StoreRecord /\ store'.version = store.version /\ store'.repo = store.repo
            /\ store'.links = store.links /\ store'.share = store.share
            /\ store'.refs = store.refs \cup more
        BY <1>3, <3>1, <3>2 DEF StoreRecord
      <3> QED
        BY <3>3 DEF more
    <2>5. Types'
      BY <1>1, <1>6, <2>2, <2>4 DEF ConfigInv, Types
    <2>6. BeingLinked' = need /\ Unlinked' = Unlinked /\ Unlinked \subseteq Layers
      BY <2>2, <2>4 DEF BeingLinked, Unlinked
    <2>7. store.version # <<>>
      BY <1>6, EmptyIsNoVersion
    <2>8. (need # {} => store'.refs # {}) /\ (need = {} => store'.refs = store.refs)
      BY <2>4
    <2>9. Unlinked' \subseteq BeingLinked' \/ hist'.cuts >= 1 \/ store'.refs = {}
      <3>1. CASE store.refs = {}
        BY <2>1, <2>6, <3>1
      <3>2. CASE store.refs # {}
        BY <1>1, <1>2, <2>6, <3>2 DEF ConfigInv, MigrationInv
      <3> QED
        BY <3>1, <3>2
    <2>10. Unlinked' \ BeingLinked' \subseteq {first}
      BY <2>1, <2>6
    <2>11. store'.share = "moved" => "share" \in hist'.marks
      BY <1>1, <2>4 DEF ConfigInv, MigrationInv
    <2>12. MigrateBefore(store'.version, <<1, 7, 0>>)
      BY <1>6, <2>4
    <2>13. daemon'.pc \notin Opened /\ (daemon'.pc = "link" => store'.refs # {} /\ store'.version # ThisVersion)
      BY <1>6, <2>2, <2>4, <2>8 DEF Opened
    <2>14. "version" \notin hist'.marks
      BY <1>1, <2>7 DEF ConfigInv, MigrationInv
    <2>15. MigrationInv'
      BY <1>6, <2>2, <2>4, <2>7, <2>9, <2>10, <2>11, <2>12, <2>13, <2>14 DEF MigrationInv, MigrateBefore
    <2> QED
      BY <1>1, <1>2, <2>2, <2>5, <2>15, StartupInv
  <1>7. ASSUME May("ostree"), spent' = spent + 1
        PROVE  spent' \in 0..MaxFaults
    BY <1>3, <1>7 DEF May
  <1>8. \/ /\ store.version = ThisVersion /\ daemon' = [daemon EXCEPT !.pc = "opening"]
           /\ store' = store /\ spent' = spent
        \/ /\ daemon' = [daemon EXCEPT !.pc = "opening", !.failed = TRUE]
           /\ store' = store /\ spent' = spent
        \/ /\ parseVersion(store.version) /\ store.version # ThisVersion
           /\ ~store.repo \/ ~MigrateBefore(store.version, <<1, 7, 0>>)
           /\ daemon' = [daemon EXCEPT !.pc = "stamp"] /\ UNCHANGED <<store, spent>>
        \/ \E first \in Layers :
             /\ parseVersion(store.version) /\ store.version # ThisVersion
             /\ store.repo /\ MigrateBefore(store.version, <<1, 7, 0>>)
             /\ LET need == NeedMigrate(daemon.cfg.default, first)
                IN  \/ /\ daemon' = [daemon EXCEPT !.pc = IF need = {} THEN "stamp" ELSE "link",
                                                   !.todo = need]
                       /\ store' = [store EXCEPT !.refs = @ \cup {<<daemon.cfg.default, l>> : l \in need}]
                       /\ spent' = spent
                    \/ /\ May("ostree")
                       /\ daemon' = [daemon EXCEPT !.pc = "opening", !.failed = TRUE]
                       /\ spent' = spent + 1
                       /\ store' = store
    BY Zenon DEF tryMigrate, Goto
  <1> QED
    BY <1>3, <1>4, <1>5, <1>6, <1>7, <1>8

(* A link is made, all are made, or the migration is cut short. *)
LEMMA LinkLayerInv ==
    ASSUME ConfigInv, LinkLayer
    PROVE  ConfigInv'
  <1>1. daemon.pc = "link" /\ yaml' = yaml /\ remotes' = remotes /\ clients' = clients
    BY DEF LinkLayer, At
  <1>2. ~Setting /\ BeingLinked = daemon.todo
    BY <1>1, NotSetting DEF BeingLinked
  <1>3. /\ daemon \in DaemonRecord /\ store \in StoreRecord /\ spent \in 0..MaxFaults /\ MaxFaults \in Nat
        /\ hist \in HistRecord
    BY MaxFaultsAssumption DEF ConfigInv, Types
  <1>4. /\ store.refs # {} /\ store.version \notin {ThisVersion, <<>>}
        /\ "version" \notin hist.marks
        /\ store.repo
        /\ MigrateBefore(store.version, <<1, 7, 0>>)
        /\ Unlinked \subseteq daemon.todo \/ hist.cuts >= 1
    BY <1>1, <1>2 DEF ConfigInv, MigrationInv
  <1>5. store.share = "moved" => "share" \in hist.marks
    BY <1>1 DEF ConfigInv, MigrationInv
  <1>6. PICK k : Unlinked \ daemon.todo \subseteq {k}
    BY <1>1, <1>2, <1>4 DEF ConfigInv, MigrationInv
  <1>7. CASE daemon.todo = {} /\ daemon' = [daemon EXCEPT !.pc = "stamp"] /\ UNCHANGED <<store, spent, hist>>
    <2>1. daemon' \in DaemonRecord /\ daemon'.pc = "stamp" /\ SameCall
      BY <1>3, <1>7 DEF DaemonRecord, SameCall
    <2>2. Types'
      BY <1>1, <1>7, <2>1 DEF ConfigInv, Types
    <2>3. BeingLinked' = {} /\ Unlinked' = Unlinked
      BY <1>7, <2>1 DEF BeingLinked, Unlinked
    <2>4. MigrationInv'
      BY <1>4, <1>5, <1>6, <1>7, <2>1, <2>3 DEF MigrationInv, MigrateBefore, Opened
    <2> QED
      BY <1>1, <1>2, <1>7, <2>1, <2>2, <2>4, StartupInv DEF SameCall
  <1>8. ASSUME NEW l \in daemon.todo, daemon' = [daemon EXCEPT !.todo = @ \ {l}],
               store' = IF l \in Homeless THEN store ELSE [store EXCEPT !.links = @ \cup {l}],
               UNCHANGED <<spent, hist>>
        PROVE  ConfigInv'
    <2>1. daemon' \in DaemonRecord /\ daemon'.pc = "link" /\ daemon'.todo = daemon.todo \ {l} /\ SameCall
      BY <1>1, <1>3, <1>8 DEF DaemonRecord, SameCall
    <2>2. l \in Layers
      BY <1>3 DEF DaemonRecord
    <2>3. /\ store' \in StoreRecord /\ store'.version = store.version /\ store'.refs = store.refs
          /\ store'.share = store.share
          /\ store'.links = IF l \in Homeless THEN store.links ELSE store.links \cup {l}
      BY <1>3, <1>8, <2>2 DEF StoreRecord
    <2>4. store'.repo
      BY <1>3, <1>4, <1>8 DEF StoreRecord
    <2>5. Types'
      BY <1>1, <1>8, <2>1, <2>3 DEF ConfigInv, Types
    <2>6. BeingLinked' = daemon.todo \ {l} /\ Unlinked' = Unlinked \ {l}
      BY <2>1, <2>3 DEF BeingLinked, Unlinked
    <2>7. Unlinked' \ BeingLinked' \subseteq {k}
      BY <1>6, <2>6
    <2>8. Unlinked' \subseteq BeingLinked' \/ hist'.cuts >= 1
      BY <1>4, <1>8, <2>6
    <2>9. MigrationInv'
      BY <1>4, <1>5, <1>8, <2>1, <2>3, <2>4, <2>7, <2>8 DEF MigrationInv, MigrateBefore, Opened
    <2> QED
      BY <1>1, <1>2, <1>8, <2>1, <2>5, <2>9, StartupInv DEF SameCall
  <1>9. CASE /\ daemon.todo # {} /\ May("link")
             /\ daemon' = [daemon EXCEPT !.pc = "opening", !.failed = TRUE, !.todo = {}]
             /\ hist' = [hist EXCEPT !.cuts = @ + 1]
             /\ spent' = spent + 1 /\ store' = store
    <2>1. daemon' \in DaemonRecord /\ daemon'.pc = "opening" /\ SameCall
      BY <1>3, <1>9 DEF DaemonRecord, SameCall
    <2>2. daemon'.failed
      BY <1>3, <1>9 DEF DaemonRecord
    <2>3. /\ hist' \in HistRecord /\ hist'.cuts >= 1 /\ hist'.marks = hist.marks
          /\ hist'.allowed = hist.allowed /\ hist'.serial = hist.serial
      BY <1>3, <1>9 DEF HistRecord
    <2>4. spent' \in 0..MaxFaults
      BY <1>3, <1>9 DEF May
    <2>5. Types'
      BY <1>1, <1>9, <2>1, <2>3, <2>4 DEF ConfigInv, Types
    <2>6. MigrationInv'
      BY <1>4, <1>5, <1>9, <2>1, <2>2, <2>3 DEF MigrationInv, MigrateBefore
    <2> QED
      BY <1>1, <1>2, <1>9, <2>1, <2>3, <2>5, <2>6, StartupInv DEF SameCall
  <1>10. \/ daemon.todo = {} /\ daemon' = [daemon EXCEPT !.pc = "stamp"] /\ UNCHANGED <<store, spent, hist>>
         \/ \E l \in daemon.todo :
              /\ daemon' = [daemon EXCEPT !.todo = @ \ {l}]
              /\ store' = IF l \in Homeless THEN store ELSE [store EXCEPT !.links = @ \cup {l}]
              /\ UNCHANGED <<spent, hist>>
         \/ /\ daemon.todo # {} /\ May("link")
            /\ daemon' = [daemon EXCEPT !.pc = "opening", !.failed = TRUE, !.todo = {}]
            /\ hist' = [hist EXCEPT !.cuts = @ + 1]
            /\ spent' = spent + 1 /\ store' = store
    BY Zenon DEF LinkLayer, Goto
  <1> QED
    BY <1>7, <1>8, <1>9, <1>10

(* .version is emptied, or cannot be opened. *)
LEMMA OpenVersionInv ==
    ASSUME ConfigInv, OpenVersion
    PROVE  ConfigInv'
  <1>1. daemon.pc = "stamp" /\ yaml' = yaml /\ remotes' = remotes /\ clients' = clients /\ hist' = hist
    BY DEF OpenVersion, At
  <1>2. ~Setting /\ BeingLinked = {}
    BY <1>1, NotSetting DEF BeingLinked
  <1>3. daemon \in DaemonRecord /\ store \in StoreRecord /\ spent \in 0..MaxFaults /\ MaxFaults \in Nat
    BY MaxFaultsAssumption DEF ConfigInv, Types
  <1>4. (store.share = "moved" => "share" \in hist.marks) /\ "version" \notin hist.marks /\ store.version # <<>>
    BY <1>1 DEF ConfigInv, MigrationInv
  <1>5. store.refs # {} => store.repo /\ (Unlinked = {} \/ hist.cuts >= 1) /\ \E l : Unlinked \subseteq {l}
    BY <1>1, <1>2 DEF ConfigInv, MigrationInv
  <1>6. CASE /\ daemon' = [daemon EXCEPT !.pc = "stamping"] /\ spent' = spent
             /\ store' = [store EXCEPT !.version = <<>>]
    <2>1. daemon' \in DaemonRecord /\ daemon'.pc = "stamping" /\ SameCall
      BY <1>3, <1>6 DEF DaemonRecord, SameCall
    <2>2. /\ store' \in StoreRecord /\ store'.version = <<>> /\ store'.refs = store.refs
          /\ store'.share = store.share /\ store'.links = store.links
      BY <1>3, <1>6 DEF StoreRecord
    <2>3. store.repo => store'.repo
      BY <1>3, <1>6 DEF StoreRecord
    <2>4. Types'
      BY <1>1, <1>6, <2>1, <2>2 DEF ConfigInv, Types
    <2>5. BeingLinked' = {} /\ Unlinked' = Unlinked
      BY <2>1, <2>2 DEF BeingLinked, Unlinked
    <2>6. MigrationInv'
      BY <1>1, <1>4, <1>5, <2>1, <2>2, <2>3, <2>5 DEF MigrationInv, Opened
    <2> QED
      BY <1>1, <1>2, <2>1, <2>4, <2>6, StartupInv DEF SameCall
  <1>7. CASE /\ May("disk") /\ daemon' = [daemon EXCEPT !.pc = "opening", !.failed = TRUE]
             /\ spent' = spent + 1 /\ store' = store
    <2>1. daemon' \in DaemonRecord /\ daemon'.pc = "opening" /\ SameCall
      BY <1>3, <1>7 DEF DaemonRecord, SameCall
    <2>2. daemon'.failed
      BY <1>3, <1>7 DEF DaemonRecord
    <2>3. spent' \in 0..MaxFaults
      BY <1>3, <1>7 DEF May
    <2>4. Types'
      BY <1>1, <1>7, <2>1, <2>3 DEF ConfigInv, Types
    <2>5. BeingLinked' = {} /\ Unlinked' = Unlinked
      BY <1>7, <2>1 DEF BeingLinked, Unlinked
    <2>6. store.refs # {} => \/ store.version \in {ThisVersion, <<>>}
                                \/ MigrateBefore(store.version, <<1, 7, 0>>)
      BY <1>1 DEF ConfigInv, MigrationInv
    <2>7. MigrationInv'
      BY <1>1, <1>4, <1>5, <1>7, <2>1, <2>2, <2>5, <2>6 DEF MigrationInv, MigrateBefore
    <2> QED
      BY <1>1, <1>2, <2>1, <2>4, <2>7, StartupInv DEF SameCall
  <1> QED
    BY <1>6, <1>7 DEF OpenVersion, Goto

(* One more fault. *)
LEMMA SpentInv ==
    ASSUME ConfigInv, NEW fault, May(fault)
    PROVE  spent + 1 \in 0..MaxFaults
  BY MaxFaultsAssumption DEF ConfigInv, Types, May

(* The migration is through, though .version may stay empty. *)
LEMMA WriteVersionInv ==
    ASSUME ConfigInv, WriteVersion
    PROVE  ConfigInv'
  <1>1. /\ daemon.pc = "stamping" /\ yaml' = yaml /\ remotes' = remotes /\ clients' = clients
        /\ daemon' = [daemon EXCEPT !.pc = "opening"]
    BY DEF WriteVersion, At, Goto
  <1>2. ~Setting /\ BeingLinked = {}
    BY <1>1, NotSetting DEF BeingLinked
  <1>3. daemon \in DaemonRecord /\ store \in StoreRecord /\ hist \in HistRecord
    BY DEF ConfigInv, Types
  <1>4. (store.share = "moved" => "share" \in hist.marks) /\ "version" \notin hist.marks
    BY <1>1 DEF ConfigInv, MigrationInv
  <1>5. store.refs # {} => store.repo /\ (Unlinked = {} \/ hist.cuts >= 1) /\ \E l : Unlinked \subseteq {l}
    BY <1>1, <1>2 DEF ConfigInv, MigrationInv
  <1>6. daemon' \in DaemonRecord /\ daemon'.pc = "opening" /\ SameCall
    BY <1>1, <1>3 DEF DaemonRecord, SameCall
  <1>7. ThisVersion # <<>>
    BY VersionsAssumption, EmptyIsNoVersion DEF parseVersion
  <1>8. CASE store' = [store EXCEPT !.version = ThisVersion] /\ spent' = spent /\ hist' = hist
    <2>1. /\ store' \in StoreRecord /\ store'.version = ThisVersion /\ store'.refs = store.refs
          /\ store'.share = store.share /\ store'.links = store.links
      BY <1>3, <1>8 DEF StoreRecord
    <2>2. store.repo => store'.repo
      BY <1>3, <1>8 DEF StoreRecord
    <2>3. Types'
      BY <1>1, <1>6, <1>8, <2>1 DEF ConfigInv, Types
    <2>4. BeingLinked' = {} /\ Unlinked' = Unlinked
      BY <1>6, <2>1 DEF BeingLinked, Unlinked
    <2>5. MigrationInv'
      BY <1>1, <1>4, <1>5, <1>6, <1>7, <1>8, <2>1, <2>2, <2>4 DEF MigrationInv
    <2> QED
      BY <1>1, <1>2, <1>6, <1>8, <2>3, <2>5, StartupInv DEF SameCall
  <1>9. CASE store' = store /\ May("disk") /\ spent' = spent + 1 /\ hist' = Mark("version")
    <2>1. /\ hist' \in HistRecord /\ hist'.allowed = hist.allowed /\ hist'.serial = hist.serial
          /\ hist'.cuts = hist.cuts /\ hist'.marks = hist.marks \cup {"version"}
      BY <1>3, <1>9 DEF Mark, HistRecord, Marks
    <2>2. Types'
      BY <1>1, <1>6, <1>9, <2>1, SpentInv DEF ConfigInv, Types
    <2>3. BeingLinked' = {} /\ Unlinked' = Unlinked
      BY <1>6, <1>9 DEF BeingLinked, Unlinked
    <2>4. store.version = <<>>
      BY <1>1 DEF ConfigInv, MigrationInv
    <2>5. MigrationInv'
      BY <1>1, <1>4, <1>5, <1>6, <1>7, <1>9, <2>1, <2>3, <2>4 DEF MigrationInv
    <2> QED
      BY <1>1, <1>2, <1>6, <2>1, <2>2, <2>5, StartupInv DEF SameCall
  <1> QED
    BY <1>8, <1>9 DEF WriteVersion

(* The daemon ends outside its migration: what is on the disk stays. *)
LEMMA DownInv ==
    ASSUME ConfigInv, daemon' = Down, yaml' = yaml, remotes' = remotes, store' = store, hist' = hist,
           clients' = clients, spent' \in 0..MaxFaults,
           daemon.pc \notin {"link", "stamp", "stamping", "rename", "write"}
    PROVE  ConfigInv'
  <1>1. Down \in DaemonRecord /\ Down.pc = "down"
    BY ConfigAssumption DEF Down, DaemonRecord
  <1>2. Types'
    BY <1>1 DEF ConfigInv, Types
  <1>3. CallInv' /\ ClientsInv' /\ FileInv' /\ RemoteInv'
    BY DownKeeps DEF ConfigInv
  <1>4. MigrationInv'
    BY <1>1, <1>2, MigrationKept DEF ConfigInv, Opened
  <1> QED
    BY <1>2, <1>3, <1>4 DEF ConfigInv

(* A start goes on, with the migration behind it. *)
LEMMA PcInv ==
    ASSUME ConfigInv, NEW pc, daemon' = [daemon EXCEPT !.pc = pc], ~Setting,
           \/ daemon.pc = "cache" /\ pc = "export"
           \/ daemon.pc = "export" /\ pc \in {"rename", "register"}
           \/ daemon.pc = "rename" /\ pc = "register"
           \/ daemon.pc = "register" /\ pc = "up" /\ ~daemon.failed,
           yaml' = yaml, remotes' = remotes, clients' = clients,
           store' \in StoreRecord, store'.version = store.version, store'.refs = store.refs,
           store'.links = store.links, store.repo => store'.repo,
           store'.share = "moved" => store.share = "moved" \/ pc = "rename",
           daemon.pc = "rename" => store'.share # "moved" \/ "share" \in hist'.marks,
           hist' \in HistRecord, hist'.allowed = hist.allowed, hist'.serial = hist.serial,
           hist'.cuts = hist.cuts, hist.marks \subseteq hist'.marks,
           hist'.marks \subseteq hist.marks \cup {"share"},
           spent' \in 0..MaxFaults
    PROVE  ConfigInv'
  <1>1. daemon \in DaemonRecord
    BY DEF ConfigInv, Types
  <1>2. daemon' \in DaemonRecord /\ daemon'.pc = pc /\ SameCall
    BY <1>1 DEF DaemonRecord, SameCall
  <1>3. daemon'.failed = daemon.failed
    BY <1>1 DEF DaemonRecord
  <1>4. Types'
    BY <1>2 DEF ConfigInv, Types
  <1>5. MigrationInv'
    BY <1>2, <1>3, <1>4, MigrationKept DEF ConfigInv, Opened
  <1> QED
    BY <1>2, <1>3, <1>4, <1>5, StartupInv DEF SameCall

(* The repository is opened or created. *)
LEMMA OpenRepoInv ==
    ASSUME ConfigInv, OpenRepo
    PROVE  ConfigInv'
  <1>1. daemon.pc = "opening" /\ yaml' = yaml /\ remotes' = remotes /\ clients' = clients /\ hist' = hist
    BY DEF OpenRepo, At
  <1>2. ~Setting /\ daemon \in DaemonRecord /\ store \in StoreRecord
    BY <1>1, NotSetting DEF ConfigInv, Types
  <1>3. CASE /\ daemon' = [daemon EXCEPT !.pc = "delete", !.fresh = ~store.repo]
             /\ store' = [store EXCEPT !.repo = TRUE] /\ spent' = spent
    <2>1. PICK f \in BOOLEAN : daemon' = [daemon EXCEPT !.pc = "delete", !.fresh = f]
      BY <1>3, Zenon
    <2>2. daemon' \in DaemonRecord /\ daemon'.pc = "delete" /\ SameCall
      BY <1>2, <2>1 DEF DaemonRecord, SameCall
    <2>3. daemon'.failed = daemon.failed
      BY <1>2, <2>1 DEF DaemonRecord
    <2>4. /\ store' \in StoreRecord /\ store'.version = store.version /\ store'.refs = store.refs
          /\ store'.share = store.share /\ store'.links = store.links
      BY <1>2, <1>3 DEF StoreRecord
    <2>5. store'.repo
      BY <1>2, <1>3 DEF StoreRecord
    <2>6. Types'
      BY <1>1, <1>3, <2>2, <2>4 DEF ConfigInv, Types
    <2>7. MigrationInv'
      BY <1>1, <2>2, <2>3, <2>4, <2>5, <2>6, MigrationKept DEF ConfigInv, Opened
    <2> QED
      BY <1>1, <1>2, <2>2, <2>6, <2>7, StartupInv DEF SameCall
  <1>4. CASE May("ostree") /\ daemon' = Down /\ spent' = spent + 1 /\ store' = store
    BY <1>1, <1>4, SpentInv, DownInv
  <1> QED
    BY <1>3, <1>4 DEF OpenRepo

(* The cache is there, or the program ends. *)
LEMMA CreateCacheInv ==
    ASSUME ConfigInv, CreateCache
    PROVE  ConfigInv'
  <1>1. /\ daemon.pc = "cache" /\ yaml' = yaml /\ remotes' = remotes /\ clients' = clients /\ hist' = hist
        /\ store' = store
    BY DEF CreateCache, At
  <1>2. ~Setting /\ store \in StoreRecord /\ hist \in HistRecord /\ spent \in 0..MaxFaults
    BY <1>1, NotSetting DEF ConfigInv, Types
  <1>3. CASE daemon' = [daemon EXCEPT !.pc = "export"] /\ spent' = spent
    BY <1>1, <1>2, <1>3, PcInv
  <1>4. CASE May("rebuild") /\ daemon' = Down /\ spent' = spent + 1
    BY <1>1, <1>4, SpentInv, DownInv
  <1> QED
    BY <1>3, <1>4 DEF CreateCache, Goto

(* The entries are moved aside, or left. *)
LEMMA ExportAllEntriesInv ==
    ASSUME ConfigInv, exportAllEntries
    PROVE  ConfigInv'
  <1>1. daemon.pc = "export" /\ yaml' = yaml /\ remotes' = remotes /\ clients' = clients /\ hist' = hist
    BY DEF exportAllEntries, At
  <1>2. ~Setting /\ store \in StoreRecord /\ hist \in HistRecord /\ spent \in 0..MaxFaults
    BY <1>1, NotSetting DEF ConfigInv, Types
  <1>3. CASE /\ daemon' = [daemon EXCEPT !.pc = "rename"] /\ store' = [store EXCEPT !.share = "moved"]
             /\ spent' = spent
    <2>1. /\ store' \in StoreRecord /\ store'.version = store.version /\ store'.refs = store.refs
          /\ store'.links = store.links
      BY <1>2, <1>3 DEF StoreRecord
    <2>2. store.repo => store'.repo
      BY <1>2, <1>3 DEF StoreRecord
    <2> QED
      BY <1>1, <1>2, <1>3, <2>1, <2>2, PcInv
  <1>4. CASE daemon' = [daemon EXCEPT !.pc = "register"] /\ store' = store /\ spent' \in 0..MaxFaults
    BY <1>1, <1>2, <1>4, PcInv
  <1> QED
    BY <1>2, <1>3, <1>4, SpentInv DEF exportAllEntries, Goto

(* The new entries are put in their place, or the old ones are lost. *)
LEMMA RenameShareInv ==
    ASSUME ConfigInv, RenameShare
    PROVE  ConfigInv'
  <1>1. /\ daemon.pc = "rename" /\ yaml' = yaml /\ remotes' = remotes /\ clients' = clients
        /\ daemon' = [daemon EXCEPT !.pc = "register"]
    BY DEF RenameShare, At, Goto
  <1>2. ~Setting /\ store \in StoreRecord /\ hist \in HistRecord /\ spent \in 0..MaxFaults
    BY <1>1, NotSetting DEF ConfigInv, Types
  <1>3. CASE store' = [store EXCEPT !.share = "kept"] /\ spent' = spent /\ hist' = hist
    <2>1. /\ store' \in StoreRecord /\ store'.version = store.version /\ store'.refs = store.refs
          /\ store'.links = store.links /\ store'.share = "kept"
      BY <1>2, <1>3 DEF StoreRecord
    <2>2. store.repo => store'.repo
      BY <1>2, <1>3 DEF StoreRecord
    <2> QED
      BY <1>1, <1>2, <1>3, <2>1, <2>2, PcInv
  <1>4. CASE May("disk") /\ spent' = spent + 1 /\ hist' = Mark("share") /\ store' = store
    <2>1. /\ hist' \in HistRecord /\ hist'.allowed = hist.allowed /\ hist'.serial = hist.serial
          /\ hist'.cuts = hist.cuts /\ hist'.marks = hist.marks \cup {"share"}
      BY <1>2, <1>4 DEF Mark, HistRecord, Marks
    <2> QED
      BY <1>1, <1>2, <1>4, <2>1, SpentInv, PcInv
  <1> QED
    BY <1>3, <1>4 DEF RenameShare

(* The daemon serves, or leaves. *)
LEMMA RegisterInv ==
    ASSUME ConfigInv, Register
    PROVE  ConfigInv'
  <1>1. /\ daemon.pc = "register" /\ yaml' = yaml /\ remotes' = remotes /\ clients' = clients /\ hist' = hist
        /\ store' = store
    BY DEF Register, At
  <1>2. ~Setting /\ store \in StoreRecord /\ hist \in HistRecord /\ spent \in 0..MaxFaults
    BY <1>1, NotSetting DEF ConfigInv, Types
  <1>3. CASE ~daemon.failed /\ daemon' = [daemon EXCEPT !.pc = "up"] /\ spent' = spent
    BY <1>1, <1>2, <1>3, PcInv
  <1>4. CASE daemon' = Down /\ spent' \in 0..MaxFaults
    BY <1>1, <1>4, DownInv
  <1>5. \/ daemon.failed /\ daemon' = Down /\ spent' = spent
        \/ ~daemon.failed /\ daemon' = [daemon EXCEPT !.pc = "up"] /\ spent' = spent
        \/ May("bus") /\ daemon' = Down /\ spent' = spent + 1
    BY Zenon DEF Register
  <1> QED
    BY <1>2, <1>3, <1>4, <1>5, SpentInv

-----------------------------------------------------------------------------
(* The clients, and a call of setConfiguration                             *)

(* Calls leave the repository as the start has brought it. *)
LEMMA CallMigration ==
    ASSUME ConfigInv, Types', store' = store,
           daemon.pc \in {"up", "open", "write", "delete", "add", "rebuild"},
           daemon'.pc \in {"cache", "up", "open", "write", "delete", "add", "rebuild"},
           daemon'.failed = daemon.failed,
           hist'.cuts = hist.cuts, hist.marks \cap {"share", "version"} \subseteq hist'.marks,
           "version" \in hist'.marks => "version" \in hist.marks
    PROVE  MigrationInv'
  BY MigrationKept DEF ConfigInv, Opened

(* ll-cli repo reads the configuration and makes another of it, or ends. *)
LEMMA ReadConfigurationInv ==
    ASSUME ConfigInv, NEW c \in Clients, ReadConfiguration(c)
    PROVE  ConfigInv'
  <1>1. /\ daemon.pc = "up" /\ yaml' = yaml /\ remotes' = remotes /\ daemon' = daemon /\ store' = store
        /\ spent' = spent /\ hist' = hist
    BY DEF ReadConfiguration, At
  <1>2. ~Setting /\ ~Setting'
    BY <1>1, NotSetting DEF Setting
  <1>3. /\ clients \in [Clients -> ClientRecord] /\ daemon \in DaemonRecord /\ daemon.cfg \in Config
        /\ clients[c] \in ClientRecord /\ clients[c].op \in Ops
    BY DEF ConfigInv, Types, DaemonRecord, ClientRecord
  <1>4. /\ clients' \in [Clients -> ClientRecord]
        /\ \A x \in Clients \ {c} : clients'[x] = clients[x]
        /\ \/ clients'[c].pc = "ended"
           \/ RepoCommand(clients'[c].op, clients'[c].base) = {clients'[c].new}
    <2>1. CASE clients' = [clients EXCEPT ![c].pc = "ended"]
      BY <1>3, <2>1 DEF ClientRecord
    <2>2. ASSUME NEW new \in RepoCommand(clients[c].op, daemon.cfg),
                 clients' = [clients EXCEPT ![c].pc = "read", ![c].new = new, ![c].base = daemon.cfg]
          PROVE  <1>4!1 /\ <1>4!2 /\ <1>4!3
      <3>1. new \in Config /\ RepoCommand(clients[c].op, daemon.cfg) = {new}
        BY <1>3, RepoCommandIs
      <3>2. /\ clients' \in [Clients -> ClientRecord]
            /\ \A x \in Clients \ {c} : clients'[x] = clients[x]
            /\ clients'[c].op = clients[c].op /\ clients'[c].base = daemon.cfg /\ clients'[c].new = new
        BY <1>3, <2>2, <3>1 DEF ClientRecord
      <3> QED
        BY <3>1, <3>2
    <2> QED
      BY <2>1, <2>2 DEF ReadConfiguration, ClientEnds
  <1>5. Types'
    BY <1>1, <1>4 DEF ConfigInv, Types
  <1>6. ClientsInv'
    BY <1>1, <1>2, <1>4 DEF ConfigInv, ClientsInv
  <1>7. CallInv' /\ RemoteInv'
    BY <1>1, <1>2 DEF ConfigInv, CallInv, RemoteInv, RemoteIsOf
  <1>8. FileInv'
    BY <1>1, <1>2 DEF ConfigInv, FileInv, FileIsOf, LoadsOldOrNew, Spoilt, At, loadConfig
  <1>9. MigrationInv'
    BY <1>1, <1>5, CallMigration
  <1> QED
    BY <1>5, <1>6, <1>7, <1>8, <1>9 DEF ConfigInv

(* The daemon begins to set what the client made. *)
LEMMA SetConfigurationInv ==
    ASSUME ConfigInv, NEW c \in Clients, SetConfiguration(c)
    PROVE  ConfigInv'
  <1>1. /\ daemon.pc = "up" /\ clients[c].pc = "read" /\ yaml' = yaml /\ remotes' = remotes /\ store' = store
        /\ spent' = spent
    BY DEF SetConfiguration, At
  <1>2. ~Setting
    BY <1>1, NotSetting
  <1>3. /\ clients \in [Clients -> ClientRecord] /\ daemon \in DaemonRecord /\ hist \in HistRecord
        /\ clients[c] \in ClientRecord /\ clients[c].new \in Config
    BY DEF ConfigInv, Types, ClientRecord
  <1>4. CASE clients' = [clients EXCEPT ![c].pc = "ended"] /\ UNCHANGED <<daemon, hist>>
    <2>1. /\ clients' \in [Clients -> ClientRecord]
          /\ \A x \in Clients \ {c} : clients'[x] = clients[x]
          /\ clients'[c].pc = "ended"
      BY <1>3, <1>4 DEF ClientRecord
    <2>2. Types'
      BY <1>1, <1>4, <2>1 DEF ConfigInv, Types
    <2>3. ~Setting'
      BY <1>2, <1>4 DEF Setting
    <2>4. ClientsInv'
      BY <1>1, <1>4, <2>1, <2>3 DEF ConfigInv, ClientsInv
    <2>5. CallInv' /\ RemoteInv'
      BY <1>1, <1>2, <1>4, <2>3 DEF ConfigInv, CallInv, RemoteInv, RemoteIsOf
    <2>6. FileInv'
      BY <1>1, <1>2, <1>4, <2>3 DEF ConfigInv, FileInv, FileIsOf, LoadsOldOrNew, Spoilt, At, loadConfig
    <2>7. MigrationInv'
      BY <1>1, <1>4, <2>2, CallMigration
    <2> QED
      BY <2>2, <2>4, <2>5, <2>6, <2>7 DEF ConfigInv
  <1>5. CASE /\ daemon' = [daemon EXCEPT !.pc = "open", !.new = clients[c].new, !.client = c]
             /\ clients' = [clients EXCEPT ![c].pc = "waits"]
             /\ hist' = [hist EXCEPT !.allowed = @ \cup {clients[c].new},
                                     !.marks = IF clients[c].base = daemon.cfg THEN @ ELSE @ \cup {"stale"}]
    <2>1. /\ daemon' \in DaemonRecord /\ daemon'.pc = "open" /\ daemon'.new = clients[c].new
          /\ daemon'.client = c /\ daemon'.cfg = daemon.cfg /\ daemon'.server = daemon.server
      BY <1>3, <1>5 DEF DaemonRecord
    <2>2. daemon'.failed = daemon.failed
      BY <1>3, <1>5 DEF DaemonRecord
    <2>3. daemon'.back = daemon.back
      BY <1>3, <1>5 DEF DaemonRecord
    <2>4. /\ clients' \in [Clients -> ClientRecord]
          /\ \A x \in Clients \ {c} : clients'[x] = clients[x]
          /\ clients'[c].pc = "waits" /\ clients'[c].op = clients[c].op
          /\ clients'[c].new = clients[c].new /\ clients'[c].base = clients[c].base
      BY <1>3, <1>5 DEF ClientRecord
    <2>5. /\ hist' \in HistRecord /\ hist'.allowed = hist.allowed \cup {clients[c].new}
          /\ hist'.serial = hist.serial /\ hist'.cuts = hist.cuts
          /\ hist'.marks = IF clients[c].base = daemon.cfg THEN hist.marks ELSE hist.marks \cup {"stale"}
      BY <1>3, <1>5 DEF HistRecord, Marks
    <2>6. Types'
      BY <1>1, <2>1, <2>4, <2>5 DEF ConfigInv, Types
    <2>7. Setting'
      BY <2>1, ClientsAssumption DEF Setting
    <2>8. ClientsInv'
      BY <1>1, <2>1, <2>4, <2>5, <2>7 DEF ConfigInv, ClientsInv
    <2>9. CallInv'
      BY <1>1, <1>2, <2>1, <2>2, <2>3, <2>7 DEF ConfigInv, CallInv
    <2>10. RemoteInv'
      BY <1>1, <2>1, <2>5, <2>7 DEF ConfigInv, RemoteInv, RemoteIsOf
    <2>11. FileInv'
      BY <1>1, <1>2, <2>1, <2>5, <2>7 DEF ConfigInv, FileInv, FileIsOf, LoadsOldOrNew, Spoilt, At, loadConfig
    <2>12. MigrationInv'
      BY <1>1, <2>1, <2>2, <2>5, <2>6, CallMigration
    <2> QED
      BY <2>6, <2>8, <2>9, <2>10, <2>11, <2>12 DEF ConfigInv
  <1> QED
    BY <1>4, <1>5 DEF SetConfiguration, ClientEnds

(* The call goes on: the client waits, and what is set stays what it made. *)
LEMMA GoesOn ==
    ASSUME ConfigInv, Setting, clients' = clients,
           daemon'.pc \in {"open", "write", "delete", "add", "rebuild"},
           daemon'.pc = "rebuild" => ~daemon'.back,
           daemon'.cfg = daemon.cfg, daemon'.server = daemon.server, daemon'.new = daemon.new,
           daemon'.client = daemon.client, daemon'.failed = daemon.failed,
           hist'.serial = hist.serial, hist.marks \cap {"stale"} \subseteq hist'.marks
    PROVE  Setting' /\ CallInv' /\ ClientsInv'
  <1>1. Setting'
    BY DEF Setting
  <1>2. daemon.pc # "down"
    BY DEF ConfigInv, CallInv
  <1>3. CallInv'
    BY <1>1, <1>2 DEF ConfigInv, CallInv
  <1>4. ClientsInv'
    BY <1>1, <1>2 DEF ConfigInv, ClientsInv
  <1> QED
    BY <1>1, <1>3, <1>4

(* The call returns. *)
LEMMA ReturnIs ==
    ASSUME ConfigInv, Setting, NEW ok \in BOOLEAN, Return(ok)
    PROVE  /\ daemon' \in DaemonRecord /\ daemon'.pc = "up" /\ daemon'.client = NoClient
           /\ daemon'.cfg = IF ok THEN daemon.new ELSE daemon.cfg
           /\ daemon'.new = daemon'.cfg /\ daemon'.server = Url(daemon'.cfg)
           /\ ~daemon'.back /\ ~daemon'.failed /\ daemon'.failed = daemon.failed
           /\ clients' \in [Clients -> ClientRecord]
           /\ \A c \in Clients : clients'[c] = clients[c] \/ clients'[c].pc = "ended"
           /\ ~Setting'
  <1>1. /\ daemon \in DaemonRecord /\ clients \in [Clients -> ClientRecord] /\ daemon.client \in Clients
        /\ daemon.cfg \in Config /\ daemon.new \in Config
    BY DEF ConfigInv, Types, DaemonRecord, Setting
  <1>2. ~daemon.failed /\ daemon.server = Url(daemon.cfg)
    BY DEF ConfigInv, CallInv
  <1>3. PICK cfg \in Config : cfg = IF ok THEN daemon.new ELSE daemon.cfg
    BY <1>1
  <1>4. PICK url \in Urls : url = Url(cfg)
    BY <1>3, ConfigIs
  <1>5. daemon' = [daemon EXCEPT !.pc = "up", !.cfg = cfg, !.new = cfg, !.back = FALSE, !.client = NoClient,
                                 !.server = IF ok THEN Url(cfg) ELSE @]
    BY <1>3 DEF Return
  <1>6. daemon' = [daemon EXCEPT !.pc = "up", !.cfg = cfg, !.new = cfg, !.back = FALSE, !.client = NoClient,
                                 !.server = url]
    <2>1. CASE ok
      BY <1>4, <1>5, <2>1
    <2>2. CASE ~ok
      <3>1. daemon.server = url
        BY <1>2, <1>3, <1>4, <2>2
      <3> QED
        BY <1>1, <1>5, <2>2, <3>1 DEF DaemonRecord
    <2> QED
      BY <2>1, <2>2
  <1>7. /\ daemon' \in DaemonRecord /\ daemon'.pc = "up" /\ daemon'.client = NoClient
        /\ daemon'.cfg = cfg /\ daemon'.new = cfg /\ daemon'.server = url
    BY <1>1, <1>6 DEF DaemonRecord
  <1>8. ~daemon'.back
    BY <1>1, <1>6 DEF DaemonRecord
  <1>9. daemon'.failed = daemon.failed
    BY <1>1, <1>6 DEF DaemonRecord
  <1>10. clients' = [clients EXCEPT ![daemon.client].pc = "ended"]
    BY DEF Return, ClientEnds
  <1>11. /\ clients' \in [Clients -> ClientRecord]
         /\ \A c \in Clients : clients'[c] = clients[c] \/ clients'[c].pc = "ended"
    BY <1>1, <1>10 DEF ClientRecord
  <1>12. ~Setting'
    BY <1>7 DEF Setting
  <1> QED
    BY <1>2, <1>3, <1>4, <1>7, <1>8, <1>9, <1>11, <1>12

(* Saving the file changes its own marks only. *)
LEMMA OtherMarks ==
    ASSUME NEW A, NEW B, A \ {"torn", "unrolled"} \subseteq B, B \subseteq A \cup {"torn", "unrolled"}
    PROVE  A \cap {"share", "version"} \subseteq B /\ ("version" \in B => "version" \in A)
  OBVIOUS

(* An error is answered: the configuration in memory is the one there was. *)
LEMMA RefusedInv ==
    ASSUME ConfigInv, Setting, daemon.pc \in {"open", "write"}, Return(FALSE), remotes' = remotes, store' = store,
           yaml' \in [state : {"absent", "torn", "whole"}, cfg : Config], spent' \in 0..MaxFaults,
           NEW h \in HistRecord, hist' = Answered(h, FALSE),
           h.serial = hist.serial, h.cuts = hist.cuts, hist.marks \ {"torn", "unrolled"} \subseteq h.marks,
           h.marks \subseteq hist.marks \cup {"torn", "unrolled"},
           FileIsOf(daemon.cfg)' \/ h.marks \cap {"torn", "unrolled"} # {},
           "torn" \in h.marks => yaml'.state = "torn"
    PROVE  ConfigInv'
  <1>1. /\ daemon' \in DaemonRecord /\ daemon'.pc = "up" /\ daemon'.client = NoClient
        /\ daemon'.cfg = daemon.cfg /\ daemon'.new = daemon.cfg /\ daemon'.server = Url(daemon'.cfg)
        /\ clients' \in [Clients -> ClientRecord]
        /\ \A c \in Clients : clients'[c] = clients[c] \/ clients'[c].pc = "ended"
    BY ReturnIs
  <1>2. ~daemon'.back /\ ~daemon'.failed /\ daemon'.failed = daemon.failed /\ ~Setting'
    BY ReturnIs
  <1>3. daemon.cfg \in Config
    BY DEF ConfigInv, Types, DaemonRecord
  <1>4. PICK a \in SUBSET Config, k \in Config :
          a = {daemon.cfg} /\ k = h.serial /\ hist' = [h EXCEPT !.allowed = a, !.serial = k]
    <2>1. h.serial \in Config /\ {daemon.cfg} \in SUBSET Config
      BY <1>3 DEF HistRecord
    <2>2. hist' = [h EXCEPT !.allowed = {daemon.cfg}, !.serial = h.serial]
      BY DEF Answered, HistRecord
    <2> QED
      BY <2>1, <2>2
  <1>5. /\ hist' \in HistRecord /\ hist'.allowed = {daemon.cfg} /\ hist'.serial = hist.serial
        /\ hist'.marks = h.marks /\ hist'.cuts = hist.cuts
    BY <1>3, <1>4 DEF HistRecord
  <1>6. Types'
    BY <1>1, <1>5 DEF ConfigInv, Types
  <1>7. CallInv'
    BY <1>1, <1>2 DEF CallInv
  <1>8. ClientsInv'
    BY <1>1, <1>2, <1>5 DEF ConfigInv, ClientsInv
  <1>9. FileInv'
    BY <1>1, <1>2, <1>5 DEF FileInv, FileIsOf, LoadsOldOrNew, Spoilt, At, loadConfig
  <1>10. RemoteInv'
    BY <1>1, <1>2, <1>5 DEF ConfigInv, RemoteInv, RemoteIsOf
  <1>11. /\ hist.marks \cap {"share", "version"} \subseteq hist'.marks
         /\ "version" \in hist'.marks => "version" \in hist.marks
    BY <1>5, OtherMarks
  <1>12. MigrationInv'
    BY <1>1, <1>2, <1>5, <1>6, <1>11, CallMigration
  <1> QED
    BY <1>6, <1>7, <1>8, <1>9, <1>10, <1>12 DEF ConfigInv

(* The file is emptied; or it cannot be opened and the call is over. *)
LEMMA OpenYamlInv ==
    ASSUME ConfigInv, OpenYaml
    PROVE  ConfigInv'
  <1>1. daemon.pc = "open" /\ remotes' = remotes /\ store' = store
    BY DEF OpenYaml, At
  <1>2. Setting
    BY <1>1 DEF ConfigInv, CallInv
  <1>3. /\ daemon \in DaemonRecord /\ hist \in HistRecord /\ spent \in 0..MaxFaults
        /\ yaml \in [state : {"absent", "torn", "whole"}, cfg : Config]
    BY DEF ConfigInv, Types
  <1>4. CASE /\ daemon' = [daemon EXCEPT !.pc = "write"] /\ yaml' = [yaml EXCEPT !.state = "torn"]
             /\ UNCHANGED <<clients, spent, hist>>
    <2>1. daemon' \in DaemonRecord /\ daemon'.pc = "write" /\ SameCall
      BY <1>3, <1>4 DEF DaemonRecord, SameCall
    <2>2. daemon'.failed = daemon.failed
      BY <1>3, <1>4 DEF DaemonRecord
    <2>3. yaml' \in [state : {"absent", "torn", "whole"}, cfg : Config] /\ yaml'.state = "torn"
      BY <1>3, <1>4
    <2>4. Types'
      BY <1>1, <1>4, <2>1, <2>3 DEF ConfigInv, Types
    <2>5. Setting' /\ CallInv' /\ ClientsInv'
      BY <1>2, <1>4, <2>1, <2>2, GoesOn DEF SameCall
    <2>6. FileInv'
      BY <1>2, <1>4, <2>1, <2>3, <2>5 DEF ConfigInv, FileInv, FileIsOf, LoadsOldOrNew, Spoilt, At, loadConfig, SameCall
    <2>7. RemoteInv'
      BY <1>1, <1>4, <2>1, <2>5 DEF ConfigInv, RemoteInv, RemoteIsOf, SameCall
    <2>8. MigrationInv'
      BY <1>1, <1>4, <2>1, <2>2, <2>4, CallMigration
    <2> QED
      BY <2>4, <2>5, <2>6, <2>7, <2>8 DEF ConfigInv
  <1>5. CASE /\ May("disk") /\ Return(FALSE) /\ spent' = spent + 1 /\ yaml' = yaml
             /\ hist' = Answered(IF daemon.back THEN Mark("unrolled") ELSE hist, FALSE)
    <2>1. PICK h : h = IF daemon.back THEN Mark("unrolled") ELSE hist
      OBVIOUS
    <2>2. Mark("unrolled") \in HistRecord /\ Mark("unrolled").serial = hist.serial
          /\ Mark("unrolled").cuts = hist.cuts /\ Mark("unrolled").marks = hist.marks \cup {"unrolled"}
      BY <1>3 DEF Mark, HistRecord, Marks
    <2>3. /\ h \in HistRecord /\ h.serial = hist.serial /\ h.cuts = hist.cuts /\ hist.marks \subseteq h.marks
          /\ h.marks \subseteq hist.marks \cup {"unrolled"}
      BY <1>3, <2>1, <2>2
    <2>4. daemon'.cfg = daemon.cfg
      BY <1>2, <1>5, ReturnIs
    <2>5. FileIsOf(daemon.cfg) \/ h.marks \cap {"torn", "unrolled"} # {}
      BY <1>1, <2>1, <2>2, <2>3 DEF ConfigInv, FileInv, Spoilt
    <2>6. FileIsOf(daemon.cfg)' \/ h.marks \cap {"torn", "unrolled"} # {}
      BY <1>5, <2>4, <2>5 DEF FileIsOf, loadConfig
    <2>8. "torn" \in h.marks => yaml'.state = "torn"
      BY <1>5, <2>3 DEF ConfigInv, FileInv
    <2>7. hist' = Answered(h, FALSE)
      BY <1>5, <2>1
    <2> QED
      BY <1>1, <1>2, <1>3, <1>5, <2>3, <2>6, <2>7, <2>8, SpentInv, RefusedInv
  <1> QED
    BY <1>4, <1>5 DEF OpenYaml, Goto

(* The file is written, or stays empty. *)
LEMMA WriteYamlInv ==
    ASSUME ConfigInv, WriteYaml
    PROVE  ConfigInv'
  <1>1. daemon.pc = "write" /\ remotes' = remotes /\ store' = store
    BY DEF WriteYaml, At
  <1>2. Setting /\ yaml.state = "torn"
    BY <1>1 DEF ConfigInv, CallInv, FileInv
  <1>3. /\ daemon \in DaemonRecord /\ hist \in HistRecord /\ spent \in 0..MaxFaults
        /\ yaml \in [state : {"absent", "torn", "whole"}, cfg : Config]
        /\ daemon.cfg \in Config /\ daemon.new \in Config
    BY DEF ConfigInv, Types, DaemonRecord
  <1>4. PICK h \in HistRecord :
          /\ Written(h)
          /\ h.allowed = hist.allowed /\ h.serial = hist.serial /\ h.cuts = hist.cuts
          /\ hist.marks \ {"torn", "unrolled"} \subseteq h.marks /\ h.marks \subseteq hist.marks \cup {"torn"}
          /\ \/ yaml' = [state |-> "whole", cfg |-> Target] /\ h.marks \cap {"torn", "unrolled"} = {}
             \/ yaml' = yaml /\ "torn" \in h.marks
          /\ spent' \in 0..MaxFaults
    <2>1. PICK m \in SUBSET Marks : m = hist.marks \ {"torn", "unrolled"}
      BY <1>3 DEF HistRecord
    <2> DEFINE saved == [hist EXCEPT !.marks = m]
    <2>2. /\ saved \in HistRecord /\ saved.allowed = hist.allowed /\ saved.serial = hist.serial
          /\ saved.cuts = hist.cuts /\ saved.marks = m
      BY <1>3 DEF HistRecord
    <2>3. /\ Mark("torn") \in HistRecord /\ Mark("torn").allowed = hist.allowed /\ Mark("torn").serial = hist.serial
          /\ Mark("torn").cuts = hist.cuts /\ Mark("torn").marks = hist.marks \cup {"torn"}
      BY <1>3 DEF Mark, HistRecord, Marks
    <2>4. saved = [hist EXCEPT !.marks = @ \ {"torn", "unrolled"}]
      BY <1>3, <2>1 DEF HistRecord
    <2>5. CASE /\ yaml' = [state |-> "whole", cfg |-> Target] /\ spent' = spent
               /\ Written([hist EXCEPT !.marks = @ \ {"torn", "unrolled"}])
      <3>1. Written(saved)
        BY <2>4, <2>5
      <3> HIDE DEF saved
      <3> QED
        BY <1>3, <2>1, <2>2, <2>5, <3>1
    <2>6. CASE May("disk") /\ Written(Mark("torn")) /\ spent' = spent + 1 /\ yaml' = yaml
      BY <2>3, <2>6, SpentInv
    <2> QED
      BY <2>5, <2>6 DEF WriteYaml
  <1>5. /\ yaml' \in [state : {"absent", "torn", "whole"}, cfg : Config]
        /\ loadConfig' = Target \/ "torn" \in h.marks
        /\ "torn" \in h.marks => yaml'.state = "torn"
    BY <1>2, <1>3, <1>4 DEF loadConfig, Target
  <1>6. CASE daemon.back /\ Return(FALSE) /\ hist' = Answered(h, FALSE)
    <2>1. daemon'.cfg = daemon.cfg
      BY <1>2, <1>6, ReturnIs
    <2>2. FileIsOf(daemon.cfg)' \/ h.marks \cap {"torn", "unrolled"} # {}
      BY <1>5, <1>6, <2>1 DEF FileIsOf, Target
    <2> QED
      BY <1>1, <1>2, <1>4, <1>5, <1>6, <2>2, RefusedInv
  <1>7. CASE ~daemon.back /\ daemon' = [daemon EXCEPT !.pc = "delete"] /\ clients' = clients /\ hist' = h
    <2>1. daemon' \in DaemonRecord /\ daemon'.pc = "delete" /\ SameCall
      BY <1>3, <1>7 DEF DaemonRecord, SameCall
    <2>2. daemon'.failed = daemon.failed
      BY <1>3, <1>7 DEF DaemonRecord
    <2>3. Types'
      BY <1>1, <1>4, <1>5, <1>7, <2>1 DEF ConfigInv, Types
    <2>4. Setting' /\ CallInv' /\ ClientsInv'
      BY <1>2, <1>4, <1>7, <2>1, <2>2, GoesOn DEF SameCall
    <2>5. FileIsOf(daemon.new)' \/ "torn" \in hist'.marks
      BY <1>5, <1>7, <2>1 DEF FileIsOf, Target, SameCall
    <2>6. LoadsOldOrNew'
      <3>1. daemon'.new \in hist'.allowed
        BY <1>2, <1>4, <1>7, <2>1 DEF ConfigInv, FileInv, SameCall
      <3>2. "torn" \in hist'.marks => loadConfig' = Shipped
        BY <1>5, <1>7 DEF loadConfig
      <3> QED
        BY <2>5, <3>1, <3>2 DEF LoadsOldOrNew, FileIsOf
    <2>7. FileInv'
      BY <1>2, <1>4, <1>5, <1>7, <2>1, <2>4, <2>5, <2>6 DEF ConfigInv, FileInv, SameCall
    <2>8. RemoteInv'
      BY <1>1, <1>4, <1>7, <2>1, <2>4 DEF ConfigInv, RemoteInv, RemoteIsOf, SameCall
    <2>9. MigrationInv'
      BY <1>1, <1>4, <1>7, <2>1, <2>2, <2>3, CallMigration
    <2> QED
      BY <2>3, <2>4, <2>7, <2>8, <2>9 DEF ConfigInv
  <1> QED
    BY <1>4, <1>6, <1>7 DEF Written, Goto

(* updateOstreeRepoConfig fails, having changed at most the remote of the  *)
(* repository it was to change.                                            *)
LEMMA RemoteFailsInv ==
    ASSUME ConfigInv, daemon.pc \in {"delete", "add"}, RemoteFails, yaml' = yaml, store' = store,
           spent' \in 0..MaxFaults, remotes' \in [Names -> Urls \cup {NoUrl}],
           \A n \in Names \ {Target.default} : remotes'[n] = remotes[n],
           daemon.pc = "delete" => remotes' = remotes
    PROVE  ConfigInv'
  <1>1. /\ daemon \in DaemonRecord /\ hist \in HistRecord /\ daemon.cfg \in Config /\ daemon.cfg.default \in Names
        /\ clients' = clients
    BY ConfigIs DEF ConfigInv, Types, DaemonRecord, RemoteFails
  <1>2. /\ hist' \in HistRecord /\ hist'.allowed = hist.allowed /\ hist'.serial = hist.serial
        /\ hist'.cuts = hist.cuts /\ hist.marks \subseteq hist'.marks /\ hist'.marks \subseteq hist.marks \cup {"remote"}
        /\ Target.default = daemon.cfg.default => "remote" \in hist'.marks
    <2>1. Mark("remote") \in HistRecord /\ Mark("remote").allowed = hist.allowed
          /\ Mark("remote").serial = hist.serial
          /\ Mark("remote").cuts = hist.cuts /\ Mark("remote").marks = hist.marks \cup {"remote"}
      BY <1>1 DEF Mark, HistRecord, Marks
    <2> QED
      BY <1>1, <2>1 DEF RemoteFails
  <1>3. ~Setting => Target = daemon.cfg /\ ~daemon.back
    BY DEF ConfigInv, CallInv, Target
  <1>4. RemoteIsOf(daemon.cfg)' \/ "remote" \in hist'.marks \/ daemon'.cfg # daemon.cfg
    <2>1. CASE Target.default = daemon.cfg.default
      BY <1>2, <2>1
    <2>2. CASE Target.default # daemon.cfg.default
      <3>1. remotes'[daemon.cfg.default] = remotes[daemon.cfg.default]
        BY <1>1, <2>2
      <3>2. Setting /\ ~daemon.back /\ daemon.new.default # daemon.cfg.default
        BY <1>3, <2>2 DEF Target
      <3>3. RemoteIsOf(daemon.cfg) \/ "remote" \in hist.marks
        BY <3>2 DEF ConfigInv, RemoteInv
      <3> QED
        BY <1>2, <3>1, <3>3 DEF RemoteIsOf
    <2> QED
      BY <2>1, <2>2
  <1>5. CASE Setting /\ daemon' = [daemon EXCEPT !.pc = "open", !.back = TRUE]
    <2>1. /\ daemon' \in DaemonRecord /\ daemon'.pc = "open" /\ daemon'.cfg = daemon.cfg
          /\ daemon'.server = daemon.server /\ daemon'.new = daemon.new /\ daemon'.client = daemon.client
      BY <1>1, <1>5 DEF DaemonRecord
    <2>2. daemon'.failed = daemon.failed
      BY <1>1, <1>5 DEF DaemonRecord
    <2>3. daemon'.back
      BY <1>1, <1>5 DEF DaemonRecord
    <2>4. Types'
      BY <1>1, <1>2, <2>1 DEF ConfigInv, Types
    <2>5. Setting' /\ CallInv' /\ ClientsInv'
      BY <1>1, <1>2, <1>5, <2>1, <2>2, GoesOn
    <2>6. FileInv'
      BY <1>2, <1>5, <2>1, <2>3, <2>5 DEF ConfigInv, FileInv, FileIsOf, LoadsOldOrNew, Spoilt, At, loadConfig
    <2>7. RemoteInv'
      BY <1>4, <2>1, <2>3 DEF RemoteInv
    <2>8. MigrationInv'
      BY <1>2, <2>1, <2>2, <2>4, CallMigration
    <2> QED
      BY <2>4, <2>5, <2>6, <2>7, <2>8 DEF ConfigInv
  <1>6. CASE ~Setting /\ daemon' = [daemon EXCEPT !.pc = "cache"]
    <2>1. daemon' \in DaemonRecord /\ daemon'.pc = "cache" /\ SameCall
      BY <1>1, <1>6 DEF DaemonRecord, SameCall
    <2>2. daemon'.failed = daemon.failed
      BY <1>1, <1>6 DEF DaemonRecord
    <2>3. Types'
      BY <1>1, <1>2, <2>1 DEF ConfigInv, Types
    <2>4. ~Setting'
      BY <1>6, <2>1 DEF Setting, SameCall
    <2>5. CallInv'
      BY <1>3, <1>6, <2>1, <2>4 DEF ConfigInv, CallInv, SameCall
    <2>6. ClientsInv'
      BY <1>1, <1>2, <2>1, <2>4 DEF ConfigInv, ClientsInv, SameCall
    <2>7. FileInv'
      BY <1>2, <1>6, <2>1, <2>4 DEF ConfigInv, FileInv, FileIsOf, LoadsOldOrNew, Spoilt, At, loadConfig, SameCall
    <2>8. RemoteInv'
      BY <1>4, <2>1, <2>4 DEF RemoteInv, SameCall
    <2>9. MigrationInv'
      BY <1>2, <2>1, <2>2, <2>3, CallMigration
    <2> QED
      BY <2>3, <2>5, <2>6, <2>7, <2>8, <2>9 DEF ConfigInv
  <1>7. CASE ~Setting /\ daemon' = Down
    <2>1. Down \in DaemonRecord /\ Down.pc = "down"
      BY ConfigAssumption DEF Down, DaemonRecord
    <2>2. Types'
      BY <1>1, <1>2, <1>7, <2>1 DEF ConfigInv, Types
    <2>3. CallInv' /\ ClientsInv' /\ FileInv' /\ RemoteInv'
      BY <1>1, <1>2, <1>7, DownKeeps DEF ConfigInv
    <2>4. MigrationInv'
      BY <1>2, <1>7, <2>1, <2>2, MigrationKept DEF ConfigInv, Opened
    <2> QED
      BY <2>2, <2>3, <2>4 DEF ConfigInv
  <1> QED
    BY <1>5, <1>6, <1>7 DEF RemoteFails, Undo

(* The remote goes, or cannot be deleted. *)
LEMMA DeleteRemoteInv ==
    ASSUME ConfigInv, DeleteRemote
    PROVE  ConfigInv'
  <1>1. daemon.pc = "delete" /\ yaml' = yaml /\ store' = store
    BY DEF DeleteRemote, At
  <1>2. /\ daemon \in DaemonRecord /\ hist \in HistRecord /\ spent \in 0..MaxFaults
        /\ remotes \in [Names -> Urls \cup {NoUrl}]
        /\ daemon.cfg \in Config /\ daemon.cfg.default \in Names
    BY ConfigIs DEF ConfigInv, Types, DaemonRecord
  <1>3. CASE /\ daemon' = [daemon EXCEPT !.pc = "add"]
             /\ remotes' = [remotes EXCEPT ![Target.default] = NoUrl]
             /\ UNCHANGED <<clients, hist, spent>>
    <2>1. daemon' \in DaemonRecord /\ daemon'.pc = "add" /\ SameCall
      BY <1>2, <1>3 DEF DaemonRecord, SameCall
    <2>2. daemon'.failed = daemon.failed
      BY <1>2, <1>3 DEF DaemonRecord
    <2>3. /\ remotes' \in [Names -> Urls \cup {NoUrl}]
          /\ \A n \in Names \ {Target.default} : remotes'[n] = remotes[n]
      BY <1>2, <1>3
    <2>4. Types'
      BY <1>1, <1>3, <2>1, <2>3 DEF ConfigInv, Types
    <2>5. Setting' = Setting
      BY <2>1 DEF Setting, SameCall
    <2>6. CallInv'
      BY <1>1, <2>1, <2>2, <2>5 DEF ConfigInv, CallInv, SameCall
    <2>7. ClientsInv'
      BY <1>1, <1>3, <2>1, <2>5 DEF ConfigInv, ClientsInv, SameCall
    <2>8. FileInv'
      BY <1>1, <1>3, <2>1, <2>5 DEF ConfigInv, FileInv, FileIsOf, LoadsOldOrNew, Spoilt, At, loadConfig, SameCall
    <2>9. ASSUME Setting, ~daemon.back, daemon.new.default # daemon.cfg.default
          PROVE  RemoteIsOf(daemon.cfg)' \/ "remote" \in hist'.marks
      <3>1. remotes'[daemon.cfg.default] = remotes[daemon.cfg.default]
        BY <1>2, <2>3, <2>9 DEF Target
      <3>2. RemoteIsOf(daemon.cfg) \/ "remote" \in hist.marks
        BY <1>1, <2>9 DEF ConfigInv, RemoteInv
      <3> QED
        BY <1>3, <2>1, <3>1, <3>2 DEF RemoteIsOf, SameCall
    <2>10. RemoteInv'
      BY <2>1, <2>5, <2>9 DEF RemoteInv, SameCall
    <2>11. MigrationInv'
      BY <1>1, <1>3, <2>1, <2>2, <2>4, CallMigration
    <2> QED
      BY <2>4, <2>6, <2>7, <2>8, <2>10, <2>11 DEF ConfigInv
  <1>4. CASE May("ostree") /\ RemoteFails /\ spent' = spent + 1 /\ remotes' = remotes
    BY <1>1, <1>2, <1>4, SpentInv, RemoteFailsInv
  <1> QED
    BY <1>3, <1>4 DEF DeleteRemote, Goto

(* The remote is added, or that fails before or after it is. *)
LEMMA AddRemoteInv ==
    ASSUME ConfigInv, AddRemote
    PROVE  ConfigInv'
  <1>1. daemon.pc = "add" /\ yaml' = yaml /\ store' = store
    BY DEF AddRemote, At
  <1>2. /\ daemon \in DaemonRecord /\ hist \in HistRecord /\ spent \in 0..MaxFaults
        /\ remotes \in [Names -> Urls \cup {NoUrl}]
        /\ Target \in Config /\ Target.default \in Names /\ Url(Target) \in Urls
    BY ConfigIs DEF ConfigInv, Types, DaemonRecord, Target
  <1>3. CASE /\ remotes' = [remotes EXCEPT ![Target.default] = Url(Target)]
             /\ daemon' = [daemon EXCEPT !.pc = IF ~Setting THEN "cache" ELSE IF daemon.back THEN "open" ELSE "rebuild"]
             /\ hist' = [hist EXCEPT !.marks = @ \ {"remote"}]
             /\ UNCHANGED <<clients, spent>>
    <2>1. PICK pc : pc = IF ~Setting THEN "cache" ELSE IF daemon.back THEN "open" ELSE "rebuild"
      OBVIOUS
    <2>2. pc \in {"cache", "open", "rebuild"} /\ daemon' = [daemon EXCEPT !.pc = pc]
      BY <1>3, <2>1
    <2>3. daemon' \in DaemonRecord /\ daemon'.pc = pc /\ SameCall
      BY <1>2, <2>2 DEF DaemonRecord, SameCall
    <2>4. daemon'.failed = daemon.failed
      BY <1>2, <2>2 DEF DaemonRecord
    <2>5. /\ remotes' \in [Names -> Urls \cup {NoUrl}] /\ remotes'[Target.default] = Url(Target)
      BY <1>2, <1>3
    <2>6. /\ hist' \in HistRecord /\ hist'.allowed = hist.allowed /\ hist'.serial = hist.serial
          /\ hist'.cuts = hist.cuts /\ hist'.marks = hist.marks \ {"remote"}
      BY <1>2, <1>3 DEF HistRecord
    <2>7. Types'
      BY <1>1, <1>3, <2>3, <2>5, <2>6 DEF ConfigInv, Types
    <2>8. Setting' = Setting
      BY <2>3 DEF Setting, SameCall
    <2>9. CallInv'
      BY <1>1, <2>1, <2>3, <2>4, <2>8 DEF ConfigInv, CallInv, SameCall
    <2>10. ClientsInv'
      BY <1>1, <1>3, <2>3, <2>6, <2>8 DEF ConfigInv, ClientsInv, SameCall
    <2>11. FileInv'
      BY <1>1, <2>1, <2>3, <2>6, <2>8 DEF ConfigInv, FileInv, FileIsOf, LoadsOldOrNew, Spoilt, At, loadConfig, SameCall
    <2>12. pc = "rebuild" => RemoteIsOf(daemon.new)'
      BY <2>1, <2>3, <2>5 DEF Target, RemoteIsOf, SameCall
    <2>13. pc # "rebuild" => RemoteIsOf(daemon.cfg)'
      BY <2>1, <2>3, <2>5 DEF ConfigInv, CallInv, Target, RemoteIsOf, SameCall
    <2>14. RemoteInv'
      BY <2>2, <2>3, <2>12, <2>13 DEF RemoteInv
    <2>15. MigrationInv'
      BY <1>1, <2>2, <2>3, <2>4, <2>6, <2>7, CallMigration
    <2> QED
      BY <2>7, <2>9, <2>10, <2>11, <2>14, <2>15 DEF ConfigInv
  <1>4. ASSUME NEW url \in {NoUrl, Url(Target)}, remotes' = [remotes EXCEPT ![Target.default] = url],
               May("ostree"), RemoteFails, spent' = spent + 1
        PROVE  ConfigInv'
    <2>1. /\ remotes' \in [Names -> Urls \cup {NoUrl}]
          /\ \A n \in Names \ {Target.default} : remotes'[n] = remotes[n]
      BY <1>2, <1>4
    <2> QED
      BY <1>1, <1>4, <2>1, SpentInv, RemoteFailsInv
  <1> QED
    BY <1>3, <1>4 DEF AddRemote, Goto

(* The cache is built and the call succeeds, or the remote and the file    *)
(* are set back.                                                           *)
LEMMA RebuildCacheInv ==
    ASSUME ConfigInv, RebuildCache
    PROVE  ConfigInv'
  <1>1. daemon.pc = "rebuild" /\ yaml' = yaml /\ remotes' = remotes /\ store' = store
    BY DEF RebuildCache, At
  <1>2. Setting
    BY <1>1 DEF ConfigInv, CallInv
  <1>3. ~daemon.back
    BY <1>1 DEF ConfigInv, CallInv
  <1>4. /\ daemon \in DaemonRecord /\ hist \in HistRecord /\ daemon.new \in Config
        /\ daemon.client \in Clients /\ clients[daemon.client].op \in Ops /\ hist.serial \in Config
        /\ spent \in 0..MaxFaults
    BY <1>2 DEF ConfigInv, Types, DaemonRecord, ClientRecord, HistRecord, Setting
  <1>5. CASE Return(TRUE) /\ hist' = Answered(hist, TRUE) /\ spent' = spent
    <2>1. /\ daemon' \in DaemonRecord /\ daemon'.pc = "up" /\ daemon'.client = NoClient
          /\ daemon'.cfg = daemon.new /\ daemon'.new = daemon.new /\ daemon'.server = Url(daemon'.cfg)
          /\ clients' \in [Clients -> ClientRecord]
          /\ \A c \in Clients : clients'[c] = clients[c] \/ clients'[c].pc = "ended"
      BY <1>2, <1>5, ReturnIs
    <2>2. ~daemon'.back /\ ~daemon'.failed /\ daemon'.failed = daemon.failed /\ ~Setting'
      BY <1>2, <1>5, ReturnIs
    <2> DEFINE made == RepoCommand(clients[daemon.client].op, hist.serial)
    <2>3. made = {} \/ \E d \in Config : made = {d}
      BY <1>4, RepoCommandIs
    <2>4. PICK s : s = IF made # {} THEN CHOOSE x \in made : TRUE ELSE hist.serial
      OBVIOUS
    <2>5. s \in Config
      BY <1>4, <2>3, <2>4
    <2>6. PICK a \in SUBSET Config : a = {daemon.new} /\ hist' = [hist EXCEPT !.allowed = a, !.serial = s]
      <3>1. {daemon.new} \in SUBSET Config
        BY <1>4
      <3>2. hist' = [hist EXCEPT !.allowed = {daemon.new}, !.serial = s]
        BY <1>4, <1>5, <2>4 DEF Answered, HistRecord
      <3> QED
        BY <3>1, <3>2
    <2>7. /\ hist' \in HistRecord /\ hist'.allowed = {daemon.new} /\ hist'.serial = s
          /\ hist'.marks = hist.marks /\ hist'.cuts = hist.cuts
      BY <1>4, <2>5, <2>6 DEF HistRecord
    <2>8. s = daemon.new \/ "stale" \in hist.marks
      <3>1. SUFFICES ASSUME "stale" \notin hist.marks PROVE s = daemon.new
        OBVIOUS
      <3>2. hist.serial = daemon.cfg
        BY <1>1, <3>1 DEF ConfigInv, ClientsInv
      <3>3. /\ clients[daemon.client].pc = "waits" /\ clients[daemon.client].base = daemon.cfg
            /\ clients[daemon.client].new = daemon.new
        BY <1>2, <3>1 DEF ConfigInv, ClientsInv
      <3>4. made = {daemon.new}
        BY <1>4, <3>2, <3>3 DEF ConfigInv, ClientsInv
      <3> QED
        BY <2>4, <3>4
    <2>9. Types'
      BY <1>1, <1>5, <2>1, <2>7 DEF ConfigInv, Types
    <2>10. CallInv'
      BY <2>1, <2>2 DEF CallInv
    <2>11. ClientsInv'
      BY <2>1, <2>2, <2>7, <2>8 DEF ConfigInv, ClientsInv
    <2>12. FileIsOf(daemon.cfg)' \/ "torn" \in hist'.marks
      BY <1>1, <1>2, <1>3, <2>1, <2>7 DEF ConfigInv, FileInv, FileIsOf, loadConfig
    <2>13. FileInv'
      BY <1>1, <2>1, <2>2, <2>7, <2>12 DEF ConfigInv, FileInv, FileIsOf, LoadsOldOrNew, Spoilt, At, loadConfig
    <2>14. RemoteInv'
      BY <1>1, <2>1, <2>2 DEF ConfigInv, RemoteInv, RemoteIsOf
    <2>15. MigrationInv'
      BY <1>1, <2>1, <2>2, <2>7, <2>9, CallMigration
    <2> QED
      BY <2>9, <2>10, <2>11, <2>13, <2>14, <2>15 DEF ConfigInv
  <1>6. CASE /\ May("rebuild") /\ daemon' = [daemon EXCEPT !.pc = "delete", !.back = TRUE] /\ spent' = spent + 1
             /\ UNCHANGED <<clients, hist>>
    <2>1. /\ daemon' \in DaemonRecord /\ daemon'.pc = "delete" /\ daemon'.cfg = daemon.cfg
          /\ daemon'.server = daemon.server /\ daemon'.new = daemon.new /\ daemon'.client = daemon.client
      BY <1>4, <1>6 DEF DaemonRecord
    <2>2. daemon'.failed = daemon.failed
      BY <1>4, <1>6 DEF DaemonRecord
    <2>3. daemon'.back
      BY <1>4, <1>6 DEF DaemonRecord
    <2>4. Types'
      BY <1>1, <1>6, <2>1, SpentInv DEF ConfigInv, Types
    <2>5. Setting' /\ CallInv' /\ ClientsInv'
      BY <1>2, <1>6, <2>1, <2>2, GoesOn
    <2>6. FileInv'
      BY <1>1, <1>2, <1>6, <2>1, <2>3, <2>5 DEF ConfigInv, FileInv, FileIsOf, LoadsOldOrNew, Spoilt, At, loadConfig
    <2>7. RemoteInv'
      BY <2>1, <2>3 DEF RemoteInv
    <2>8. MigrationInv'
      BY <1>1, <1>6, <2>1, <2>2, <2>4, CallMigration
    <2> QED
      BY <2>4, <2>5, <2>6, <2>7, <2>8 DEF ConfigInv
  <1> QED
    BY <1>5, <1>6 DEF RebuildCache, Undo

(* The daemon is killed.  In the middle of a migration that is a cut; the  *)
(* emptied .version and the entries moved aside are marked.                *)
LEMMA CrashInv ==
    ASSUME ConfigInv, Crash
    PROVE  ConfigInv'
  <1>1. /\ daemon' = Down /\ yaml' = yaml /\ remotes' = remotes /\ store' = store /\ spent' \in 0..MaxFaults
    BY SpentInv DEF Crash
  <1>2. Down \in DaemonRecord /\ Down.pc = "down"
    BY ConfigAssumption DEF Down, DaemonRecord
  <1>3. clients \in [Clients -> ClientRecord] /\ hist \in HistRecord
    BY DEF ConfigInv, Types
  <1>4. /\ clients' \in [Clients -> ClientRecord]
        /\ \A c \in Clients : clients'[c] = clients[c] \/ clients'[c].pc = "ended"
    <2>1. \A c \in Clients : [clients[c] EXCEPT !.pc = "ended"] \in ClientRecord
                             /\ [clients[c] EXCEPT !.pc = "ended"].pc = "ended"
      BY <1>3 DEF ClientRecord
    <2> QED
      BY <1>3, <2>1 DEF Crash
  <1>5. PICK k \in Nat : k = IF daemon.pc = "link" /\ daemon.todo # {} THEN hist.cuts + 1 ELSE hist.cuts
    BY <1>3 DEF HistRecord
  <1>6. PICK m \in SUBSET Marks : m = IF daemon.pc = "rename" THEN hist.marks \cup {"share"}
                                      ELSE IF daemon.pc = "stamping" THEN hist.marks \cup {"version"}
                                      ELSE IF daemon.pc = "write" THEN hist.marks \cup {"torn"}
                                      ELSE hist.marks
    BY <1>3 DEF HistRecord, Marks
  <1>7. hist' = [hist EXCEPT !.cuts = k, !.marks = m]
    <2>1. k = IF At("link") /\ daemon.todo # {} THEN hist.cuts + 1 ELSE hist.cuts
      BY <1>5 DEF At
    <2>2. m = CASE At("rename") -> hist.marks \cup {"share"}
                [] At("stamping") -> hist.marks \cup {"version"}
                [] At("write") -> hist.marks \cup {"torn"}
                [] OTHER -> hist.marks
      BY <1>6 DEF At
    <2> QED
      BY <1>3, <2>1, <2>2 DEF Crash, HistRecord
  <1>8. /\ hist' \in HistRecord /\ hist'.cuts = k /\ hist'.marks = m /\ hist'.allowed = hist.allowed
        /\ hist.marks \subseteq hist'.marks
    BY <1>3, <1>6, <1>7 DEF HistRecord
  <1>9. Types'
    BY <1>1, <1>2, <1>4, <1>8 DEF ConfigInv, Types
  <1>10. CallInv' /\ ClientsInv' /\ FileInv' /\ RemoteInv'
    BY <1>1, <1>4, <1>6, <1>8, DownKeeps DEF ConfigInv
  <1>11. MigrationInv'
    <2>1. daemon'.pc = "down" /\ BeingLinked' = {} /\ Unlinked' = Unlinked
      BY <1>1, <1>2 DEF BeingLinked, Unlinked
    <2>2. Unlinked' \subseteq BeingLinked' \/ hist'.cuts >= 1 \/ store'.refs = {}
      <3>1. CASE BeingLinked = {}
        <4>1. Unlinked \subseteq {} \/ hist.cuts >= 1 \/ store.refs = {}
          BY <3>1 DEF ConfigInv, MigrationInv
        <4>2. hist.cuts >= 1 => k >= 1
          BY <1>3, <1>5 DEF HistRecord
        <4> QED
          BY <1>1, <1>8, <2>1, <4>1, <4>2
      <3>2. CASE BeingLinked # {}
        <4>1. k = hist.cuts + 1 /\ hist.cuts \in Nat
          BY <1>3, <1>5, <3>2 DEF BeingLinked, HistRecord
        <4> QED
          BY <1>8, <4>1
      <3> QED
        BY <3>1, <3>2
    <2>3. store'.refs = {} \/ store'.version \notin {ThisVersion, <<>>} \/ \E l : Unlinked' \subseteq {l}
      <3>1. CASE daemon.pc = "link"
        BY <1>1, <3>1 DEF ConfigInv, MigrationInv
      <3>2. CASE daemon.pc # "link"
        BY <1>1, <2>1, <3>2 DEF ConfigInv, MigrationInv, BeingLinked
      <3> QED
        BY <3>1, <3>2
    <2>4. store'.version = <<>> <=> "version" \in hist'.marks
      <3>1. daemon.pc = "stamping" => store.version = <<>>
        BY DEF ConfigInv, MigrationInv
      <3> QED
        BY <1>1, <1>6, <1>8, <3>1 DEF ConfigInv, MigrationInv
    <2>5. store'.share = "moved" => "share" \in hist'.marks
      BY <1>1, <1>6, <1>8 DEF ConfigInv, MigrationInv
    <2>6. store'.refs # {} => /\ store'.repo
                              /\ \/ store'.version \in {ThisVersion, <<>>}
                                 \/ MigrateBefore(store'.version, <<1, 7, 0>>)
      BY <1>1 DEF ConfigInv, MigrationInv
    <2>7. Unlinked' \ BeingLinked' = Unlinked'
      BY <2>1
    <2> QED
      BY <2>1, <2>2, <2>3, <2>4, <2>5, <2>6, <2>7 DEF MigrationInv, Opened, MigrateBefore
  <1> QED
    BY <1>9, <1>10, <1>11 DEF ConfigInv

(* Every step of the configuration keeps it one. *)
LEMMA ConfigNextInv ==
    ASSUME ConfigInv, ConfigNext
    PROVE  ConfigInv'
  BY LoadInv, TryMigrateInv, LinkLayerInv, OpenVersionInv, WriteVersionInv, OpenRepoInv, CreateCacheInv,
     ExportAllEntriesInv, RenameShareInv, RegisterInv, ReadConfigurationInv, SetConfigurationInv, OpenYamlInv,
     WriteYamlInv, DeleteRemoteInv, AddRemoteInv, RebuildCacheInv, CrashInv
  DEF ConfigNext

-----------------------------------------------------------------------------
(* The requests                                                            *)

Fields == {"pc", "url", "changed", "pulled"}

(* No request. *)
LEMMA IdleIs == Fields \subseteq DOMAIN Idle /\ Idle.pc = "idle"
  BY DEF Idle, Fields

(* A request is made to the server of the configuration. *)
LEMMA AskInvAsk ==
    ASSUME IInv, NEW kind, NEW items, NEW asked, NEW module, NEW force, Ask(kind, items, asked, module, force)
    PROVE  AskInv' /\ ask'.pc = "asked"
  <1>1. daemon.pc = "up" /\ daemon' = daemon
    BY DEF Ask, At, configVars
  <1>2. daemon.server = Url(daemon.cfg)
    BY <1>1 DEF IInv, ConfigInv, CallInv
  <1>3. Fields \subseteq DOMAIN ask' /\ ask'.pc = "asked" /\ ask'.url = createClientV2
    <2>1. PICK fuzzy \in Fuzzy(asked) :
            LET latest == IF kind = "install" THEN [fuzzy EXCEPT !.version = <<>>] ELSE fuzzy
                local  == clearReferenceLocal(items, latest)
                app    == \A i \in queryLayerItem(items, fuzzy.id) : i.kind = "app"
            IN  \E ref \in (IF local = {} THEN {NoRef} ELSE {{r} : r \in local}) :
                  ask' = [Idle EXCEPT !.pc = "asked", !.kind = kind, !.items = items, !.asked = fuzzy.version,
                                      !.fuzzy = Wanted(kind, fuzzy, ref, module, app),
                                      !.module = module, !.force = force, !.ref = ref,
                                      !.slow = <<kind, items, asked>> \in Slow,
                                      !.repo = daemon.cfg.default, !.url = createClientV2]
      BY Zenon DEF Ask
    <2> DEFINE app == \A i \in queryLayerItem(items, fuzzy.id) : i.kind = "app"
               want(ref) == Wanted(kind, fuzzy, ref, module, app)
               slow == <<kind, items, asked>> \in Slow
    <2>2. \E ref : ask' = [Idle EXCEPT !.pc = "asked", !.kind = kind, !.items = items, !.asked = fuzzy.version,
                                       !.fuzzy = want(ref), !.module = module, !.force = force, !.ref = ref,
                                       !.slow = slow, !.repo = daemon.cfg.default, !.url = createClientV2]
      BY <2>1, Zenon
    <2> HIDE DEF app, want, slow
    <2> QED
      BY <2>2 DEF Idle, Fields
  <1> QED
    BY <1>1, <1>2, <1>3 DEF AskInv, createClientV2, Fields

(* A layer file is taken, or a package shown: neither waits for a server. *)
LEMMA AskInvLocal ==
    ASSUME IInv, NEW items, NEW info, NEW force, InstallLayer(items, info, force) \/ Show(items, info)
    PROVE  AskInv' /\ ask'.pc \in {"taken", "shown"} /\ ask.pc = "idle"
  <1>1. \/ \E r, n : ask' = [Idle EXCEPT !.pc = "taken", !.kind = "layer", !.items = items, !.force = force,
                                         !.module = info.module, !.ref = r, !.found = {n}]
        \/ \E a, r : ask' = [Idle EXCEPT !.pc = "shown", !.kind = "info", !.items = items, !.asked = a,
                                         !.ref = {r}]
    BY DEF InstallLayer, Show
  <1>2. Fields \subseteq DOMAIN ask' /\ ask'.pc \in {"taken", "shown"}
    BY <1>1 DEF Idle, Fields
  <1>3. ask.pc = "idle"
    BY DEF InstallLayer, Show
  <1> QED
    BY <1>2, <1>3 DEF AskInv, Fields

(* The server answers. *)
LEMMA AskInvAnswer ==
    ASSUME IInv, Answer
    PROVE  AskInv' /\ ask'.pc \in {"listed", "queued", "refused"} /\ ask.pc = "asked"
  <1>1. daemon.pc = "up" /\ daemon' = daemon /\ ask.pc = "asked"
    BY DEF Answer, At, configVars
  <1>2. Fields \subseteq DOMAIN ask
    BY DEF IInv, AskInv, Fields
  <1>3. /\ Fields \subseteq DOMAIN ask' /\ ask'.pc \in {"listed", "queued", "refused"}
        /\ ask'.url = ask.url /\ ask'.changed = ask.changed
    <2>1. PICK list \in SetToSeqs(fuzzySearchApp(ask.repo, ask.fuzzy)) :
            LET found == clearReferenceRemote(list, ask.fuzzy, ask.module)
                takes == /\ found # NoRef
                         /\ IF ask.kind = "install"
                            THEN AcceptsInstall(ask.items, ask.ref, found, ask.module, ask.force)
                            ELSE AcceptsUpdate(ask.ref, found)
            IN  ask' = IF ask.kind = "list"
                       THEN [ask EXCEPT !.pc = "listed", !.found = found,
                               !.listed = listUpgradable(ask.items, list, ask.fuzzy, "app")]
                       ELSE [ask EXCEPT !.pc = IF takes THEN "queued" ELSE "refused", !.found = found]
      BY Zenon DEF Answer
    <2> DEFINE found == clearReferenceRemote(list, ask.fuzzy, ask.module)
               takes == /\ found # NoRef
                        /\ IF ask.kind = "install"
                           THEN AcceptsInstall(ask.items, ask.ref, found, ask.module, ask.force)
                           ELSE AcceptsUpdate(ask.ref, found)
               shown == listUpgradable(ask.items, list, ask.fuzzy, "app")
    <2>2. ask' = IF ask.kind = "list" THEN [ask EXCEPT !.pc = "listed", !.found = found, !.listed = shown]
                 ELSE [ask EXCEPT !.pc = IF takes THEN "queued" ELSE "refused", !.found = found]
      BY <2>1, Zenon
    <2> HIDE DEF found, takes, shown
    <2>3. CASE ask.kind = "list"
      BY <1>2, <2>2, <2>3 DEF Fields
    <2>4. CASE ask.kind # "list" /\ takes
      BY <1>2, <2>2, <2>4 DEF Fields
    <2>5. CASE ask.kind # "list" /\ ~takes
      BY <1>2, <2>2, <2>5 DEF Fields
    <2> QED
      BY <2>3, <2>4, <2>5
  <1> QED
    BY <1>1, <1>3 DEF IInv, AskInv, Fields

(* The daemon goes on while the request waits, or is killed with it. *)
LEMMA AskInvConfig ==
    ASSUME IInv, ConfigStep
    PROVE  AskInv' /\ ask'.pc \in {"idle", ask.pc}
  <1>1. Fields \subseteq DOMAIN ask
    BY DEF IInv, AskInv, Fields
  <1>2. CASE daemon'.pc = "down"
    <2>1. ask' = Idle
      BY <1>2 DEF ConfigStep
    <2> QED
      BY <2>1, IdleIs DEF AskInv, Fields
  <1>3. CASE daemon'.pc # "down" /\ daemon'.cfg # daemon.cfg /\ ask.pc # "idle"
    <2>1. ask' = [ask EXCEPT !.changed = TRUE]
      BY <1>3 DEF ConfigStep
    <2>2. Fields \subseteq DOMAIN ask' /\ ask'.pc = ask.pc
      BY <1>1, <2>1 DEF Fields
    <2>3. ask'.changed
      BY <1>1, <2>1 DEF Fields
    <2> QED
      BY <1>3, <2>2, <2>3 DEF AskInv, Fields
  <1>4. CASE daemon'.pc # "down" /\ (daemon'.cfg = daemon.cfg \/ ask.pc = "idle")
    <2>1. ask' = ask
      BY <1>4 DEF ConfigStep
    <2> QED
      BY <1>4, <2>1 DEF IInv, AskInv
  <1> QED
    BY <1>2, <1>3, <1>4

(* The task pulls what the request found. *)
LEMMA AskInvPull ==
    ASSUME IInv, Pull
    PROVE  /\ AskInv' /\ daemon.pc = "up" /\ ask.pc = "queued"
           /\ ask'.pc = "pulled" => ask'.pulled = remotes[daemon.cfg.default]
           /\ ask'.pc \in {"idle", "pulled"}
  <1>1. daemon.pc = "up" /\ ask.pc = "queued" /\ Fields \subseteq DOMAIN ask
    BY DEF Pull, At, IInv, AskInv, Fields
  <1>2. CASE ask' = Idle
    BY <1>1, <1>2, IdleIs DEF AskInv, Fields
  <1>3. CASE ask' = [ask EXCEPT !.pc = "pulled", !.pulled = remotes[daemon.cfg.default]]
    <2>1. Fields \subseteq DOMAIN ask' /\ ask'.pc = "pulled" /\ ask'.pulled = remotes[daemon.cfg.default]
      BY <1>1, <1>3 DEF Fields
    <2> QED
      BY <1>1, <2>1 DEF AskInv, Fields
  <1> QED
    BY <1>2, <1>3 DEF Pull

(* The request is over. *)
LEMMA AskInvOver ==
    ASSUME NoAnswer \/ Finish
    PROVE  AskInv' /\ ask'.pc = "idle"
  BY IdleIs DEF NoAnswer, Finish, AskInv, Fields

(* A request leaves the configuration as it is. *)
LEMMA ConfigUnchanged ==
    ASSUME ConfigInv, UNCHANGED configVars
    PROVE  ConfigInv'
  <1>1. /\ yaml' = yaml /\ remotes' = remotes /\ daemon' = daemon /\ clients' = clients /\ store' = store
        /\ spent' = spent /\ hist' = hist
    BY DEF configVars
  <1>2. Types' /\ ClientsInv' /\ CallInv'
    BY <1>1 DEF ConfigInv, Types, ClientsInv, CallInv, Setting
  <1>3. FileInv' /\ RemoteInv'
    BY <1>1 DEF ConfigInv, FileInv, RemoteInv, FileIsOf, RemoteIsOf, LoadsOldOrNew, Spoilt, At, loadConfig, Setting
  <1>4. MigrationInv'
    BY <1>1 DEF ConfigInv, MigrationInv, Unlinked, BeingLinked, MigrateBefore
  <1> QED
    BY <1>2, <1>3, <1>4 DEF ConfigInv

(* Every step keeps the invariant; only Pull gets a request to "pulled". *)
LEMMA NextIInv ==
    ASSUME IInv, [Next]_vars
    PROVE  IInv' /\ (ask.pc = "queued" /\ ask'.pc = "pulled" => Pull)
  <1>1. CASE ConfigStep
    <2>1. ConfigInv'
      BY <1>1, ConfigNextInv DEF ConfigStep, IInv
    <2> QED
      BY <1>1, <2>1, AskInvConfig DEF IInv
  <1>2. ASSUME NEW kind, NEW items, NEW asked, NEW module, NEW force, Ask(kind, items, asked, module, force)
        PROVE  IInv' /\ ask'.pc # "pulled"
    <2>1. UNCHANGED configVars
      BY <1>2 DEF Ask
    <2> QED
      BY <1>2, <2>1, ConfigUnchanged, AskInvAsk DEF IInv
  <1>3. ASSUME NEW items, NEW info, NEW force, InstallLayer(items, info, force) \/ Show(items, info)
        PROVE  IInv' /\ ask'.pc # "pulled"
    <2>1. UNCHANGED configVars
      BY <1>3 DEF InstallLayer, Show
    <2> QED
      BY <1>3, <2>1, ConfigUnchanged, AskInvLocal DEF IInv
  <1>4. CASE Answer
    <2>1. UNCHANGED configVars
      BY <1>4 DEF Answer
    <2> QED
      BY <1>4, <2>1, ConfigUnchanged, AskInvAnswer DEF IInv
  <1>5. CASE NoAnswer \/ Finish
    <2>1. UNCHANGED configVars
      BY <1>5 DEF NoAnswer, Finish
    <2> QED
      BY <1>5, <2>1, ConfigUnchanged, AskInvOver DEF IInv
  <1>6. CASE Pull
    <2>1. UNCHANGED configVars
      BY <1>6 DEF Pull
    <2> QED
      BY <1>6, <2>1, ConfigUnchanged, AskInvPull DEF IInv
  <1>7. CASE UNCHANGED vars
    <2>1. UNCHANGED configVars /\ ask' = ask /\ daemon' = daemon
      BY <1>7 DEF vars, configVars
    <2>2. AskInv'
      BY <2>1 DEF IInv, AskInv
    <2> QED
      BY <2>1, <2>2, ConfigUnchanged DEF IInv
  <1> QED
    BY <1>1, <1>2, <1>3, <1>4, <1>5, <1>6, <1>7 DEF Next

(* The inductive invariant always holds. *)
LEMMA Always == Spec => []IInv
  <1>1. IInv /\ [Next]_vars => IInv'
    BY NextIInv
  <1> QED
    BY InitIInv, <1>1, PTL DEF Spec

-----------------------------------------------------------------------------
(* What the invariant says                                                 *)

(* While the daemon waits for calls, the configuration in memory, the one  *)
(* it would load, the server it asks and the ostree remote are one; a      *)
(* daemon that dies would start with the old or the new one and never with *)
(* a refused one, unless the file was emptied and not written, unseen or   *)
(* by a kill (then it takes the shipped one), or could not be undone; and  *)
(* no command of ll-cli repo that was answered is lost, but for the marked *)
(* failures (OSTreeRepo::setConfig, PackageManager::setConfiguration).     *)
THEOREM OneConfiguration == Spec => []ConfigKept
  <1>1. IInv => ConfigKept
    <2> SUFFICES ASSUME IInv PROVE ConfigKept
      OBVIOUS
    <2>1. ConfigTypeOK
      BY DEF IInv, ConfigInv, Types, ConfigTypeOK, DaemonRecord, ClientRecord, StoreRecord
    <2>2. Agree
      <3>1. SUFFICES ASSUME daemon.pc = "up"
                     PROVE  /\ daemon.server = Url(daemon.cfg)
                            /\ loadConfig = daemon.cfg \/ Spoilt
                            /\ remotes[daemon.cfg.default] = Url(daemon.cfg) \/ "remote" \in hist.marks
        BY DEF Agree, At
      <3>2. ~Setting
        BY <3>1, NotSetting DEF IInv
      <3>3. daemon.server = Url(daemon.cfg)
        BY <3>1 DEF IInv, ConfigInv, CallInv
      <3>4. loadConfig = daemon.cfg \/ Spoilt
        BY <3>1, <3>2 DEF IInv, ConfigInv, FileInv, FileIsOf
      <3>5. remotes[daemon.cfg.default] = Url(daemon.cfg) \/ "remote" \in hist.marks
        BY <3>1 DEF IInv, ConfigInv, RemoteInv, RemoteIsOf
      <3> QED
        BY <3>3, <3>4, <3>5
    <2>3. LoadsOldOrNew
      BY DEF IInv, ConfigInv, FileInv
    <2>4. NoLostUpdate
      BY DEF IInv, ConfigInv, ClientsInv, NoLostUpdate, At
    <2> QED
      BY <2>1, <2>2, <2>3, <2>4 DEF ConfigKept
  <1> QED
    BY Always, <1>1, PTL

(* A migrated repository misses no more layers than its migration was cut. *)
LEMMA MigrationLoses ==
    ASSUME IInv
    PROVE  MigrationLosesOnePerCut
  <1>1. SUFFICES ASSUME daemon.pc = "up", store.refs # {}
                 PROVE  Cardinality(Unlinked) <= hist.cuts
    BY DEF MigrationLosesOnePerCut, At, Unlinked
  <1>2. ~daemon.failed /\ hist.cuts \in Nat
    BY <1>1 DEF IInv, ConfigInv, CallInv, Types, HistRecord
  <1>3. store.version \in {ThisVersion, <<>>} /\ BeingLinked = {}
    BY <1>1, <1>2 DEF IInv, ConfigInv, MigrationInv, Opened, BeingLinked
  <1>4. PICK l : Unlinked \subseteq {l}
    BY <1>1, <1>3 DEF IInv, ConfigInv, MigrationInv
  <1>5. Unlinked = {} \/ hist.cuts >= 1
    BY <1>1, <1>3 DEF IInv, ConfigInv, MigrationInv
  <1>6. CASE Unlinked = {}
    BY <1>2, <1>6, FS_EmptySet
  <1>7. CASE Unlinked # {}
    <2>1. Unlinked = {l}
      BY <1>4, <1>7
    <2>2. Cardinality({l}) = 1
      BY FS_Singleton
    <2> QED
      BY <1>2, <1>5, <1>7, <2>1, <2>2
  <1> QED
    BY <1>6, <1>7

(* The entries moved aside are back when the daemon serves. *)
LEMMA EntriesAreKept ==
    ASSUME IInv
    PROVE  EntriesKept
  BY DEF IInv, ConfigInv, MigrationInv, EntriesKept, At

(* A start fails without a fault only on an emptied .version, and then it  *)
(* does.                                                                   *)
LEMMA FailsOnlyTorn ==
    ASSUME IInv, ConfigNext
    PROVE  StartFailsOnlyTorn
  <1>0. ASSUME daemon.pc = "migrate", "version" \in hist.marks, daemon'.pc \notin {"migrate", "down"}
        PROVE  daemon'.failed
    <2>1. store.version = <<>> /\ daemon \in DaemonRecord
      BY <1>0 DEF IInv, ConfigInv, MigrationInv, Types
    <2>2. ~parseVersion(store.version) /\ store.version # ThisVersion
      BY <2>1, EmptyIsNoVersion, VersionsAssumption DEF parseVersion
    <2>3. ~Crash /\ ~Load
      BY <1>0 DEF Crash, Load, Down, At
    <2>4. tryMigrate
      <3>1. ~RemoteFails \/ ~(At("delete") \/ At("add"))
        BY <1>0 DEF At
      <3> QED
        BY <1>0, <2>3 DEF ConfigNext, At, LinkLayer, OpenVersion, WriteVersion, OpenRepo, CreateCache,
             exportAllEntries, RenameShare, Register, ReadConfiguration, SetConfiguration, OpenYaml, WriteYaml,
             DeleteRemote, AddRemote, RebuildCache
    <2>5. daemon' = [daemon EXCEPT !.pc = "opening", !.failed = TRUE]
      BY <2>2, <2>4 DEF tryMigrate
    <2> QED
      BY <2>1, <2>5 DEF DaemonRecord
  <1>1. SUFFICES ASSUME daemon'.failed, ~daemon.failed, spent' = spent
                 PROVE  "version" \in hist.marks
    BY <1>0 DEF StartFailsOnlyTorn, At
  <1>2. daemon \in DaemonRecord /\ spent \in Nat /\ spent' # spent + 1
    BY <1>1, MaxFaultsAssumption DEF IInv, ConfigInv, Types
  <1>3. daemon' # Down /\ daemon' # daemon
    BY <1>1 DEF Down
  <1>4. \A pc : daemon' # [daemon EXCEPT !.pc = pc]
    BY <1>1, <1>2 DEF DaemonRecord
  <1>5. CASE Load
    <2>1. ~daemon'.failed
      BY <1>5 DEF Load, Down
    <2> QED
      BY <1>1, <2>1
  <1>6. CASE tryMigrate
    <2>1. \A pc, t : daemon' # [daemon EXCEPT !.pc = pc, !.todo = t]
      BY <1>1, <1>2 DEF DaemonRecord
    <2>2. ~parseVersion(store.version)
      BY <1>2, <1>4, <1>6, <2>1 DEF tryMigrate, Goto
    <2>3. store.version = <<>>
      BY <2>2, VersionsAssumption DEF parseVersion, IInv, ConfigInv, Types, StoreRecord
    <2>4. daemon.pc = "migrate"
      BY <1>6 DEF tryMigrate, At
    <2> QED
      BY <2>3, <2>4 DEF IInv, ConfigInv, MigrationInv
  <1>7. CASE LinkLayer
    <2>1. \A t : daemon' # [daemon EXCEPT !.todo = t]
      BY <1>1, <1>2 DEF DaemonRecord
    <2> QED
      BY <1>2, <1>4, <1>7, <2>1 DEF LinkLayer, Goto
  <1>8. CASE OpenRepo
    <2>1. \A f \in BOOLEAN : daemon' # [daemon EXCEPT !.pc = "delete", !.fresh = f]
      BY <1>1, <1>2 DEF DaemonRecord
    <2>2. daemon' # [daemon EXCEPT !.pc = "delete", !.fresh = ~store.repo]
      BY <2>1, Zenon
    <2> QED
      BY <1>3, <1>8, <2>2 DEF OpenRepo
  <1>9. CASE OpenVersion \/ WriteVersion \/ CreateCache \/ exportAllEntries \/ RenameShare \/ Register
    BY <1>2, <1>3, <1>4, <1>9 DEF OpenVersion, WriteVersion, CreateCache, exportAllEntries, RenameShare, Register, Goto
  <1>10. ASSUME NEW c \in Clients, ReadConfiguration(c) \/ SetConfiguration(c)
         PROVE  FALSE
    <2>1. \A n : daemon' # [daemon EXCEPT !.pc = "open", !.new = n, !.client = c]
      BY <1>1, <1>2 DEF DaemonRecord
    <2> QED
      BY <1>3, <1>10, <2>1 DEF ReadConfiguration, SetConfiguration
  <1>11. CASE OpenYaml \/ WriteYaml \/ DeleteRemote \/ AddRemote \/ RebuildCache
    <2>1. ASSUME NEW ok \in BOOLEAN, Return(ok)
          PROVE  FALSE
      <3>1. PICK cfg, url : daemon' = [daemon EXCEPT !.pc = "up", !.cfg = cfg, !.new = cfg, !.back = FALSE,
                                                     !.client = NoClient, !.server = url]
        BY <2>1, Zenon DEF Return
      <3> QED
        BY <1>1, <1>2, <3>1 DEF DaemonRecord
    <2>2. \A pc : daemon' # [daemon EXCEPT !.pc = pc, !.back = TRUE]
      BY <1>1, <1>2 DEF DaemonRecord
    <2>3. ~RemoteFails
      BY <1>3, <1>4, <2>2 DEF RemoteFails, Undo
    <2> QED
      BY <1>2, <1>4, <1>11, <2>1, <2>2, <2>3
      DEF OpenYaml, WriteYaml, Written, DeleteRemote, AddRemote, RebuildCache, Goto, Undo
  <1>12. CASE Crash
    BY <1>3, <1>12 DEF Crash
  <1> QED
    BY <1>5, <1>6, <1>7, <1>8, <1>9, <1>10, <1>11, <1>12 DEF ConfigNext

(* Every start of the daemon brings back what the last one left halfway: a *)
(* migrated repository misses at most one layer for every cut of its       *)
(* migration, the launcher entries are in place unless they were lost      *)
(* between two renames, and a start fails by itself only, and always,      *)
(* where an earlier one emptied .version and was killed before it wrote it *)
(* or failed to, unseen (migrate.cpp, OSTreeRepo::exportAllEntries).       *)
THEOREM StartsRecover == Spec => StartRecovers
  <1>1. IInv => MigrationLosesOnePerCut /\ EntriesKept
    BY MigrationLoses, EntriesAreKept
  <1>2. IInv /\ (MigrationLosesOnePerCut /\ EntriesKept)' /\ [Next]_vars =>
          [MigrationLosesOnePerCut' /\ EntriesKept' /\ StartFailsOnlyTorn]_configVars
    <2> SUFFICES ASSUME IInv, [Next]_vars, configVars' # configVars
                 PROVE  StartFailsOnlyTorn
      OBVIOUS
    <2>1. ASSUME NEW kind, NEW items, NEW asked, NEW module, NEW force,
                 \/ Ask(kind, items, asked, module, force)
                 \/ InstallLayer(items, asked, force)
                 \/ Show(items, asked)
          PROVE  FALSE
      BY <2>1 DEF Ask, InstallLayer, Show
    <2>2. ~(Answer \/ NoAnswer \/ Pull \/ Finish)
      BY DEF Answer, NoAnswer, Pull, Finish
    <2>3. vars' # vars
      BY DEF vars
    <2>4. ConfigStep
      BY <2>1, <2>2, <2>3 DEF Next
    <2> QED
      BY <2>4, FailsOnlyTorn DEF ConfigStep
  <1> QED
    BY Always, <1>1, <1>2, PTL DEF Spec, StartRecovers

(* A task pulls the version it was queued for from the server that offered *)
(* it, unless the configuration was set in between or the remote could not *)
(* be changed with it (PackageManager::Install, Update; OSTreeRepo::pull). *)
THEOREM PulledFromItsServer == Spec => PulledWhereFound
  <1>1. IInv /\ [Next]_vars =>
          [ask'.pc = "pulled" /\ ask.pc = "queued"
             => ask'.pulled = ask.url \/ ask.changed \/ "remote" \in hist.marks]_vars
    <2> SUFFICES ASSUME IInv, [Next]_vars, ask'.pc = "pulled", ask.pc = "queued"
                 PROVE  ask'.pulled = ask.url \/ ask.changed \/ "remote" \in hist.marks
      OBVIOUS
    <2>1. Pull
      BY NextIInv
    <2>2. daemon.pc = "up" /\ ask'.pulled = remotes[daemon.cfg.default]
      BY <2>1, AskInvPull
    <2>3. remotes[daemon.cfg.default] = Url(daemon.cfg) \/ "remote" \in hist.marks
      BY <2>2 DEF IInv, ConfigInv, RemoteInv, RemoteIsOf
    <2>4. ask.url = Url(daemon.cfg) \/ ask.changed
      BY DEF IInv, AskInv
    <2> QED
      BY <2>2, <2>3, <2>4
  <1> QED
    BY Always, <1>1, PTL DEF Spec, PulledWhereFound

=============================================================================
