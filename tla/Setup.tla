--------------------------------- MODULE Setup ---------------------------------
(* The init command (src/src/init.ts, codex-init.ts): it reads every file it    *)
(* will touch, plans every write, then replaces the files one at a time, and    *)
(* may die between two of them.  The relay later reads what is on disk          *)
(* (loadConfig in config.ts) and refuses to serve an upstream it does not trust *)
(* (buildDeps in server.ts).                                                    *)
(*                                                                              *)
(* Five files: the user's SubSwitch configuration, the project's, Codex's       *)
(* config.toml and the two Claude Code settings files of the project.           *)
EXTENDS Naturals, Sequences

CONSTANTS
  Ports,         \* ports a user asks for
  DefaultPort,   \* the port of a configuration that names none
  HomeUrls,      \* sign-in mode -> upstream URLs on the host OpenAI serves it from
  LoopbackUrls,  \* loopback upstreams that are not the relay's own Codex endpoint
  ForeignUrls,   \* https upstreams on any other host
  UnsafeUrls,    \* URLs no upstream may have: cleartext, credentials, a query
  None,          \* a missing file, an absent key
  Broken,        \* a file that cannot be parsed, or a custom model_provider
  Refused,       \* a plan that is an error
  UserFiles,     \* the SubSwitch configurations the user starts with
  ProjectFiles,  \* and those the project starts with
  MaxRuns,       \* bound on the init commands of a behaviour
  MaxEdits       \* bound on the edits by hand between them

Modes == {"subscription", "api"}
Urls == HomeUrls["subscription"] \cup HomeUrls["api"] \cup LoopbackUrls \cup ForeignUrls \cup UnsafeUrls

(* The endpoint init gives Codex: http://127.0.0.1:<port>/codex/<path of mode>. *)
Endpoints == Ports \X Modes

Pointers == {"codex", "local", "shared"}
Files == Pointers \cup {"user", "project"}

(* A configuration file as far as setup reads it.  "defect" is a key loadConfig *)
(* rejects: one of an older layout, an unknown provider block, a wrong value.   *)
Empty == [port |-> None, ingress |-> None, trusted |-> None, defect |-> "none",
          urls |-> [m \in Modes |-> None]]

Configs == [port : Ports \cup {None}, ingress : BOOLEAN \cup {None}, trusted : BOOLEAN \cup {None},
            defect : {"none", "legacy", "unknown", "invalid"},
            urls : [Modes -> Urls \cup {None}]]

ASSUME SetupAssumption ==
  /\ None \notin Urls \cup Endpoints \cup Ports \cup BOOLEAN \cup Configs
  /\ Broken \notin Urls \cup Endpoints \cup Ports \cup Configs \cup {None}
  /\ Refused \notin Endpoints \cup Ports \cup Configs
  /\ Urls \cap Endpoints = {}
  /\ UserFiles \cup ProjectFiles \subseteq Configs \cup {None, Broken}
  /\ DefaultPort \in Ports

VARIABLES
  disk,    \* file -> what it holds
  select,  \* how the user's file is chosen: "implicit" (merged under the project's),
           \* "explicit" (SUBSWITCH_CONFIG names it) or "same" (it names the project's)
  mode,    \* how the user is signed in to Codex
  todo,    \* the writes still to do
  run,     \* the last init: its arguments, and "running", "done", "failed" or "idle"
  chosen,  \* the upstream the user last put into Codex's config.toml
  runs, edits

vars == <<disk, select, mode, todo, run, chosen, runs, edits>>

--------------------------------------------------------------------------------
(* What the relay makes of the files.                                           *)

Content(file) == IF file \in {None, Broken} THEN Empty ELSE file

(* mergeConfigObjects(): the overlay's keys win, one by one.                    *)
Over(value, base) == IF value = None THEN base ELSE value
mergeConfigObjects(base, overlay) ==
  [port    |-> Over(overlay.port, base.port),
   ingress |-> Over(overlay.ingress, base.ingress),
   trusted |-> Over(overlay.trusted, base.trusted),
   defect  |-> IF overlay.defect = "none" THEN base.defect ELSE overlay.defect,
   urls    |-> [m \in Modes |-> Over(overlay.urls[m], base.urls[m])]]

(* Strict parsing of one configuration: no rejected key, no unsafe upstream.    *)
Valid(config) == config.defect = "none" /\ \A m \in Modes : config.urls[m] \notin UnsafeUrls

(* vetCredentialUrl(): an upstream on a foreign host needs the opt-in.          *)
Expected(url, m) == url \in HomeUrls[m] \cup LoopbackUrls \cup Endpoints \cup {None}
vetCredentialUrl(config) == config.trusted = TRUE \/ \A m \in Modes : Expected(config.urls[m], m)

(* loadConfig(): the configuration of a relay started in the project or         *)
(* elsewhere.  A file chosen explicitly is the only source, and must exist.     *)
Sources(dir) == IF select = "implicit" /\ dir = "project" THEN {"user", "project"} ELSE {"user"}

loadConfig(dir) == IF "project" \in Sources(dir)
                     THEN mergeConfigObjects(Content(disk["user"]), Content(disk["project"]))
                     ELSE Content(disk["user"])

Starts(dir) == /\ \A f \in Sources(dir) : disk[f] # Broken
               /\ select # "implicit" => disk["user"] # None
               /\ Valid(loadConfig(dir))
               /\ vetCredentialUrl(loadConfig(dir))

ListensOn(dir) == Over(loadConfig(dir).port, DefaultPort)

--------------------------------------------------------------------------------
(* The plans.                                                                   *)

planSettingsWrite(settings, port) == IF settings = Broken THEN Refused ELSE port

(* Only the keys of an older layout are looked for here.                        *)
planConfigWrite(file, port) ==
  IF file = Broken \/ Content(file).defect = "legacy" THEN Refused
  ELSE [Content(file) EXCEPT !.port = port]

planCodexEndpoint(toml, port) == IF toml = Broken THEN Refused ELSE <<port, mode>>

(* An endpoint an earlier init wrote, for whatever port and sign-in.            *)
Owned(url) == url \in Endpoints

(* A custom upstream that the relay may take over from Codex.                   *)
AnyUpstream(url, trusted) == url \notin UnsafeUrls
Adoptable(url, trusted) ==
  /\ url \notin UnsafeUrls
  /\ Expected(url, mode) \/ trusted = TRUE

(* The user's configuration after setup: the port, the ingress switched on, and *)
(* the upstream Codex used until now.                                           *)
withIngress(config, previous, port) ==
  [config EXCEPT !.port = port, !.ingress = TRUE,
                 !.urls[mode] = IF previous = None \/ Owned(previous) THEN @ ELSE previous]

planUserConfig(file, previous, port) ==
  IF \/ file = Broken
     \/ previous # None /\ ~Owned(previous) /\ ~Adoptable(previous, Content(file).trusted)
     \/ ~Valid(withIngress(Content(file), previous, port))
    THEN Refused
    ELSE withIngress(Content(file), previous, port)

(* The project's configuration after setup of both clients.                     *)
PortOnly(config) == config
IngressOn(config) == [config EXCEPT !.ingress = TRUE]

Write(file, content) == [file |-> file, content |-> content]

(* executeInit(): the configuration first, then the settings that point at it.  *)
ConfigFile == IF select = "same" THEN "user" ELSE "project"

SettingsFirst(config, settings, target) == <<Write(target, settings), Write(ConfigFile, config)>>
ConfigFirst(config, settings, target) == <<Write(ConfigFile, config), Write(target, settings)>>

(* planCodexSetup(): the user's configuration, the project's when it is another *)
(* file, Codex's endpoint, and the Claude settings last.                        *)
EndpointFirst(client, user, project, endpoint, settings, target) ==
  <<Write("codex", endpoint), Write("user", user)>>
  \o (IF client = "all" /\ select # "same" THEN <<Write("project", IngressOn(project))>> ELSE <<>>)
  \o (IF client = "all" THEN <<Write(target, settings)>> ELSE <<>>)

SetupOrder(client, user, project, endpoint, settings, target) ==
  <<Write("user", user)>>
  \o (IF client = "all" /\ select # "same" THEN <<Write("project", IngressOn(project))>> ELSE <<>>)
  \o <<Write("codex", endpoint)>>
  \o (IF client = "all" THEN <<Write(target, settings)>> ELSE <<>>)

--------------------------------------------------------------------------------

Init ==
  /\ disk \in [user : UserFiles, project : ProjectFiles, codex : Urls \cup {None, Broken},
               local : {None, Broken}, shared : {None}]
  /\ select \in {"implicit", "explicit", "same"}
  /\ mode \in Modes
  /\ todo = <<>>
  /\ run = [client |-> "all", port |-> DefaultPort, target |-> "local", status |-> "idle"]
  /\ chosen = IF disk["codex"] \in Urls THEN disk["codex"] ELSE None
  /\ runs = 0 /\ edits = 0

Start(client, port, target, writes) ==
  /\ todo = <<>> /\ runs < MaxRuns
  /\ todo' = writes
  /\ run' = [client |-> client, port |-> port, target |-> target, status |-> "running"]
  /\ runs' = runs + 1
  /\ UNCHANGED <<disk, select, mode, chosen, edits>>

(* init for Claude Code.  A refused plan, a dry run or a cancelled prompt ends  *)
(* the command before its first write, and is no step here.                     *)
InitClaude(port, target) ==
  LET config   == planConfigWrite(disk[ConfigFile], port)
      settings == planSettingsWrite(disk[target], port) IN
  /\ Refused \notin {config, settings}
  /\ Start("claude-code", port, target, ConfigFirst(config, settings, target))

(* init --client codex, and init --client all, which sets up both.              *)
InitCodex(client, port, target) ==
  LET endpoint == planCodexEndpoint(disk["codex"], port)
      user     == planUserConfig(disk["user"], disk["codex"], port)
      project  == planConfigWrite(disk[ConfigFile], port)
      settings == planSettingsWrite(disk[target], port) IN
  /\ Refused \notin {endpoint, user}
  /\ client = "all" => Refused \notin {project, settings}
  /\ Start(client, port, target, SetupOrder(client, user, project, endpoint, settings, target))

(* One atomic replacement of a file.                                            *)
WriteNext ==
  /\ todo # <<>>
  /\ disk' = [disk EXCEPT ![Head(todo).file] = Head(todo).content]
  /\ todo' = Tail(todo)
  /\ run' = [run EXCEPT !.status = IF Tail(todo) = <<>> THEN "done" ELSE @]
  /\ UNCHANGED <<select, mode, chosen, runs, edits>>

(* A write throws, or the process dies before it: the rest is not written.      *)
WriteFails ==
  /\ todo # <<>>
  /\ todo' = <<>>
  /\ run' = [run EXCEPT !.status = "failed"]
  /\ UNCHANGED <<disk, select, mode, chosen, runs, edits>>

Edit == /\ todo = <<>> /\ edits < MaxEdits
        /\ edits' = edits + 1
        /\ run' = [run EXCEPT !.status = "idle"]
        /\ UNCHANGED <<select, todo, runs>>

(* The user points Codex at an upstream of their own choice,                    *)
PointCodexAt(url) ==
  /\ Edit
  /\ disk' = [disk EXCEPT !["codex"] = url]
  /\ chosen' = url
  /\ UNCHANGED mode

(* opts in to foreign upstreams, or signs in to Codex another way.              *)
Trust ==
  /\ Edit
  /\ disk["user"] # Broken
  /\ disk' = [disk EXCEPT !["user"] = [Content(disk["user"]) EXCEPT !.trusted = TRUE]]
  /\ UNCHANGED <<mode, chosen>>

SignIn ==
  /\ Edit
  /\ mode' \in Modes \ {mode}
  /\ UNCHANGED <<disk, chosen>>

Next ==
  \/ \E port \in Ports, target \in {"local", "shared"} :
       \/ InitClaude(port, target)
       \/ \E client \in {"codex", "all"} : InitCodex(client, port, target)
  \/ WriteNext \/ WriteFails
  \/ \E url \in Urls : PointCodexAt(url)
  \/ Trust \/ SignIn

Spec == Init /\ [][Next]_vars

--------------------------------------------------------------------------------
(* Properties.                                                                  *)

(* The upstream the user chose for Codex is never lost, whatever init is cut    *)
(* short or run again: Codex still uses it, or the relay's configuration holds  *)
(* it (codex-init.ts stores "previous" before it replaces the endpoint).        *)
UpstreamIsKept ==
  chosen = None \/ disk["codex"] = chosen \/ \E m \in Modes : Content(disk["user"]).urls[m] = chosen

(* The relay is never configured as its own upstream, although init finds its   *)
(* own endpoint in Codex's config.toml when it is run again, after a port or a  *)
(* sign-in changed or a run was cut short.                                      *)
NeverItsOwnUpstream ==
  \A f \in {"user", "project"}, m \in Modes : Content(disk[f]).urls[m] \notin Endpoints

(* Taking over Codex's upstream neither loses it nor makes a loop of it.        *)
UpstreamSurvives == UpstreamIsKept /\ NeverItsOwnUpstream

(* After a setup that ran to its end, a relay started in the project (outside   *)
(* it for Codex alone) listens where the clients were pointed, and serves Codex *)
(* if Codex was.  Claude Code alone is set up without regard to SUBSWITCH_CONFIG *)
(* and so only when that names no other file.                                   *)
Follows(dir, port) == Starts(dir) => ListensOn(dir) = port
SetupIsServed ==
  run.status = "done" =>
    CASE run.client = "claude-code" ->
           disk[run.target] = run.port /\ (select # "explicit" => Follows("project", run.port))
      [] run.client = "codex" ->
           disk["codex"][1] = run.port /\ Follows("elsewhere", run.port)
             /\ loadConfig("elsewhere").ingress = TRUE
      [] OTHER ->
           disk[run.target] = run.port /\ disk["codex"][1] = run.port
             /\ Follows("project", run.port) /\ loadConfig("project").ingress = TRUE

(* No write of init keeps a relay from starting that started before, wherever   *)
(* it is started: what init stores passes the checks of serve.  A project that  *)
(* withdraws the opt-in to foreign upstreams is excepted.                       *)
StartsAsBefore ==
  [][WriteNext => \A dir \in {"elsewhere", "project"} :
       Starts(dir) /\ (dir = "project" => Content(disk["project"]).trusted # FALSE) => Starts(dir)']_vars

(* The configuration of the relay a pointer is meant for: Codex's is started    *)
(* anywhere, Claude Code's in the project.                                      *)
Reader(pointer) == IF pointer = "codex" THEN "elsewhere" ELSE "project"
Backing(pointer) == loadConfig(Reader(pointer)).port
PortAt(pointer) == IF pointer = "codex" THEN disk["codex"][1] ELSE disk[pointer]

(* Claude Code alone is set up without regard to SUBSWITCH_CONFIG: the relay    *)
(* reads nothing of what init wrote when that names another file.               *)
Disregarded == run.client = "claude-code" /\ select = "explicit"

(* init.ts:323, codex-init.ts: the configuration comes first.  A write points a *)
(* client at a port only once the relay it points at would listen there.  It    *)
(* is about the pointers a run writes; the one an earlier run left is the       *)
(* matter of NoHarmfulPartialState.                                             *)
PointerComesLast ==
  [][WriteNext => \A p \in Pointers :
       disk'[p] # disk[p] /\ ~Disregarded => PortAt(p)' = Backing(p)]_vars

(* init.ts:323: "Write order is config-first: a dangling settings pointer       *)
(* (ANTHROPIC_BASE_URL pointing at a port with no config) is the harmful        *)
(* partial state": a run that was cut short leaves none.  Not so when init is   *)
(* run again for another port: the configuration has moved, and the settings of *)
(* the first run point at the old one.                                          *)
NoHarmfulPartialState ==
  run.status = "failed" /\ ~Disregarded /\ disk[run.target] \in Ports =>
    disk[run.target] = Backing(run.target)
================================================================================
