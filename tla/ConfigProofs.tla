------------------------------ MODULE ConfigProofs ------------------------------
(***************************************************************************)
(* What the configuration brings about, for any contents of it.  First the *)
(* safety properties of Setup for any ports, any upstreams and any files to *)
(* begin with, and for any number of init commands and edits; then, from   *)
(* "Names" on, those of NameEdits for any registry and catalog and any     *)
(* number of edits and releases.                                           *)
(***************************************************************************)
EXTENDS Setup, NameEdits, FiniteSetTheorems, FunctionTheorems, SequenceTheorems, WellFoundedInduction, TLAPS

(***************************************************************************)
(* Types.  That a configuration's upstreams are URLs, and never an endpoint *)
(* of the relay, is what NeverItsOwnUpstream comes down to.                 *)
(***************************************************************************)
ConfigFiles == {"user", "project"}
SettingsFiles == {"local", "shared"}

Writes == [file : ConfigFiles, content : Configs] \cup [file : {"codex"}, content : Endpoints]
          \cup [file : SettingsFiles, content : Ports]

TypeOK ==
  /\ disk \in [Files -> Configs \cup Urls \cup Endpoints \cup Ports \cup {None, Broken}]
  /\ \A f \in ConfigFiles : disk[f] \in Configs \cup {None, Broken}
  /\ disk["codex"] \in Urls \cup Endpoints \cup {None, Broken}
  /\ \A f \in SettingsFiles : disk[f] \in Ports \cup {None, Broken}
  /\ select \in {"implicit", "explicit", "same"}
  /\ mode \in Modes
  /\ todo \in Seq(Writes)
  /\ run \in [client : {"claude-code", "codex", "all"}, port : Ports, target : SettingsFiles,
              status : {"idle", "running", "done", "failed"}]
  /\ chosen \in Urls \cup {None}

(***************************************************************************)
(* The inductive invariant.  UpstreamIsKept is not inductive by itself: a   *)
(* write to Codex's file discards what it held, so the upstream must be in  *)
(* the user's configuration by then, or be written there first; and a write *)
(* to the user's configuration must not discard it there.                   *)
(***************************************************************************)
Holds(file) == chosen = None \/ \E m \in Modes : Content(file).urls[m] = chosen

Pending(f) == \E i \in 1 .. Len(todo) : todo[i].file = f
Earlier(i, f) == \E k \in 1 .. i - 1 : todo[k].file = f

KeepsUpstream ==
  /\ UpstreamIsKept
  /\ disk["codex"] \in Urls => disk["codex"] = chosen
  /\ \A i \in 1 .. Len(todo) :
       /\ todo[i].file = "user" =>
            Holds(todo[i].content) \/ (disk["codex"] = chosen /\ ~Pending("codex"))
       /\ todo[i].file = "codex" => Holds(disk["user"]) \/ Earlier(i, "user")

(* A file holds what a command is to bring about.                           *)
SetTo(command, f, content) ==
  CASE f \in ConfigFiles -> /\ Content(content).port = command.port
                            /\ command.client # "claude-code" => Content(content).ingress = TRUE
    [] f = "codex"       -> content \in Endpoints /\ content[1] = command.port
    [] OTHER             -> content = command.port

Required ==
  CASE run.client = "claude-code" -> {ConfigFile, run.target}
    [] run.client = "codex"       -> {"user", "codex"}
    [] OTHER                      -> {"user", ConfigFile, "codex", run.target}

(* The file of a command's own that the relay behind a pointer reads; of    *)
(* Claude Code alone, the one it writes.                                    *)
Backer(pointer) ==
  IF pointer = "codex" \/ (select = "explicit" /\ run.client # "claude-code") THEN "user" ELSE ConfigFile

(* Every file a command is to set is set or will be, and a pointer is       *)
(* written once the configuration behind it names the port.                 *)
InOrder ==
  /\ todo # <<>> => run.status = "running"
  /\ run.status = "done" => todo = <<>>
  /\ \A i \in 1 .. Len(todo) :
       /\ SetTo(run, todo[i].file, todo[i].content)
       /\ todo[i].file \in Pointers =>
            Content(disk[Backer(todo[i].file)]).port = run.port \/ Earlier(i, Backer(todo[i].file))
  /\ run.status \in {"running", "done"} =>
       \A f \in Required : SetTo(run, f, disk[f]) \/ Pending(f)

(* What a relay that starts accepts, it accepts of a configuration in which *)
(* an upstream was replaced by one that init has vetted.                    *)
Vetted(url, m, trusted) == url \notin UnsafeUrls \cup {None} /\ (Expected(url, m) \/ trusted = TRUE)
AsGood(old, new) ==
  /\ new \in Configs
  /\ new.defect = old.defect /\ new.trusted = old.trusted
  /\ \A m \in Modes : new.urls[m] = old.urls[m] \/ Vetted(new.urls[m], m, old.trusted)

(* The configurations still to be written were planned from what is on disk.*)
StoresVetted ==
  \A i \in 1 .. Len(todo) :
    todo[i].file \in ConfigFiles =>
      /\ disk[todo[i].file] # Broken /\ AsGood(Content(disk[todo[i].file]), todo[i].content)
      /\ \A k \in 1 .. Len(todo) : todo[k].file = todo[i].file => k = i

IInv == TypeOK /\ KeepsUpstream /\ InOrder /\ StoresVetted

(***************************************************************************)
(* What the plans produce.                                                  *)
(***************************************************************************)
LEMMA ContentTyped ==
  ASSUME NEW file \in Configs \cup {None, Broken}
  PROVE  Content(file) \in Configs
<1>1. Empty \in Configs
  BY DEF Empty, Configs, Modes
<1>2. QED
  BY <1>1 DEF Content

LEMMA ContentOfConfig ==
  ASSUME NEW config \in Configs
  PROVE  Content(config) = config
BY SetupAssumption DEF Content

LEMMA ConfigPlan ==
  ASSUME NEW file \in Configs \cup {None, Broken}, NEW port \in Ports,
         planConfigWrite(file, port) # Refused
  PROVE  /\ planConfigWrite(file, port) \in Configs
         /\ planConfigWrite(file, port).port = port
         /\ planConfigWrite(file, port).urls = Content(file).urls
         /\ file # Broken /\ AsGood(Content(file), planConfigWrite(file, port))
<1>1. Content(file) \in Configs
  BY ContentTyped
<1>2. planConfigWrite(file, port) = [Content(file) EXCEPT !.port = port] /\ file # Broken
  BY DEF planConfigWrite
<1>3. QED
  BY <1>1, <1>2 DEF Configs, AsGood

(* What the user's configuration becomes: it names the port, serves Codex,  *)
(* and holds the upstream that Codex used, or those it held before.         *)
LEMMA UserPlan ==
  ASSUME NEW file \in Configs \cup {None, Broken}, NEW port \in Ports, mode \in Modes,
         NEW previous \in Urls \cup Endpoints \cup {None},
         planUserConfig(file, previous, port) # Refused
  PROVE  /\ planUserConfig(file, previous, port) \in Configs
         /\ planUserConfig(file, previous, port).port = port
         /\ planUserConfig(file, previous, port).ingress = TRUE
         /\ previous \in Urls => planUserConfig(file, previous, port).urls[mode] = previous
         /\ previous \notin Urls => planUserConfig(file, previous, port).urls = Content(file).urls
         /\ file # Broken /\ AsGood(Content(file), planUserConfig(file, previous, port))
<1> DEFINE url == IF previous = None \/ Owned(previous) THEN Content(file).urls[mode] ELSE previous
           urls == [Content(file).urls EXCEPT ![mode] = url]
<1>1. Content(file) \in Configs
  BY ContentTyped
<1>2. planUserConfig(file, previous, port) = [Content(file) EXCEPT !.port = port, !.ingress = TRUE, !.urls = urls]
  BY <1>1 DEF planUserConfig, withIngress, Configs
<1>3. Content(file).urls \in [Modes -> Urls \cup {None}]
  BY <1>1 DEF Configs
<1>4. url = IF previous \in Urls THEN previous ELSE Content(file).urls[mode]
  BY SetupAssumption DEF Owned
<1> HIDE DEF url
<1>5. /\ urls \in [Modes -> Urls \cup {None}]
      /\ previous \in Urls => urls[mode] = previous
      /\ previous \notin Urls => urls = Content(file).urls
  BY <1>3, <1>4
<1> HIDE DEF urls
<1>6. /\ planUserConfig(file, previous, port) \in Configs
      /\ planUserConfig(file, previous, port).port = port
      /\ planUserConfig(file, previous, port).ingress = TRUE
      /\ planUserConfig(file, previous, port).urls = urls
      /\ planUserConfig(file, previous, port).defect = Content(file).defect
      /\ planUserConfig(file, previous, port).trusted = Content(file).trusted
  BY <1>1, <1>2, <1>5 DEF Configs
<1>7. /\ file # Broken
      /\ previous \in Urls => Vetted(previous, mode, Content(file).trusted)
  <2>1. file # Broken /\ (previous = None \/ Owned(previous) \/ Adoptable(previous, Content(file).trusted))
    BY DEF planUserConfig
  <2>2. QED
    BY <2>1, SetupAssumption DEF Owned, Adoptable, Vetted
<1>8. ASSUME NEW m \in Modes
      PROVE  urls[m] = Content(file).urls[m] \/ Vetted(urls[m], m, Content(file).trusted)
  <2>1. m # mode => urls[m] = Content(file).urls[m]
    BY <1>3 DEF urls
  <2>2. QED
    BY <1>5, <1>7, <2>1
<1>9. QED
  BY <1>5, <1>6, <1>7, <1>8 DEF AsGood

LEMMA ConcatIndex ==
  ASSUME NEW S, NEW s \in Seq(S), NEW t \in Seq(S)
  PROVE  /\ s \o t \in Seq(S) /\ Len(s \o t) = Len(s) + Len(t)
         /\ \A i \in 1 .. Len(s) : (s \o t)[i] = s[i]
         /\ \A i \in 1 .. Len(t) : (s \o t)[Len(s) + i] = t[i]
<1>1. Len(s) \in Nat /\ Len(t) \in Nat
  OBVIOUS
<1>2. /\ s \o t \in Seq(S) /\ Len(s \o t) = Len(s) + Len(t)
      /\ \A i \in 1 .. Len(s) + Len(t) : (s \o t)[i] = IF i <= Len(s) THEN s[i] ELSE t[i - Len(s)]
  BY ConcatProperties
<1>3. \A i \in 1 .. Len(s) : (s \o t)[i] = s[i]
  BY <1>1, <1>2
<1>4. ASSUME NEW i \in 1 .. Len(t) PROVE (s \o t)[Len(s) + i] = t[i]
  <2>1. Len(s) + i \in 1 .. Len(s) + Len(t) /\ ~(Len(s) + i <= Len(s)) /\ (Len(s) + i) - Len(s) = i
    BY <1>1
  <2>2. QED
    BY <1>2, <2>1
<1>5. QED
  BY <1>2, <1>3, <1>4

(* The order of the writes, file by file.                                   *)
LEMMA ClaudeWrites ==
  ASSUME NEW config, NEW settings, NEW target,
         Write(ConfigFile, config) \in Writes, Write(target, settings) \in Writes,
         NEW writes, writes = ConfigFirst(config, settings, target)
  PROVE  /\ writes \in Seq(Writes) /\ Len(writes) = 2
         /\ writes[1] = Write(ConfigFile, config) /\ writes[2] = Write(target, settings)
BY DEF ConfigFirst

LEMMA CodexWrites ==
  ASSUME NEW client \in {"codex", "all"}, NEW user, NEW project, NEW endpoint, NEW settings, NEW target,
         Write("user", user) \in Writes, Write("codex", endpoint) \in Writes,
         client = "all" => Write("project", IngressOn(project)) \in Writes /\ Write(target, settings) \in Writes,
         NEW writes, writes = SetupOrder(client, user, project, endpoint, settings, target)
  PROVE  /\ writes \in Seq(Writes)
         /\ writes[1] = Write("user", user)
         /\ client = "codex" => Len(writes) = 2 /\ writes[2] = Write("codex", endpoint)
         /\ client = "all" /\ select = "same" =>
              Len(writes) = 3 /\ writes[2] = Write("codex", endpoint) /\ writes[3] = Write(target, settings)
         /\ client = "all" /\ select # "same" =>
              /\ Len(writes) = 4 /\ writes[2] = Write("project", IngressOn(project))
              /\ writes[3] = Write("codex", endpoint) /\ writes[4] = Write(target, settings)
<1> DEFINE first == <<Write("user", user)>>
           second == IF client = "all" /\ select # "same" THEN <<Write("project", IngressOn(project))>> ELSE <<>>
           third == <<Write("codex", endpoint)>>
           last == IF client = "all" THEN <<Write(target, settings)>> ELSE <<>>
<1>1. /\ first \in Seq(Writes) /\ Len(first) = 1 /\ first[1] = Write("user", user)
      /\ third \in Seq(Writes) /\ Len(third) = 1 /\ third[1] = Write("codex", endpoint)
  OBVIOUS
<1>2. /\ second \in Seq(Writes)
      /\ client = "all" /\ select # "same" => Len(second) = 1 /\ second[1] = Write("project", IngressOn(project))
      /\ ~(client = "all" /\ select # "same") => Len(second) = 0
  OBVIOUS
<1>3. /\ last \in Seq(Writes)
      /\ client = "all" => Len(last) = 1 /\ last[1] = Write(target, settings)
      /\ client = "codex" => Len(last) = 0
  OBVIOUS
<1>4. writes = ((first \o second) \o third) \o last
  BY DEF SetupOrder
<1> HIDE DEF first, second, third, last
<1> DEFINE two == first \o second
           three == two \o third
<1>5. /\ two \in Seq(Writes) /\ Len(two) = 1 + Len(second) /\ two[1] = first[1]
      /\ Len(second) = 1 => two[2] = second[1]
  <2>1. /\ two \in Seq(Writes) /\ Len(two) = 1 + Len(second)
        /\ \A i \in 1 .. 1 : two[i] = first[i]
        /\ \A i \in 1 .. Len(second) : two[1 + i] = second[i]
    BY <1>1, <1>2, ConcatIndex
  <2>2. QED
    BY <2>1
<1> HIDE DEF two
<1>6. /\ three \in Seq(Writes) /\ Len(three) = Len(two) + 1
      /\ \A i \in 1 .. Len(two) : three[i] = two[i]
      /\ three[Len(two) + 1] = third[1]
  <2>1. /\ three \in Seq(Writes) /\ Len(three) = Len(two) + 1
        /\ \A i \in 1 .. Len(two) : three[i] = two[i]
        /\ \A i \in 1 .. 1 : three[Len(two) + i] = third[i]
    BY <1>1, <1>5, ConcatIndex
  <2>2. QED
    BY <2>1
<1> HIDE DEF three
<1>7. /\ writes \in Seq(Writes) /\ Len(writes) = Len(three) + Len(last)
      /\ \A i \in 1 .. Len(three) : writes[i] = three[i]
      /\ Len(last) = 1 => writes[Len(three) + 1] = last[1]
  <2>1. writes = three \o last
    BY <1>4 DEF two, three
  <2>2. /\ writes \in Seq(Writes) /\ Len(writes) = Len(three) + Len(last)
        /\ \A i \in 1 .. Len(three) : writes[i] = three[i]
        /\ \A i \in 1 .. Len(last) : writes[Len(three) + i] = last[i]
    <3>1. last \in Seq(Writes) /\ three \in Seq(Writes)
      BY <1>3, <1>6
    <3>2. QED
      BY <2>1, <3>1, ConcatIndex
  <2>3. QED
    BY <2>2
<1>8. CASE client = "all" /\ select # "same"
  <2>1. Len(two) = 2 /\ Len(three) = 3 /\ Len(writes) = 4
    <3>1. Len(second) = 1 /\ Len(last) = 1
      BY <1>2, <1>3, <1>8
    <3>2. Len(two) = 2
      BY <1>5, <3>1
    <3>3. Len(three) = 3
      BY <1>6, <3>2
    <3>4. QED
      BY <1>7, <3>1, <3>2, <3>3
  <2>2. three[1] = first[1] /\ three[2] = second[1] /\ three[3] = third[1]
    BY <1>2, <1>5, <1>6, <1>8, <2>1
  <2>3. writes[1] = first[1] /\ writes[2] = second[1] /\ writes[3] = third[1] /\ writes[4] = last[1]
    <3>1. Len(last) = 1
      BY <1>3, <1>8
    <3>2. QED
      BY <1>7, <2>1, <2>2, <3>1
  <2>4. QED
    BY <1>1, <1>2, <1>3, <1>7, <1>8, <2>1, <2>3
<1>9. CASE ~(client = "all" /\ select # "same")
  <2>1. Len(two) = 1 /\ Len(three) = 2 /\ Len(writes) = 2 + Len(last)
    BY <1>2, <1>5, <1>6, <1>7, <1>9
  <2>2. three[1] = first[1] /\ three[2] = third[1]
    BY <1>5, <1>6, <2>1
  <2>3. writes[1] = first[1] /\ writes[2] = third[1]
    BY <1>7, <2>1, <2>2
  <2>4. CASE client = "codex"
    <3>1. Len(writes) = 2
      BY <1>3, <2>1, <2>4
    <3>2. QED
      BY <1>1, <1>7, <2>3, <2>4, <3>1
  <2>5. CASE client = "all"
    <3>1. Len(last) = 1 /\ last[1] = Write(target, settings)
      BY <1>3, <2>5
    <3>2. Len(writes) = 3 /\ writes[3] = last[1]
      BY <1>7, <2>1, <3>1
    <3>3. QED
      BY <1>1, <1>7, <1>9, <2>3, <2>5, <3>1, <3>2
  <2>6. QED
    BY <2>4, <2>5
<1>10. QED
  BY <1>8, <1>9

--------------------------------------------------------------------------------
LEMMA InitIInv == Init => IInv
<1> SUFFICES ASSUME Init PROVE IInv
  OBVIOUS
<1> USE SetupAssumption
<1>1. /\ disk["user"] \in Configs \cup {None, Broken} /\ disk["project"] \in Configs \cup {None, Broken}
      /\ disk["codex"] \in Urls \cup {None, Broken}
      /\ disk["local"] \in {None, Broken} /\ disk["shared"] \in {None, Broken}
      /\ disk \in [Files -> Configs \cup Urls \cup Endpoints \cup Ports \cup {None, Broken}]
  BY DEF Init, Files, Pointers
<1>2. todo = <<>> /\ todo \in Seq(Writes) /\ Len(todo) = 0
  BY DEF Init
<1>3. chosen = IF disk["codex"] \in Urls THEN disk["codex"] ELSE None
  BY DEF Init
<1>4. TypeOK
  BY <1>1, <1>2, <1>3 DEF Init, TypeOK, ConfigFiles, SettingsFiles
<1>5. KeepsUpstream
  BY <1>2, <1>3 DEF KeepsUpstream, UpstreamIsKept
<1>6. InOrder
  BY <1>2 DEF Init, InOrder
<1>7. StoresVetted
  BY <1>2 DEF StoresVetted
<1>8. QED
  BY <1>4, <1>5, <1>6, <1>7 DEF IInv

(***************************************************************************)
(* A command begins: its writes are typed, set what it is to set, each      *)
(* pointer after the configuration behind it, and keep the upstream.        *)
(***************************************************************************)
LEMMA BeginIInv ==
  ASSUME IInv, NEW client \in {"claude-code", "codex", "all"}, NEW port \in Ports,
         NEW target \in SettingsFiles, NEW writes \in Seq(Writes), writes # <<>>,
         Start(client, port, target, writes),
         \A i \in 1 .. Len(writes) : SetTo(run', writes[i].file, writes[i].content),
         \A i \in 1 .. Len(writes) : writes[i].file \in Pointers =>
           \E k \in 1 .. i - 1 : writes[k].file = Backer(writes[i].file)',
         \A f \in Required' : \E i \in 1 .. Len(writes) : writes[i].file = f,
         \A i \in 1 .. Len(writes) : writes[i].file = "user" =>
           \/ Holds(writes[i].content)
           \/ disk["codex"] = chosen /\ \A k \in 1 .. Len(writes) : writes[k].file # "codex",
         \A i \in 1 .. Len(writes) : writes[i].file \in ConfigFiles =>
           /\ disk[writes[i].file] # Broken /\ AsGood(Content(disk[writes[i].file]), writes[i].content)
           /\ \A k \in 1 .. Len(writes) : writes[k].file = writes[i].file => k = i
  PROVE  IInv'
<1>1. /\ todo' = writes /\ disk' = disk /\ select' = select /\ mode' = mode /\ chosen' = chosen
      /\ run' = [client |-> client, port |-> port, target |-> target, status |-> "running"]
  BY DEF Start
<1>2. TypeOK'
  BY <1>1 DEF IInv, TypeOK
<1>3. /\ \A f \in Files : Pending(f)' <=> \E i \in 1 .. Len(writes) : writes[i].file = f
      /\ \A i \in 1 .. Len(writes), f \in Files : Earlier(i, f)' <=> \E k \in 1 .. i - 1 : writes[k].file = f
      /\ \A i \in 1 .. Len(writes) : Holds(writes[i].content)' <=> Holds(writes[i].content)
  BY <1>1 DEF Pending, Earlier, Holds
<1>4. "codex" \in Files /\ "user" \in Files /\ Pointers \subseteq Files /\ Backer("codex")' = "user"
  BY DEF Files, Pointers, Backer
<1>5. KeepsUpstream'
  <2>1. UpstreamIsKept' /\ (disk["codex"] \in Urls => disk["codex"] = chosen)'
    BY <1>1 DEF IInv, KeepsUpstream, UpstreamIsKept
  <2>2. ASSUME NEW i \in 1 .. Len(writes), writes[i].file = "user"
        PROVE  Holds(writes[i].content)' \/ (disk["codex"] = chosen /\ ~Pending("codex"))'
    BY <1>1, <1>3, <1>4, <2>2
  <2>3. ASSUME NEW i \in 1 .. Len(writes), writes[i].file = "codex"
        PROVE  Earlier(i, "user")'
    BY <1>3, <1>4, <2>3 DEF Pointers
  <2>4. QED
    BY <1>1, <2>1, <2>2, <2>3 DEF KeepsUpstream
<1>6. InOrder'
  <2>1. run'.status = "running" /\ todo' # <<>>
    BY <1>1
  <2>2. ASSUME NEW i \in 1 .. Len(writes), writes[i].file \in Pointers
        PROVE  Earlier(i, Backer(writes[i].file))'
    <3>1. \E k \in 1 .. i - 1 : writes[k].file = Backer(writes[i].file)'
      BY <2>2
    <3>2. QED
      BY <1>1, <3>1 DEF Earlier
  <2>3. ASSUME NEW f \in Required'
        PROVE  Pending(f)'
    BY <1>1, <2>3 DEF Pending
  <2>4. QED
    BY <1>1, <2>1, <2>2, <2>3 DEF InOrder
<1>7. StoresVetted'
  BY <1>1 DEF StoresVetted
<1>8. QED
  BY <1>2, <1>5, <1>6, <1>7 DEF IInv

LEMMA WriteFields ==
  ASSUME NEW f, NEW content
  PROVE  Write(f, content).file = f /\ Write(f, content).content = content
BY DEF Write

LEMMA InitClaudeIInv ==
  ASSUME IInv, NEW port \in Ports, NEW target \in SettingsFiles, InitClaude(port, target)
  PROVE  IInv'
<1>1. PICK config, writes :
        /\ config = planConfigWrite(disk[ConfigFile], port) /\ config # Refused
        /\ writes = ConfigFirst(config, port, target)
        /\ Start("claude-code", port, target, writes)
  BY DEF InitClaude, planSettingsWrite
<1>2. /\ ConfigFile \in ConfigFiles /\ ConfigFile' = ConfigFile
      /\ ConfigFile \notin Pointers /\ target \in Pointers /\ target # "codex" /\ target \notin ConfigFiles
      /\ disk[ConfigFile] \in Configs \cup {None, Broken}
  BY <1>1 DEF ConfigFile, ConfigFiles, SettingsFiles, Pointers, IInv, TypeOK, Start
<1>3. config \in Configs /\ config.port = port /\ config.urls = Content(disk[ConfigFile]).urls
      /\ Content(config) = config /\ disk[ConfigFile] # Broken /\ AsGood(Content(disk[ConfigFile]), config)
  BY <1>1, <1>2, ConfigPlan, ContentOfConfig
<1>4. writes \in Seq(Writes) /\ Len(writes) = 2
      /\ writes[1] = Write(ConfigFile, config) /\ writes[2] = Write(target, port)
  <2>1. Write(ConfigFile, config) \in Writes /\ Write(target, port) \in Writes
    BY <1>2, <1>3 DEF Write, Writes
  <2>2. QED
    BY <1>1, <2>1, ClaudeWrites
<1>5. /\ writes[1].file = ConfigFile /\ writes[1].content = config
      /\ writes[2].file = target /\ writes[2].content = port
  BY <1>4, WriteFields
<1>6. writes # <<>> /\ \A i \in 1 .. Len(writes) : i = 1 \/ i = 2
  <2>1. Len(writes) = 2 /\ Len(<<>>) = 0
    BY <1>4
  <2>2. \A i \in 1 .. 2 : i = 1 \/ i = 2
    OBVIOUS
  <2>3. QED
    BY <2>1, <2>2
<1>7. run' = [client |-> "claude-code", port |-> port, target |-> target, status |-> "running"]
  BY <1>1 DEF Start
<1>8. \A i \in 1 .. Len(writes) : SetTo(run', writes[i].file, writes[i].content)
  <2>1. SetTo(run', ConfigFile, config)
    BY <1>2, <1>3, <1>7 DEF SetTo, ConfigFiles
  <2>2. SetTo(run', target, port)
    BY <1>2, <1>7 DEF SetTo
  <2>3. QED
    BY <1>5, <1>6, <2>1, <2>2
<1>9. \A i \in 1 .. Len(writes) : writes[i].file \in Pointers =>
        \E k \in 1 .. i - 1 : writes[k].file = Backer(writes[i].file)'
  <2>1. writes[1].file = Backer(writes[2].file)' /\ 1 \in 1 .. 2 - 1 /\ writes[1].file \notin Pointers
    BY <1>2, <1>5, <1>7 DEF Backer
  <2>2. QED
    BY <1>6, <2>1
<1>10. \A f \in Required' : \E i \in 1 .. Len(writes) : writes[i].file = f
  <2>1. Required' = {ConfigFile, target}
    BY <1>2, <1>7 DEF Required
  <2>2. QED
    BY <1>4, <1>5, <2>1
<1>11. \A i \in 1 .. Len(writes) : writes[i].file = "user" =>
         \/ Holds(writes[i].content)
         \/ disk["codex"] = chosen /\ \A k \in 1 .. Len(writes) : writes[k].file # "codex"
  <2>1. \A k \in 1 .. Len(writes) : writes[k].file # "codex"
    BY <1>2, <1>5, <1>6 DEF Pointers
  <2>2. ConfigFile = "user" => Holds(config) \/ disk["codex"] = chosen
    BY <1>3 DEF IInv, KeepsUpstream, UpstreamIsKept, Holds
  <2>3. \A i \in 1 .. Len(writes) : writes[i].file = "user" => writes[i].content = config /\ ConfigFile = "user"
    BY <1>2, <1>5, <1>6 DEF ConfigFiles
  <2>4. QED
    BY <2>1, <2>2, <2>3
<1>12. \A i \in 1 .. Len(writes) : writes[i].file \in ConfigFiles =>
         /\ disk[writes[i].file] # Broken /\ AsGood(Content(disk[writes[i].file]), writes[i].content)
         /\ \A k \in 1 .. Len(writes) : writes[k].file = writes[i].file => k = i
  BY <1>2, <1>3, <1>5, <1>6
<1>13. QED
  <2> HIDE DEF IInv
  <2>1. "claude-code" \in {"claude-code", "codex", "all"} /\ Start("claude-code", port, target, writes)
    BY <1>1
  <2>2. QED
    BY <1>4, <1>6, <1>8, <1>9, <1>10, <1>11, <1>12, <2>1, BeginIInv

LEMMA InitCodexIInv ==
  ASSUME IInv, NEW client \in {"codex", "all"}, NEW port \in Ports, NEW target \in SettingsFiles,
         InitCodex(client, port, target)
  PROVE  IInv'
<1>1. PICK user, project, writes :
        /\ disk["codex"] # Broken
        /\ user = planUserConfig(disk["user"], disk["codex"], port) /\ user # Refused
        /\ client = "all" => project = planConfigWrite(disk[ConfigFile], port) /\ project # Refused
        /\ writes = SetupOrder(client, user, project, <<port, mode>>, port, target)
        /\ Start(client, port, target, writes)
  <2>1. CASE client = "all"
    BY <2>1 DEF InitCodex, planSettingsWrite, planCodexEndpoint
  <2>2. CASE client = "codex"
    <3>1. SetupOrder(client, planUserConfig(disk["user"], disk["codex"], port), planConfigWrite(disk[ConfigFile], port),
                     <<port, mode>>, planSettingsWrite(disk[target], port), target)
          = SetupOrder(client, planUserConfig(disk["user"], disk["codex"], port), planConfigWrite(disk[ConfigFile], port),
                       <<port, mode>>, port, target)
      BY <2>2 DEF SetupOrder
    <3>2. QED
      BY <2>2, <3>1 DEF InitCodex, planCodexEndpoint
  <2>3. QED
    BY <2>1, <2>2
<1>2. /\ ConfigFile' = ConfigFile /\ ConfigFile = IF select = "same" THEN "user" ELSE "project"
      /\ target \in Pointers /\ target # "codex" /\ target \notin ConfigFiles
      /\ disk["user"] \in Configs \cup {None, Broken} /\ disk[ConfigFile] \in Configs \cup {None, Broken}
      /\ disk["codex"] \in Urls \cup Endpoints \cup {None} /\ mode \in Modes /\ <<port, mode>> \in Endpoints
  BY <1>1 DEF ConfigFile, ConfigFiles, SettingsFiles, Pointers, IInv, TypeOK, Start, Endpoints
<1>3. /\ user \in Configs /\ user.port = port /\ user.ingress = TRUE /\ Content(user) = user
      /\ disk["codex"] \in Urls => user.urls[mode] = disk["codex"]
      /\ disk["codex"] \notin Urls => user.urls = Content(disk["user"]).urls
      /\ disk["user"] # Broken /\ AsGood(Content(disk["user"]), user)
  <2> DEFINE plan == planUserConfig(disk["user"], disk["codex"], port)
  <2>1. /\ plan # Refused /\ mode \in Modes /\ disk["user"] \in Configs \cup {None, Broken}
        /\ disk["codex"] \in Urls \cup Endpoints \cup {None}
    BY <1>1, <1>2
  <2>2. /\ plan \in Configs /\ plan.port = port /\ plan.ingress = TRUE
        /\ disk["codex"] \in Urls => plan.urls[mode] = disk["codex"]
        /\ disk["codex"] \notin Urls => plan.urls = Content(disk["user"]).urls
        /\ disk["user"] # Broken /\ AsGood(Content(disk["user"]), plan)
    <3>1. \A file \in Configs \cup {None, Broken}, previous \in Urls \cup Endpoints \cup {None} :
            planUserConfig(file, previous, port) # Refused =>
              /\ planUserConfig(file, previous, port) \in Configs
              /\ planUserConfig(file, previous, port).port = port
              /\ planUserConfig(file, previous, port).ingress = TRUE
              /\ previous \in Urls => planUserConfig(file, previous, port).urls[mode] = previous
              /\ previous \notin Urls => planUserConfig(file, previous, port).urls = Content(file).urls
              /\ file # Broken /\ AsGood(Content(file), planUserConfig(file, previous, port))
      BY ONLY <2>1, UserPlan, port \in Ports
    <3>2. QED
      BY <2>1, <3>1
  <2>3. QED
    BY <1>1, <2>2, ContentOfConfig
<1>4. client = "all" =>
        /\ IngressOn(project) \in Configs /\ Content(IngressOn(project)) = IngressOn(project)
        /\ IngressOn(project).port = port /\ IngressOn(project).ingress = TRUE
        /\ disk[ConfigFile] # Broken /\ AsGood(Content(disk[ConfigFile]), IngressOn(project))
  <2>1. SUFFICES ASSUME client = "all"
                 PROVE  /\ IngressOn(project) \in Configs
                        /\ IngressOn(project).port = port /\ IngressOn(project).ingress = TRUE
                        /\ disk[ConfigFile] # Broken /\ AsGood(Content(disk[ConfigFile]), IngressOn(project))
    BY ContentOfConfig
  <2>2. /\ project \in Configs /\ project.port = port
        /\ disk[ConfigFile] # Broken /\ AsGood(Content(disk[ConfigFile]), project)
    BY <1>1, <1>2, <2>1, ConfigPlan
  <2>3. QED
    BY <2>2 DEF IngressOn, Configs, AsGood
<1>5. Holds(user)
  <2>1. CASE disk["codex"] \in Urls
    BY <1>2, <1>3, <2>1 DEF Holds, IInv, KeepsUpstream
  <2>2. CASE disk["codex"] \notin Urls
    <3>1. chosen = None \/ disk["codex"] # chosen
      BY <2>2 DEF IInv, TypeOK
    <3>2. QED
      BY <1>3, <2>2, <3>1 DEF Holds, IInv, KeepsUpstream, UpstreamIsKept
  <2>3. QED
    BY <2>1, <2>2
<1>6. /\ writes \in Seq(Writes)
      /\ writes[1] = Write("user", user)
      /\ client = "codex" => Len(writes) = 2 /\ writes[2] = Write("codex", <<port, mode>>)
      /\ client = "all" /\ select = "same" =>
           Len(writes) = 3 /\ writes[2] = Write("codex", <<port, mode>>) /\ writes[3] = Write(target, port)
      /\ client = "all" /\ select # "same" =>
           /\ Len(writes) = 4 /\ writes[2] = Write("project", IngressOn(project))
           /\ writes[3] = Write("codex", <<port, mode>>) /\ writes[4] = Write(target, port)
  <2>1. /\ Write("user", user) \in Writes /\ Write("codex", <<port, mode>>) \in Writes
        /\ Write(target, port) \in Writes
        /\ client = "all" => Write("project", IngressOn(project)) \in Writes
    BY <1>2, <1>3, <1>4 DEF Write, Writes, ConfigFiles
  <2>2. QED
    BY <1>1, <2>1, CodexWrites
<1>7. /\ writes # <<>> /\ 1 \in 1 .. Len(writes)
      /\ writes[1].file = "user" /\ writes[1].content = user
      /\ \A i \in 1 .. Len(writes) :
           \/ i = 1
           \/ /\ writes[i].file = "project" /\ writes[i].content = IngressOn(project) /\ i = 2
              /\ client = "all" /\ select # "same"
           \/ /\ writes[i].file = "codex" /\ writes[i].content = <<port, mode>> /\ 1 \in 1 .. i - 1
           \/ /\ writes[i].file = target /\ writes[i].content = port /\ client = "all" /\ 1 \in 1 .. i - 1
              /\ select # "same" => 2 \in 1 .. i - 1 /\ writes[2].file = "project"
      /\ \E i \in 1 .. Len(writes) : writes[i].file = "codex"
      /\ client = "all" => \E i \in 1 .. Len(writes) : writes[i].file = target
      /\ client = "all" /\ select # "same" => \E i \in 1 .. Len(writes) : writes[i].file = "project"
  <2>0. \A f, content : Write(f, content).file = f /\ Write(f, content).content = content
    BY WriteFields
  <2>1. CASE client = "codex"
    <3>1. Len(writes) = 2 /\ writes[1] = Write("user", user) /\ writes[2] = Write("codex", <<port, mode>>)
      BY <1>6, <2>1
    <3>2. QED
      BY <2>0, <2>1, <3>1
  <2>2. CASE client = "all" /\ select = "same"
    <3>1. /\ Len(writes) = 3 /\ writes[1] = Write("user", user) /\ writes[2] = Write("codex", <<port, mode>>)
          /\ writes[3] = Write(target, port)
      BY <1>6, <2>2
    <3>2. QED
      BY <2>0, <2>2, <3>1
  <2>3. CASE client = "all" /\ select # "same"
    <3>1. /\ Len(writes) = 4 /\ writes[1] = Write("user", user) /\ writes[2] = Write("project", IngressOn(project))
          /\ writes[3] = Write("codex", <<port, mode>>) /\ writes[4] = Write(target, port)
      BY <1>6, <2>3
    <3>2. QED
      BY <2>0, <2>3, <3>1
  <2>4. QED
    BY <2>1, <2>2, <2>3
<1>8. run' = [client |-> client, port |-> port, target |-> target, status |-> "running"]
  BY <1>1 DEF Start
<1>9. ASSUME NEW i \in 1 .. Len(writes)
      PROVE  SetTo(run', writes[i].file, writes[i].content)
  <2>1. SetTo(run', "user", user)
    BY <1>3, <1>8 DEF SetTo, ConfigFiles
  <2>2. client = "all" => SetTo(run', "project", IngressOn(project))
    BY <1>4, <1>8 DEF SetTo, ConfigFiles
  <2>3. SetTo(run', "codex", <<port, mode>>)
    BY <1>2, <1>8 DEF SetTo, ConfigFiles
  <2>4. SetTo(run', target, port)
    BY <1>2, <1>8 DEF SetTo, ConfigFiles
  <2>5. QED
    BY <1>7, <2>1, <2>2, <2>3, <2>4
<1>10. ASSUME NEW i \in 1 .. Len(writes), writes[i].file \in Pointers
       PROVE  \E k \in 1 .. i - 1 : writes[k].file = Backer(writes[i].file)'
  <2>1. CASE writes[i].file = "codex"
    BY <1>2, <1>7, <2>1 DEF Backer
  <2>2. CASE writes[i].file = target
    <3>1. Backer(writes[i].file)' = IF select = "explicit" THEN "user" ELSE ConfigFile
      <4>1. select' = select /\ run'.client # "claude-code"
        BY <1>1, <1>8 DEF Start
      <4>2. QED
        BY <1>2, <2>2, <4>1 DEF Backer
    <3>2. 1 \in 1 .. i - 1 /\ (select # "same" => 2 \in 1 .. i - 1 /\ writes[2].file = "project")
      <4>1. writes[i].file # "user" /\ writes[i].file # "project" /\ writes[i].file # "codex"
        BY <1>2, <2>2 DEF ConfigFiles
      <4>2. QED
        BY <1>7, <4>1
    <3>3. CASE select \in {"same", "explicit"}
      <4>1. Backer(writes[i].file)' = "user"
        BY <1>2, <3>1, <3>3
      <4>2. QED
        BY <1>7, <3>2, <4>1
    <3>4. CASE select \notin {"same", "explicit"}
      <4>1. Backer(writes[i].file)' = "project"
        BY <1>2, <3>1, <3>4
      <4>2. QED
        BY <3>1, <3>2, <3>4, <4>1
    <3>5. QED
      BY <3>3, <3>4
  <2>3. QED
    BY <1>7, <1>10, <2>1, <2>2 DEF Pointers
<1>11. \A f \in Required' : \E i \in 1 .. Len(writes) : writes[i].file = f
  <2>1. Required' = IF client = "codex" THEN {"user", "codex"} ELSE {"user", ConfigFile, "codex", target}
    BY <1>2, <1>8 DEF Required
  <2>2. QED
    BY <1>2, <1>7, <2>1
<1>12. \A i \in 1 .. Len(writes) : writes[i].file = "user" => Holds(writes[i].content)
  <2>1. \A i \in 1 .. Len(writes) : writes[i].file = "user" => i = 1
    BY <1>2, <1>7 DEF ConfigFiles
  <2>2. QED
    BY <1>5, <1>7, <2>1
<1>13. /\ \A i \in 1 .. Len(writes) : SetTo(run', writes[i].file, writes[i].content)
       /\ \A i \in 1 .. Len(writes) : writes[i].file \in Pointers =>
            \E k \in 1 .. i - 1 : writes[k].file = Backer(writes[i].file)'
  BY <1>9, <1>10
<1>14. client \in {"claude-code", "codex", "all"} /\ writes \in Seq(Writes) /\ writes # <<>>
       /\ Start(client, port, target, writes)
  BY <1>1, <1>6, <1>7
<1>15. ASSUME NEW i \in 1 .. Len(writes), writes[i].file \in ConfigFiles
       PROVE  /\ disk[writes[i].file] # Broken /\ AsGood(Content(disk[writes[i].file]), writes[i].content)
              /\ \A k \in 1 .. Len(writes) : writes[k].file = writes[i].file => k = i
  <2>1. "codex" \notin ConfigFiles /\ target \notin ConfigFiles /\ "user" # "project"
    BY <1>2 DEF ConfigFiles
  <2>2. CASE i = 1
    <3>1. \A k \in 1 .. Len(writes) : writes[k].file = "user" => k = 1
      BY <1>7, <2>1, <1>2 DEF ConfigFiles
    <3>2. QED
      BY <1>3, <1>7, <2>2, <3>1
  <2>3. CASE i # 1
    <3>1. writes[i].file = "project" /\ writes[i].content = IngressOn(project) /\ client = "all" /\ select # "same"
          /\ i = 2
      BY <1>7, <1>15, <2>1, <2>3
    <3>2. ConfigFile = "project"
      BY <1>2, <3>1
    <3>3. \A k \in 1 .. Len(writes) : writes[k].file = "project" => k = 2
      BY <1>7, <2>1, <1>2 DEF ConfigFiles
    <3>4. QED
      BY <1>4, <3>1, <3>2, <3>3
  <2>4. QED
    BY <2>2, <2>3
<1>16. QED
  BY <1>11, <1>12, <1>13, <1>14, <1>15, BeginIInv

(***************************************************************************)
(* One file is replaced.                                                    *)
(***************************************************************************)
LEMMA WriteNextFacts ==
  ASSUME TypeOK, WriteNext
  PROVE  /\ 1 \in 1 .. Len(todo) /\ todo[1] \in Writes /\ todo[1].file \in Files
         /\ disk'[todo[1].file] = todo[1].content
         /\ \A f \in Files : f # todo[1].file => disk'[f] = disk[f]
         /\ disk' = [disk EXCEPT ![todo[1].file] = todo[1].content]
         /\ todo' \in Seq(Writes) /\ Len(todo) \in Nat /\ Len(todo') = Len(todo) - 1
         /\ \A i \in 1 .. Len(todo') : i + 1 \in 2 .. Len(todo) /\ todo'[i] = todo[i + 1]
         /\ \A i \in 2 .. Len(todo) : i - 1 \in 1 .. Len(todo') /\ todo'[i - 1] = todo[i]
         /\ select' = select /\ mode' = mode /\ chosen' = chosen
         /\ run' = [run EXCEPT !.status = IF todo' = <<>> THEN "done" ELSE @]
<1>1. todo \in Seq(Writes) /\ todo # <<>> /\ todo' = Tail(todo) /\ Head(todo) = todo[1]
  BY DEF TypeOK, WriteNext
<1>2. 1 \in 1 .. Len(todo) /\ todo[1] \in Writes /\ Len(todo) \in Nat
  BY <1>1
<1>3. todo[1].file \in Files
  BY <1>2 DEF Writes, Files, Pointers, ConfigFiles, SettingsFiles
<1>4. disk' = [disk EXCEPT ![todo[1].file] = todo[1].content]
  BY <1>1 DEF WriteNext
<1>5. /\ disk'[todo[1].file] = todo[1].content
      /\ \A f \in Files : f # todo[1].file => disk'[f] = disk[f]
  BY <1>3, <1>4 DEF TypeOK
<1>6. /\ todo' \in Seq(Writes) /\ Len(todo') = Len(todo) - 1
      /\ \A i \in 1 .. Len(todo') : todo'[i] = todo[i + 1]
  BY <1>1, HeadTailProperties
<1>7. \A i \in 2 .. Len(todo) : i - 1 \in 1 .. Len(todo') /\ todo'[i - 1] = todo[i]
  <2>1. ASSUME NEW i \in 2 .. Len(todo) PROVE i - 1 \in 1 .. Len(todo') /\ todo'[i - 1] = todo[i]
    <3>1. i - 1 \in 1 .. Len(todo') /\ (i - 1) + 1 = i
      BY <1>2, <1>6
    <3>2. todo'[i - 1] = todo[(i - 1) + 1]
      BY <1>6, <3>1
    <3>3. QED
      BY <3>1, <3>2
  <2>2. QED
    BY <2>1
<1>8. \A i \in 1 .. Len(todo') : i + 1 \in 2 .. Len(todo)
  BY <1>2, <1>6
<1>9. run' = [run EXCEPT !.status = IF todo' = <<>> THEN "done" ELSE @] /\ select' = select /\ mode' = mode
      /\ chosen' = chosen
  BY <1>1 DEF WriteNext
<1>10. QED
  BY <1>2, <1>3, <1>4, <1>5, <1>6, <1>7, <1>8, <1>9

LEMMA WriteNextTypes ==
  ASSUME TypeOK, WriteNext
  PROVE  TypeOK'
<1>1. /\ todo[1] \in Writes /\ todo[1].file \in Files
      /\ disk' = [disk EXCEPT ![todo[1].file] = todo[1].content]
      /\ disk'[todo[1].file] = todo[1].content
      /\ \A f \in Files : f # todo[1].file => disk'[f] = disk[f]
      /\ todo' \in Seq(Writes) /\ select' = select /\ mode' = mode /\ chosen' = chosen
      /\ run' = [run EXCEPT !.status = IF todo' = <<>> THEN "done" ELSE @]
  BY WriteNextFacts
<1>2. /\ todo[1].file \in ConfigFiles => todo[1].content \in Configs
      /\ todo[1].file = "codex" => todo[1].content \in Endpoints
      /\ todo[1].file \in SettingsFiles => todo[1].content \in Ports
      /\ todo[1].content \in Configs \cup Endpoints \cup Ports
  BY <1>1 DEF Writes, ConfigFiles, SettingsFiles
<1>3. disk' \in [Files -> Configs \cup Urls \cup Endpoints \cup Ports \cup {None, Broken}]
  BY <1>1, <1>2 DEF TypeOK
<1>4. \A f \in ConfigFiles : disk'[f] \in Configs \cup {None, Broken}
  BY <1>1, <1>2 DEF TypeOK, ConfigFiles, Files, Pointers
<1>5. disk'["codex"] \in Urls \cup Endpoints \cup {None, Broken}
  BY <1>1, <1>2 DEF TypeOK, Files, Pointers
<1>6. \A f \in SettingsFiles : disk'[f] \in Ports \cup {None, Broken}
  BY <1>1, <1>2 DEF TypeOK, SettingsFiles, Files, Pointers
<1>7. run' \in [client : {"claude-code", "codex", "all"}, port : Ports, target : SettingsFiles,
                status : {"idle", "running", "done", "failed"}]
  BY <1>1 DEF TypeOK
<1>8. QED
  BY <1>1, <1>3, <1>4, <1>5, <1>6, <1>7 DEF TypeOK

LEMMA WriteNextKeeps ==
  ASSUME TypeOK, KeepsUpstream, WriteNext
  PROVE  KeepsUpstream'
<1> DEFINE f == todo[1].file
           content == todo[1].content
<1>1. /\ 1 \in 1 .. Len(todo) /\ todo[1] \in Writes /\ f \in Files /\ Len(todo) \in Nat
      /\ disk'[f] = content /\ \A g \in Files : g # f => disk'[g] = disk[g]
      /\ chosen' = chosen
      /\ \A i \in 1 .. Len(todo') : i + 1 \in 2 .. Len(todo) /\ todo'[i] = todo[i + 1]
  BY WriteNextFacts
<1>2. "codex" \in Files /\ "user" \in Files
  BY DEF Files, Pointers
<1>3. f = "codex" => content \in Endpoints
  BY <1>1 DEF Writes, ConfigFiles, SettingsFiles
<1>4. f = "codex" => Holds(disk["user"])
  <2>1. f = "codex" => Holds(disk["user"]) \/ Earlier(1, "user")
    BY <1>1 DEF KeepsUpstream
  <2>2. ~Earlier(1, "user")
    BY DEF Earlier
  <2>3. QED
    BY <2>1, <2>2
<1>5. f = "user" => Holds(content) \/ (disk["codex"] = chosen /\ ~Pending("codex"))
  BY <1>1 DEF KeepsUpstream
<1>6. UpstreamIsKept'
  <2>1. Holds(disk'["user"]) \/ disk'["codex"] = chosen
    <3>1. CASE f = "codex"
      BY <1>1, <1>2, <1>4, <3>1
    <3>2. CASE f = "user"
      BY <1>1, <1>2, <1>5, <3>2
    <3>3. CASE f # "codex" /\ f # "user"
      BY <1>1, <1>2, <3>3 DEF KeepsUpstream, UpstreamIsKept, Holds
    <3>4. QED
      BY <3>1, <3>2, <3>3
  <2>2. QED
    BY <1>1, <2>1 DEF UpstreamIsKept, Holds
<1>7. disk'["codex"] \in Urls => disk'["codex"] = chosen'
  BY <1>1, <1>2, <1>3, SetupAssumption DEF KeepsUpstream
<1>8. ASSUME NEW i \in 1 .. Len(todo'), todo'[i].file = "user"
      PROVE  Holds(todo[i].content)' \/ (disk["codex"] = chosen /\ ~Pending("codex"))'
  <2>1. todo'[i] = todo[i + 1] /\ i + 1 \in 1 .. Len(todo)
    BY <1>1
  <2>2. Holds(todo[i + 1].content) \/ (disk["codex"] = chosen /\ ~Pending("codex"))
    BY <1>8, <2>1 DEF KeepsUpstream
  <2>3. Holds(todo[i + 1].content) => Holds(todo[i].content)'
    BY <1>1, <2>1 DEF Holds
  <2>4. ASSUME disk["codex"] = chosen, ~Pending("codex")
        PROVE  (disk["codex"] = chosen /\ ~Pending("codex"))'
    <3>1. f # "codex"
      BY <1>1, <2>4 DEF Pending
    <3>2. ~Pending("codex")'
      BY <1>1, <2>4 DEF Pending
    <3>3. QED
      BY <1>1, <1>2, <2>4, <3>1, <3>2
  <2>5. QED
    BY <2>2, <2>3, <2>4
<1>9. ASSUME NEW i \in 1 .. Len(todo'), todo'[i].file = "codex"
      PROVE  Holds(disk["user"])' \/ Earlier(i, "user")'
  <2>1. todo'[i] = todo[i + 1] /\ i + 1 \in 1 .. Len(todo)
    BY <1>1
  <2>2. Holds(disk["user"]) \/ Earlier(i + 1, "user")
    BY <1>9, <2>1 DEF KeepsUpstream
  <2>3. Pending("codex")
    BY <1>9, <2>1 DEF Pending
  <2>4. CASE f = "user"
    BY <1>1, <1>2, <1>5, <2>3, <2>4 DEF Holds
  <2>5. CASE f # "user"
    <3>1. CASE Holds(disk["user"])
      BY <1>1, <1>2, <2>5, <3>1 DEF Holds
    <3>2. CASE Earlier(i + 1, "user")
      <4>1. PICK k \in 1 .. i : todo[k].file = "user"
        BY <3>2 DEF Earlier
      <4>2. k # 1 /\ k \in 2 .. Len(todo) /\ k - 1 \in 1 .. i - 1 /\ k - 1 \in 1 .. Len(todo')
            /\ (k - 1) + 1 = k
        <5>1. k # 1
          BY <2>5, <4>1
        <5>2. i \in 1 .. Len(todo') /\ Len(todo) \in Nat /\ i + 1 \in 1 .. Len(todo)
          BY <1>1, <1>9, <2>1
        <5>3. Len(todo') \in Nat
          BY <5>2
        <5>4. QED
          BY <4>1, <5>1, <5>2, <5>3
      <4>3. todo'[k - 1] = todo[k]
        BY <1>1, <4>2
      <4>4. QED
        BY <4>1, <4>2, <4>3 DEF Earlier
    <3>3. QED
      BY <2>2, <3>1, <3>2
  <2>6. QED
    BY <2>4, <2>5
<1>10. QED
  BY <1>6, <1>7, <1>8, <1>9 DEF KeepsUpstream

LEMMA WriteNextInOrder ==
  ASSUME TypeOK, InOrder, WriteNext
  PROVE  InOrder'
<1> DEFINE f == todo[1].file
           content == todo[1].content
<1>1. /\ 1 \in 1 .. Len(todo) /\ todo[1] \in Writes /\ f \in Files /\ Len(todo) \in Nat
      /\ disk'[f] = content /\ \A g \in Files : g # f => disk'[g] = disk[g]
      /\ \A i \in 1 .. Len(todo') : i + 1 \in 2 .. Len(todo) /\ todo'[i] = todo[i + 1]
      /\ \A i \in 2 .. Len(todo) : i - 1 \in 1 .. Len(todo') /\ todo'[i - 1] = todo[i]
      /\ select' = select
      /\ run' = [run EXCEPT !.status = IF todo' = <<>> THEN "done" ELSE @]
  BY WriteNextFacts
<1>2. run.status = "running"
  BY DEF InOrder, WriteNext
<1>3. /\ run'.port = run.port /\ run'.client = run.client /\ run'.target = run.target
      /\ run'.status = IF todo' = <<>> THEN "done" ELSE "running"
  BY <1>1, <1>2 DEF TypeOK
<1>4. ConfigFile' = ConfigFile /\ ConfigFile \in ConfigFiles /\ ConfigFiles \subseteq Files
  BY <1>1 DEF ConfigFile, ConfigFiles, Files
<1>5. \A g, c : SetTo(run', g, c) <=> SetTo(run, g, c)
  BY <1>3 DEF SetTo
<1>6. SetTo(run, f, content)
  BY <1>1 DEF InOrder
<1>7. ASSUME NEW i \in 1 .. Len(todo') PROVE SetTo(run', todo'[i].file, todo'[i].content)
  <2>1. todo'[i] = todo[i + 1] /\ i + 1 \in 1 .. Len(todo)
    BY <1>1
  <2>2. SetTo(run, todo[i + 1].file, todo[i + 1].content)
    BY <2>1 DEF InOrder
  <2>3. QED
    BY <1>5, <2>1, <2>2
<1>8. \A p \in Pointers : Backer(p)' = Backer(p) /\ Backer(p) \in ConfigFiles
  BY <1>1, <1>3, <1>4 DEF Backer, ConfigFiles
<1>9. ASSUME NEW i \in 1 .. Len(todo'), todo'[i].file \in Pointers
      PROVE  \/ Content(disk'[Backer(todo'[i].file)]).port = run'.port
             \/ \E k \in 1 .. i - 1 : todo'[k].file = Backer(todo'[i].file)
  <2>1. PICK b : b = Backer(todo'[i].file)
    OBVIOUS
  <2>2. todo'[i] = todo[i + 1] /\ i + 1 \in 1 .. Len(todo)
    BY <1>1
  <2>3. b \in ConfigFiles /\ b = Backer(todo[i + 1].file)
    BY <1>8, <1>9, <2>1, <2>2
  <2>4. Content(disk[b]).port = run.port \/ Earlier(i + 1, b)
    BY <1>9, <2>2, <2>3 DEF InOrder
  <2>5. CASE f = b
    <3>1. Content(content).port = run.port
      BY <1>6, <2>3, <2>5 DEF SetTo, ConfigFiles
    <3>2. QED
      BY <1>1, <1>3, <2>1, <2>5, <3>1
  <2>6. CASE f # b
    <3>1. CASE Content(disk[b]).port = run.port
      BY <1>1, <1>3, <1>4, <2>1, <2>3, <2>6, <3>1
    <3>2. CASE Earlier(i + 1, b)
      <4>1. PICK k \in 1 .. i : todo[k].file = b
        BY <3>2 DEF Earlier
      <4>2. k # 1
        BY <1>1, <2>6, <4>1
      <4>3. Len(todo) \in Nat /\ i \in Nat
        BY <1>1, <2>2
      <4>4. k \in 2 .. Len(todo) /\ k - 1 \in 1 .. i - 1
        BY <2>2, <4>1, <4>2, <4>3
      <4>5. todo'[k - 1] = todo[k]
        BY <1>1, <4>4
      <4>6. QED
        BY <2>1, <4>1, <4>4, <4>5
    <3>3. QED
      BY <2>4, <3>1, <3>2
  <2>7. QED
    BY <2>5, <2>6
<1>10. Required' = Required /\ Required \subseteq Files
  BY <1>3, <1>4 DEF Required, TypeOK, Files, Pointers, SettingsFiles
<1>11. ASSUME NEW g \in Required PROVE SetTo(run', g, disk'[g]) \/ Pending(g)'
  <2>1. SetTo(run, g, disk[g]) \/ Pending(g)
    BY <1>2 DEF InOrder
  <2>2. CASE f = g
    BY <1>1, <1>5, <1>6, <2>2
  <2>3. CASE f # g /\ SetTo(run, g, disk[g])
    BY <1>1, <1>5, <1>10, <2>3
  <2>4. CASE f # g /\ Pending(g)
    <3>1. PICK k \in 1 .. Len(todo) : todo[k].file = g
      BY <2>4 DEF Pending
    <3>2. k \in 2 .. Len(todo)
      BY <1>1, <2>4, <3>1
    <3>3. k - 1 \in 1 .. Len(todo') /\ todo'[k - 1] = todo[k]
      BY <1>1, <3>2
    <3>4. QED
      BY <3>1, <3>3 DEF Pending
  <2>5. QED
    BY <2>1, <2>2, <2>3, <2>4
<1>12. (todo' # <<>> => run'.status = "running") /\ (run'.status = "done" => todo' = <<>>)
  BY <1>3
<1>13. QED
  <2>1. /\ \A i \in 1 .. Len(todo') : SetTo(run', todo'[i].file, todo'[i].content)
        /\ \A g \in Required' : SetTo(run', g, disk'[g]) \/ Pending(g)'
    BY <1>7, <1>10, <1>11
  <2>2. ASSUME NEW i \in 1 .. Len(todo'), todo'[i].file \in Pointers
        PROVE  (Content(disk[Backer(todo[i].file)]).port = run.port \/ Earlier(i, Backer(todo[i].file)))'
    <3>1. Backer(todo[i].file)' = Backer(todo'[i].file)
      BY <1>1, <1>3, <1>4 DEF Backer
    <3>2. QED
      BY <1>9, <2>2, <3>1 DEF Earlier
  <2>3. QED
    BY <1>12, <2>1, <2>2 DEF InOrder

(* What is still to be written was planned from other files than this one.  *)
LEMMA WriteNextVetted ==
  ASSUME TypeOK, StoresVetted, WriteNext
  PROVE  StoresVetted'
<1>1. /\ 1 \in 1 .. Len(todo) /\ Len(todo) \in Nat
      /\ \A g \in Files : g # todo[1].file => disk'[g] = disk[g]
      /\ \A i \in 1 .. Len(todo') : i + 1 \in 2 .. Len(todo) /\ todo'[i] = todo[i + 1]
      /\ \A i \in 2 .. Len(todo) : i - 1 \in 1 .. Len(todo') /\ todo'[i - 1] = todo[i]
  BY WriteNextFacts
<1>2. SUFFICES ASSUME NEW i \in 1 .. Len(todo'), todo'[i].file \in ConfigFiles
               PROVE  /\ disk'[todo'[i].file] # Broken /\ AsGood(Content(disk'[todo'[i].file]), todo'[i].content)
                      /\ \A k \in 1 .. Len(todo') : todo'[k].file = todo'[i].file => k = i
  BY DEF StoresVetted
<1>3. i + 1 \in 1 .. Len(todo) /\ i + 1 # 1 /\ todo'[i] = todo[i + 1]
  BY <1>1
<1>4. /\ disk[todo[i + 1].file] # Broken /\ AsGood(Content(disk[todo[i + 1].file]), todo[i + 1].content)
      /\ \A k \in 1 .. Len(todo) : todo[k].file = todo[i + 1].file => k = i + 1
  BY <1>2, <1>3 DEF StoresVetted
<1>5. todo[i + 1].file # todo[1].file /\ todo[i + 1].file \in Files
  BY <1>1, <1>2, <1>3, <1>4 DEF ConfigFiles, Files
<1>6. disk'[todo[i + 1].file] = disk[todo[i + 1].file]
  BY <1>1, <1>5
<1>7. ASSUME NEW k \in 1 .. Len(todo'), todo'[k].file = todo'[i].file PROVE k = i
  <2>1. k + 1 \in 1 .. Len(todo) /\ todo'[k] = todo[k + 1]
    BY <1>1
  <2>2. k + 1 = i + 1
    BY <1>3, <1>4, <1>7, <2>1
  <2>3. QED
    BY <2>2
<1>8. QED
  BY <1>3, <1>4, <1>6, <1>7

(***************************************************************************)
(* The steps between two commands, and one cut short.                       *)
(***************************************************************************)
LEMMA EditIInv ==
  ASSUME IInv, (\E url \in Urls : PointCodexAt(url)) \/ Trust \/ SignIn
  PROVE  IInv'
<1>1. /\ todo = <<>> /\ todo' = <<>> /\ select' = select
      /\ run' = [run EXCEPT !.status = "idle"]
  BY DEF PointCodexAt, Trust, SignIn, Edit
<1>2. run' \in [client : {"claude-code", "codex", "all"}, port : Ports, target : SettingsFiles,
                status : {"idle", "running", "done", "failed"}] /\ run'.status = "idle"
  BY <1>1 DEF IInv, TypeOK
<1>3. todo' \in Seq(Writes) /\ Len(todo') = 0
  BY <1>1
<1>4. InOrder'
  BY <1>1, <1>2, <1>3 DEF InOrder
<1>5. "codex" \in Files /\ "user" \in Files /\ "codex" \notin ConfigFiles /\ "codex" \notin SettingsFiles
      /\ "user" \in ConfigFiles /\ "user" \notin SettingsFiles
  BY DEF Files, Pointers, ConfigFiles, SettingsFiles
<1>6. ASSUME NEW url \in Urls, PointCodexAt(url)
      PROVE  TypeOK' /\ KeepsUpstream'
  <2>1. disk' = [disk EXCEPT !["codex"] = url] /\ chosen' = url /\ mode' = mode
    BY <1>6 DEF PointCodexAt
  <2>2. disk'["codex"] = url
    BY <1>5, <2>1 DEF IInv, TypeOK
  <2>3. TypeOK'
    BY <1>1, <1>2, <1>3, <1>5, <2>1, <2>2 DEF IInv, TypeOK
  <2>4. KeepsUpstream'
    BY <1>3, <2>1, <2>2 DEF KeepsUpstream, UpstreamIsKept
  <2>5. QED
    BY <2>3, <2>4
<1>7. ASSUME Trust
      PROVE  TypeOK' /\ KeepsUpstream'
  <2>1. PICK config : config = [Content(disk["user"]) EXCEPT !.trusted = TRUE]
                      /\ disk' = [disk EXCEPT !["user"] = config] /\ chosen' = chosen /\ mode' = mode
    BY <1>7 DEF Trust
  <2>2. Content(disk["user"]) \in Configs
    BY <1>5, ContentTyped DEF IInv, TypeOK
  <2>3. config \in Configs /\ config.urls = Content(disk["user"]).urls
    BY <2>1, <2>2 DEF Configs
  <2>4. disk'["user"] = config /\ Content(config) = config /\ disk'["codex"] = disk["codex"]
    BY <1>5, <2>1, <2>3, ContentOfConfig DEF IInv, TypeOK
  <2>5. TypeOK'
    <3>1. disk' \in [Files -> Configs \cup Urls \cup Endpoints \cup Ports \cup {None, Broken}]
      BY <2>1, <2>3 DEF IInv, TypeOK
    <3>2. \A g \in ConfigFiles : disk'[g] \in Configs \cup {None, Broken}
      BY <1>5, <2>1, <2>3, <2>4 DEF IInv, TypeOK, ConfigFiles, Files
    <3>3. \A g \in SettingsFiles : disk'[g] \in Ports \cup {None, Broken}
      BY <1>5, <2>1 DEF IInv, TypeOK, SettingsFiles, Files, Pointers
    <3>4. disk'["codex"] \in Urls \cup Endpoints \cup {None, Broken}
      BY <2>4 DEF IInv, TypeOK
    <3>5. QED
      BY <1>1, <1>2, <1>3, <2>1, <3>1, <3>2, <3>3, <3>4 DEF IInv, TypeOK
  <2>6. KeepsUpstream'
    <3>1. /\ UpstreamIsKept
          /\ disk["codex"] \in Urls => disk["codex"] = chosen
      BY DEF IInv, KeepsUpstream
    <3>2. Content(disk'["user"]).urls = Content(disk["user"]).urls
      BY <2>3, <2>4
    <3>3. UpstreamIsKept'
      BY <2>1, <2>4, <3>1, <3>2 DEF UpstreamIsKept
    <3>4. QED
      BY <1>3, <2>1, <2>4, <3>1, <3>3 DEF KeepsUpstream
  <2>7. QED
    BY <2>5, <2>6
<1>8. ASSUME SignIn
      PROVE  TypeOK' /\ KeepsUpstream'
  <2>1. disk' = disk /\ chosen' = chosen /\ mode' \in Modes
    BY <1>8 DEF SignIn
  <2>2. TypeOK'
    BY <1>1, <1>2, <1>3, <2>1 DEF IInv, TypeOK
  <2>3. KeepsUpstream'
    BY <1>3, <2>1 DEF IInv, KeepsUpstream, UpstreamIsKept
  <2>4. QED
    BY <2>2, <2>3
<1>9. StoresVetted'
  BY <1>1, <1>3 DEF StoresVetted
<1>10. QED
  BY <1>4, <1>6, <1>7, <1>8, <1>9 DEF IInv

LEMMA WriteFailsIInv ==
  ASSUME IInv, WriteFails
  PROVE  IInv'
<1>1. /\ todo' = <<>> /\ disk' = disk /\ select' = select /\ mode' = mode /\ chosen' = chosen
      /\ run' = [run EXCEPT !.status = "failed"]
  BY DEF WriteFails
<1>2. todo' \in Seq(Writes) /\ Len(todo') = 0
  BY <1>1
<1>3. run' \in [client : {"claude-code", "codex", "all"}, port : Ports, target : SettingsFiles,
                status : {"idle", "running", "done", "failed"}] /\ run'.status = "failed"
  BY <1>1 DEF IInv, TypeOK
<1>4. TypeOK'
  BY <1>1, <1>2, <1>3 DEF IInv, TypeOK
<1>5. KeepsUpstream'
  BY <1>1, <1>2 DEF IInv, KeepsUpstream, UpstreamIsKept
<1>6. InOrder'
  BY <1>1, <1>2, <1>3 DEF InOrder
<1>7. StoresVetted'
  BY <1>1, <1>2 DEF StoresVetted
<1>8. QED
  BY <1>4, <1>5, <1>6, <1>7 DEF IInv

(* A step keeps the invariant; a command begun, a write, a command cut      *)
(* short and an edit each have their lemma above.                           *)
LEMMA NextIInv == IInv /\ [Next]_vars => IInv'
<1> SUFFICES ASSUME IInv, [Next]_vars PROVE IInv'
  OBVIOUS
<1>1. ASSUME NEW port \in Ports, NEW target \in SettingsFiles, InitClaude(port, target)
      PROVE  IInv'
  BY <1>1, InitClaudeIInv
<1>2. ASSUME NEW port \in Ports, NEW target \in SettingsFiles, NEW client \in {"codex", "all"},
             InitCodex(client, port, target)
      PROVE  IInv'
  BY <1>2, InitCodexIInv
<1>3. CASE WriteNext
  BY <1>3, WriteNextTypes, WriteNextKeeps, WriteNextInOrder, WriteNextVetted DEF IInv
<1>4. CASE WriteFails
  BY <1>4, WriteFailsIInv
<1>5. CASE (\E url \in Urls : PointCodexAt(url)) \/ Trust \/ SignIn
  BY <1>5, EditIInv
<1>6. CASE UNCHANGED vars
  BY <1>6 DEF vars, IInv, TypeOK, KeepsUpstream, UpstreamIsKept, Holds, Pending, Earlier,
              InOrder, SetTo, Required, ConfigFile, Backer, StoresVetted
<1>7. QED
  BY <1>1, <1>2, <1>3, <1>4, <1>5, <1>6 DEF Next, SettingsFiles

(* The invariant holds in every reachable state.                            *)
THEOREM Inductive == Spec => []IInv
BY InitIInv, NextIInv, PTL DEF Spec

(***************************************************************************)
(* What it is for.                                                          *)
(***************************************************************************)
LEMMA TypeOKNoLoop == TypeOK => NeverItsOwnUpstream
<1> SUFFICES ASSUME TypeOK, NEW f \in ConfigFiles, NEW m \in Modes
             PROVE  Content(disk[f]).urls[m] \notin Endpoints
  BY DEF NeverItsOwnUpstream, ConfigFiles
<1>1. Content(disk[f]) \in Configs
  BY ContentTyped DEF TypeOK
<1>2. Content(disk[f]).urls[m] \in Urls \cup {None}
  BY <1>1 DEF Configs
<1>3. QED
  BY <1>2, SetupAssumption

(* Whatever a command is cut short or run again, the upstream that the user *)
(* gave Codex is still in use or stored, and the relay is never its own.    *)
THEOREM UpstreamNeverLost == Spec => []UpstreamSurvives
<1>1. IInv => UpstreamSurvives
  BY TypeOKNoLoop DEF IInv, KeepsUpstream, UpstreamSurvives
<1>2. QED
  BY <1>1, Inductive, PTL

(* A finished setup: each required file is as the command wanted it.        *)
LEMMA DoneIsSet ==
  ASSUME IInv, run.status = "done", NEW f \in Required
  PROVE  SetTo(run, f, disk[f])
BY DEF IInv, InOrder, Pending

LEMMA IInvServed == IInv => SetupIsServed
<1> SUFFICES ASSUME IInv, run.status = "done"
             PROVE  CASE run.client = "claude-code" ->
                           disk[run.target] = run.port /\ (select # "explicit" => Follows("project", run.port))
                      [] run.client = "codex" ->
                           disk["codex"][1] = run.port /\ Follows("elsewhere", run.port)
                             /\ loadConfig("elsewhere").ingress = TRUE
                      [] OTHER ->
                           disk[run.target] = run.port /\ disk["codex"][1] = run.port
                             /\ Follows("project", run.port) /\ loadConfig("project").ingress = TRUE
  BY DEF SetupIsServed
<1>1. /\ run.port \in Ports /\ run.target \in SettingsFiles
      /\ run.client \in {"claude-code", "codex", "all"}
      /\ select \in {"implicit", "explicit", "same"}
  BY DEF IInv, TypeOK
<1>2. \A f \in Required : SetTo(run, f, disk[f])
  BY DoneIsSet
<1>3. ConfigFile = IF select = "same" THEN "user" ELSE "project"
  BY DEF ConfigFile
<1>4. Sources("elsewhere") = {"user"}
  BY <1>1 DEF Sources
<1>5. Sources("project") = IF select = "implicit" THEN {"user", "project"} ELSE {"user"}
  BY DEF Sources
<1>6. run.target \in Required /\ run.client # "codex" => disk[run.target] = run.port
  BY <1>1, <1>2 DEF SetTo, SettingsFiles, ConfigFiles
<1>7. "codex" \in Required => disk["codex"][1] = run.port
  BY <1>2 DEF SetTo, ConfigFiles
<1>8. \A f \in ConfigFiles \cap Required :
        /\ Content(disk[f]).port = run.port
        /\ run.client # "claude-code" => Content(disk[f]).ingress = TRUE
  BY <1>2 DEF SetTo, ConfigFiles
<1>9. loadConfig("elsewhere") = Content(disk["user"])
  BY <1>4 DEF loadConfig
<1>10. loadConfig("project") = IF select = "implicit"
                                 THEN mergeConfigObjects(Content(disk["user"]), Content(disk["project"]))
                                 ELSE Content(disk["user"])
  BY <1>5 DEF loadConfig
<1>11. ASSUME Content(disk["project"]).port = run.port, select = "implicit"
       PROVE  ListensOn("project") = run.port
  <2>1. loadConfig("project").port = Over(run.port, Content(disk["user"]).port)
    BY <1>10, <1>11 DEF mergeConfigObjects
  <2>2. loadConfig("project").port = run.port
    BY <1>1, <2>1, SetupAssumption DEF Over
  <2>3. QED
    BY <1>1, <2>2, SetupAssumption DEF ListensOn, Over
<1>12. ASSUME Content(disk["user"]).port = run.port, select # "implicit"
       PROVE  ListensOn("project") = run.port
  BY <1>1, <1>10, <1>12, SetupAssumption DEF ListensOn, Over
<1>13. CASE run.client = "claude-code"
  <2>1. Required = {ConfigFile, run.target}
    BY <1>13 DEF Required
  <2>2. select # "explicit" => ListensOn("project") = run.port
    BY <1>1, <1>3, <1>8, <1>11, <1>12, <2>1 DEF ConfigFiles
  <2>3. QED
    BY <1>6, <1>13, <2>1, <2>2 DEF Follows
<1>14. CASE run.client = "codex"
  <2>1. Required = {"user", "codex"}
    BY <1>14 DEF Required
  <2>2. loadConfig("elsewhere").port = run.port /\ loadConfig("elsewhere").ingress = TRUE
    BY <1>8, <1>9, <1>14, <2>1 DEF ConfigFiles
  <2>3. ListensOn("elsewhere") = run.port
    BY <1>1, <2>2, SetupAssumption DEF ListensOn, Over
  <2>4. QED
    BY <1>7, <1>14, <2>1, <2>2, <2>3 DEF Follows
<1>15. CASE run.client = "all"
  <2>1. Required = {"user", ConfigFile, "codex", run.target}
    BY <1>15 DEF Required
  <2>2. ListensOn("project") = run.port
    BY <1>1, <1>3, <1>8, <1>11, <1>12, <2>1 DEF ConfigFiles
  <2>3. loadConfig("project").ingress = TRUE
    <3>1. CASE select = "implicit"
      <4>1. Content(disk["project"]).ingress = TRUE
        BY <1>3, <1>8, <1>15, <2>1, <3>1 DEF ConfigFiles
      <4>2. loadConfig("project").ingress = Over(TRUE, Content(disk["user"]).ingress)
        <5>1. loadConfig("project") = mergeConfigObjects(Content(disk["user"]), Content(disk["project"]))
          BY <1>10, <3>1
        <5>2. \A base, overlay : mergeConfigObjects(base, overlay).ingress = Over(overlay.ingress, base.ingress)
          BY DEF mergeConfigObjects
        <5>3. QED
          BY <4>1, <5>1, <5>2, Zenon
      <4>3. TRUE # None
        BY SetupAssumption
      <4>4. QED
        BY <4>2, <4>3, Zenon DEF Over
    <3>2. CASE select # "implicit"
      BY <1>8, <1>10, <1>15, <2>1, <3>2 DEF ConfigFiles
    <3>3. QED
      BY <3>1, <3>2
  <2>4. QED
    BY <1>6, <1>7, <1>15, <2>1, <2>2, <2>3 DEF Follows
<1>16. QED
  BY <1>1, <1>13, <1>14, <1>15

(* After a setup that ran to its end, the relay listens where it pointed    *)
(* the clients, and serves Codex if Codex was pointed at it.                *)
THEOREM FinishedSetupIsServed == Spec => []SetupIsServed
BY IInvServed, Inductive, PTL

(* The write order of init.ts:323 and of codex-init.ts: a write points a    *)
(* client only at a port where the relay it is to use would listen by then. *)
(* Of the pointers that earlier runs left it says nothing.                  *)
THEOREM PointersComeLast == Spec => PointerComesLast
<1>1. ASSUME IInv, WriteNext, NEW p \in Pointers, disk'[p] # disk[p], ~Disregarded
      PROVE  PortAt(p)' = Backing(p)
  <2>1. /\ 1 \in 1 .. Len(todo) /\ todo[1].file \in Files
        /\ disk'[todo[1].file] = todo[1].content
        /\ \A f \in Files : f # todo[1].file => disk'[f] = disk[f]
    BY <1>1, WriteNextFacts DEF IInv
  <2>2. p \in Files /\ p \notin ConfigFiles
    BY <1>1 DEF Files, Pointers, ConfigFiles
  <2>3. todo[1].file = p /\ disk'[p] = todo[1].content
    BY <1>1, <2>1, <2>2
  <2>4. SetTo(run, p, todo[1].content)
    BY <1>1, <2>1, <2>3 DEF IInv, InOrder
  <2>5. Content(disk[Backer(p)]).port = run.port
    BY <1>1, <2>1, <2>3 DEF IInv, InOrder, Earlier
  <2>6. Backing(p) = run.port
    <3>1. CASE p = "codex"
      <4>1. Sources("elsewhere") = {"user"}
        BY DEF Sources
      <4>2. QED
        BY <2>5, <3>1, <4>1 DEF Backing, Reader, Backer, loadConfig
    <3>2. CASE p # "codex" /\ select # "implicit"
      <4>1. Backer(p) = "user"
        BY <1>1, <3>2 DEF Backer, Disregarded, ConfigFile, IInv, TypeOK
      <4>2. Sources("project") = {"user"}
        BY <3>2 DEF Sources
      <4>3. QED
        BY <2>5, <3>2, <4>1, <4>2 DEF Backing, Reader, loadConfig
    <3>3. CASE p # "codex" /\ select = "implicit"
      <4>1. Backer(p) = "project"
        BY <3>3 DEF Backer, ConfigFile
      <4>2. Sources("project") = {"user", "project"}
        BY <3>3 DEF Sources
      <4>3. loadConfig("project").port = Over(run.port, Content(disk["user"]).port)
        BY <2>5, <4>1, <4>2 DEF loadConfig, mergeConfigObjects
      <4>4. run.port # None
        BY <1>1, SetupAssumption DEF IInv, TypeOK
      <4>5. QED
        BY <3>3, <4>3, <4>4 DEF Backing, Reader, Over
    <3>4. QED
      BY <3>1, <3>2, <3>3
  <2>7. PortAt(p)' = run.port
    BY <1>1, <2>2, <2>3, <2>4 DEF PortAt, SetTo, Pointers
  <2>8. QED
    BY <2>6, <2>7
<1>2. IInv /\ [Next]_vars
        => [WriteNext => \A p \in Pointers :
              disk'[p] # disk[p] /\ ~Disregarded => PortAt(p)' = Backing(p)]_vars
  BY <1>1
<1>3. QED
  BY <1>2, Inductive, PTL DEF Spec, PointerComesLast

(***************************************************************************)
(* A relay starts after a write as before it.                               *)
(***************************************************************************)
(* Of one file, or of two of which the project's stands over the user's: an *)
(* upstream that changes has been vetted, and whoever was trusted still is. *)
LEMMA FileAsGood ==
  ASSUME NEW old \in Configs, NEW new, AsGood(old, new),
         Valid(old), vetCredentialUrl(old)
  PROVE  Valid(new) /\ vetCredentialUrl(new)
BY DEF AsGood, Vetted, Valid, vetCredentialUrl

LEMMA MergeFields ==
  ASSUME NEW base, NEW overlay
  PROVE  LET merged == mergeConfigObjects(base, overlay) IN
         /\ merged.defect = IF overlay.defect = "none" THEN base.defect ELSE overlay.defect
         /\ merged.trusted = Over(overlay.trusted, base.trusted)
         /\ \A m \in Modes : merged.urls[m] = Over(overlay.urls[m], base.urls[m])
BY DEF mergeConfigObjects

LEMMA MergeAsGood ==
  ASSUME NEW base \in Configs, NEW overlay \in Configs, NEW base2, NEW overlay2,
         base2 = base \/ AsGood(base, base2), overlay2 = overlay \/ AsGood(overlay, overlay2),
         overlay.trusted # FALSE,
         Valid(mergeConfigObjects(base, overlay)), vetCredentialUrl(mergeConfigObjects(base, overlay))
  PROVE  Valid(mergeConfigObjects(base2, overlay2)) /\ vetCredentialUrl(mergeConfigObjects(base2, overlay2))
<1> DEFINE before == mergeConfigObjects(base, overlay)
           after == mergeConfigObjects(base2, overlay2)
<1>1. /\ base2.defect = base.defect /\ base2.trusted = base.trusted
      /\ overlay2.defect = overlay.defect /\ overlay2.trusted = overlay.trusted
      /\ \A m \in Modes : base2.urls[m] = base.urls[m] \/ Vetted(base2.urls[m], m, base.trusted)
      /\ \A m \in Modes : overlay2.urls[m] = overlay.urls[m] \/ Vetted(overlay2.urls[m], m, overlay.trusted)
  BY DEF AsGood
<1>2. after.defect = before.defect /\ after.trusted = before.trusted
  BY <1>1, MergeFields
<1>3. before.trusted = Over(overlay.trusted, base.trusted)
  BY MergeFields
<1>4. base.trusted = TRUE \/ overlay.trusted = TRUE => before.trusted = TRUE
  <2>1. overlay.trusted \in BOOLEAN \cup {None}
    BY DEF Configs
  <2>2. overlay.trusted = TRUE \/ overlay.trusted = None
    BY <2>1
  <2>3. TRUE # None
    BY SetupAssumption
  <2> HIDE DEF before
  <2>4. QED
    BY <1>3, <2>2, <2>3, Zenon DEF Over
<1>5. ASSUME NEW m \in Modes
      PROVE  \/ after.urls[m] = before.urls[m]
             \/ after.urls[m] \notin UnsafeUrls /\ (Expected(after.urls[m], m) \/ before.trusted = TRUE)
  <2>1. /\ after.urls[m] = Over(overlay2.urls[m], base2.urls[m])
        /\ before.urls[m] = Over(overlay.urls[m], base.urls[m])
    BY MergeFields
  <2> HIDE DEF after, before
  <2>2. /\ base2.urls[m] = base.urls[m] \/ Vetted(base2.urls[m], m, base.trusted)
        /\ overlay2.urls[m] = overlay.urls[m] \/ Vetted(overlay2.urls[m], m, overlay.trusted)
    BY <1>1
  <2>3. ASSUME NEW url, NEW trusted, Vetted(url, m, trusted), trusted \in {base.trusted, overlay.trusted}
        PROVE  url \notin UnsafeUrls /\ (Expected(url, m) \/ before.trusted = TRUE)
    BY <1>4, <2>3, Zenon DEF Vetted
  <2>4. CASE after.urls[m] = overlay2.urls[m] /\ overlay2.urls[m] # None
    <3>1. CASE overlay2.urls[m] = overlay.urls[m]
      BY <2>1, <2>4, <3>1 DEF Over
    <3>2. CASE Vetted(overlay2.urls[m], m, overlay.trusted)
      BY <2>3, <2>4, <3>2
    <3>3. QED
      BY <2>2, <3>1, <3>2
  <2>5. CASE after.urls[m] = base2.urls[m] /\ overlay2.urls[m] = None
    <3>1. CASE Vetted(base2.urls[m], m, base.trusted)
      BY <2>3, <2>5, <3>1
    <3>2. CASE base2.urls[m] = base.urls[m] /\ overlay.urls[m] = None
      BY <2>1, <2>5, <3>2 DEF Over
    <3>3. overlay2.urls[m] = overlay.urls[m]
      BY <2>2, <2>5 DEF Vetted
    <3>4. QED
      BY <2>2, <2>5, <3>1, <3>2, <3>3
  <2>6. QED
    BY <2>1, <2>4, <2>5 DEF Over
<1>6. QED
  BY <1>2, <1>5 DEF Valid, vetCredentialUrl

(* No write of a setup keeps a relay from starting that started before.     *)
THEOREM StillStarts == Spec => StartsAsBefore
<1>1. ASSUME IInv, WriteNext, NEW dir \in {"elsewhere", "project"}, Starts(dir),
             dir = "project" => Content(disk["project"]).trusted # FALSE
      PROVE  Starts(dir)'
  <2> DEFINE f == todo[1].file
  <2>1. /\ 1 \in 1 .. Len(todo) /\ f \in Files
        /\ disk'[f] = todo[1].content /\ \A g \in Files : g # f => disk'[g] = disk[g]
        /\ select' = select
    BY <1>1, WriteNextFacts DEF IInv
  <2>2. f \in ConfigFiles => disk[f] # Broken /\ AsGood(Content(disk[f]), todo[1].content)
    BY <1>1, <2>1 DEF IInv, StoresVetted
  <2>3. ASSUME NEW g \in ConfigFiles
        PROVE  /\ Content(disk[g]) \in Configs /\ g \in Files
               /\ disk'[g] = disk[g] \/ (/\ disk'[g] \in Configs /\ disk'[g] \notin {None, Broken}
                                      /\ Content(disk'[g]) = disk'[g]
                                      /\ AsGood(Content(disk[g]), disk'[g]))
    <3>1. g \in Files
      BY DEF ConfigFiles, Files
    <3>2. Content(disk[g]) \in Configs
      BY <1>1, ContentTyped DEF IInv, TypeOK
    <3>3. CASE f = g
      <4>1. disk'[g] \in Configs /\ AsGood(Content(disk[g]), disk'[g])
        BY <2>1, <2>2, <3>3 DEF AsGood
      <4>2. QED
        BY <3>1, <3>2, <4>1, ContentOfConfig, SetupAssumption
    <3>4. QED
      BY <2>1, <3>1, <3>2, <3>3
  <2>4. ASSUME NEW g \in ConfigFiles
        PROVE  /\ disk[g] # Broken => disk'[g] # Broken
               /\ disk[g] # None => disk'[g] # None
               /\ Content(disk'[g]) = Content(disk[g]) \/ AsGood(Content(disk[g]), Content(disk'[g]))
    BY <2>3
  <2>5. Sources(dir)' = Sources(dir) /\ Sources(dir) \subseteq ConfigFiles /\ "user" \in ConfigFiles /\ "project" \in ConfigFiles
    BY <2>1 DEF Sources, ConfigFiles
  <2>6. (\A g \in Sources(dir) : disk'[g] # Broken) /\ (select' # "implicit" => disk'["user"] # None)
    BY <1>1, <2>1, <2>4, <2>5 DEF Starts
  <2>7. Valid(loadConfig(dir)) /\ vetCredentialUrl(loadConfig(dir))
    BY <1>1 DEF Starts
  <2>8. Valid(loadConfig(dir)') /\ vetCredentialUrl(loadConfig(dir)')
    <3>1. CASE "project" \in Sources(dir)
      <4>1. /\ loadConfig(dir) = mergeConfigObjects(Content(disk["user"]), Content(disk["project"]))
            /\ loadConfig(dir)' = mergeConfigObjects(Content(disk'["user"]), Content(disk'["project"]))
        BY <2>5, <3>1 DEF loadConfig
      <4>2. Content(disk["project"]).trusted # FALSE
        BY <1>1, <3>1 DEF Sources
      <4>3. QED
        <5>1. /\ Content(disk["user"]) \in Configs /\ Content(disk["project"]) \in Configs
              /\ \A g \in {"user", "project"} :
                   Content(disk'[g]) = Content(disk[g]) \/ AsGood(Content(disk[g]), Content(disk'[g]))
          BY <2>3, <2>4, <2>5
        <5>2. PICK user, project, user2, project2 :
                /\ user = Content(disk["user"]) /\ project = Content(disk["project"])
                /\ user2 = Content(disk'["user"]) /\ project2 = Content(disk'["project"])
          OBVIOUS
        <5>3. Valid(mergeConfigObjects(user2, project2)) /\ vetCredentialUrl(mergeConfigObjects(user2, project2))
          <6>1. /\ user \in Configs /\ project \in Configs /\ project.trusted # FALSE
                /\ user2 = user \/ AsGood(user, user2)
                /\ project2 = project \/ AsGood(project, project2)
                /\ Valid(mergeConfigObjects(user, project)) /\ vetCredentialUrl(mergeConfigObjects(user, project))
            BY <2>7, <4>1, <4>2, <5>1, <5>2
          <6>2. QED
            BY ONLY <6>1, MergeAsGood
        <5>4. QED
          BY <4>1, <5>2, <5>3
    <3>2. CASE "project" \notin Sources(dir)
      <4>1. loadConfig(dir) = Content(disk["user"]) /\ loadConfig(dir)' = Content(disk'["user"])
        BY <2>5, <3>2 DEF loadConfig
      <4>2. QED
        BY <2>3, <2>4, <2>5, <2>7, <4>1, FileAsGood
    <3>3. QED
      BY <3>1, <3>2
  <2>9. QED
    BY <2>5, <2>6, <2>8 DEF Starts, Valid, vetCredentialUrl, Expected
<1>2. IInv /\ [Next]_vars
        => [WriteNext => \A dir \in {"elsewhere", "project"} :
              Starts(dir) /\ (dir = "project" => Content(disk["project"]).trusted # FALSE) => Starts(dir)']_vars
  BY <1>1
<1>3. QED
  BY <1>2, Inductive, PTL DEF Spec, StartsAsBefore

--------------------------------------------------------------------------------
(***************************************************************************)
(* Names.  From here on the proofs are those of NameEdits.  They work on    *)
(* any registry r and any sequence of declarations that make sense, and     *)
(* come back to the variables in NamesIInv.                                 *)
(***************************************************************************)

(***************************************************************************)
(* Recursive functions over the positions of a sequence.  What holds for   *)
(* all numbers is shown by looking at the least one it would fail for.     *)
(***************************************************************************)
LEMMA LeastNumber ==
  ASSUME NEW T \in SUBSET Nat, T # {}
  PROVE  \E n \in T : \A m \in T : n <= m
<1>1. IsWellFoundedOn(OpToRel(<, Nat), Nat)
  BY NatLessThanWellFounded
<1>2. PICK n \in T : \A m \in T : ~(<<m, n>> \in OpToRel(<, Nat))
  BY <1>1, WFMin
<1>3. \A m \in T : ~(m < n)
  BY <1>2 DEF OpToRel
<1>4. T \subseteq Nat
  OBVIOUS
<1>5. \A m \in T : n <= m
  BY <1>3, <1>4
<1>6. QED
  BY <1>5

(* A set of numbers that holds 0 and with each number the next one, up to N.*)
LEMMA UpTo ==
  ASSUME NEW N \in Nat, NEW T, 0 \in T, \A n \in 0 .. N - 1 : n \in T => n + 1 \in T
  PROVE  \A n \in 0 .. N : n \in T
<1> DEFINE bad == {n \in 0 .. N : n \notin T}
<1>1. SUFFICES ASSUME bad # {} PROVE FALSE
  OBVIOUS
<1>2. bad \in SUBSET Nat
  OBVIOUS
<1>3. PICK n \in bad : \A m \in bad : n <= m
  BY <1>1, <1>2, LeastNumber
<1>4. n \in 0 .. N /\ n # 0 /\ n - 1 \in 0 .. N - 1 /\ (n - 1) + 1 = n
  BY <1>3
<1>5. n - 1 \in T
  BY <1>3, <1>4
<1>6. n \in T
  BY <1>4, <1>5
<1>7. QED
  BY <1>3, <1>6

(***************************************************************************)
(* A recursive function is what one step after the other makes of the first *)
(* value.                                                                  *)
(***************************************************************************)
Follow(f, N, base, step) == f = [n \in 0 .. N |-> IF n = 0 THEN base ELSE step[<<f[n - 1], n>>]]

LEMMA FollowExists ==
  ASSUME NEW S, NEW base \in S, NEW step \in [S \X Nat -> S], NEW N \in Nat
  PROVE  \E f : Follow(f, N, base, step)
<1> DEFINE T == {n \in Nat : \E f \in [0 .. n -> S] : Follow(f, n, base, step)}
<1>1. 0 \in T
  <2>1. [n \in 0 .. 0 |-> base] \in [0 .. 0 -> S]
    OBVIOUS
  <2>2. Follow([n \in 0 .. 0 |-> base], 0, base, step)
    BY DEF Follow
  <2>3. QED
    BY <2>1, <2>2
<1>2. ASSUME NEW n \in Nat, n \in T PROVE n + 1 \in T
  <2>1. PICK f \in [0 .. n -> S] : Follow(f, n, base, step)
    BY <1>2
  <2> DEFINE g == [k \in 0 .. n + 1 |-> IF k = n + 1 THEN step[<<f[n], n + 1>>] ELSE f[k]]
  <2>2. n \in 0 .. n /\ f[n] \in S /\ step[<<f[n], n + 1>>] \in S
    OBVIOUS
  <2>3. g \in [0 .. n + 1 -> S]
    BY <2>2
  <2>4. ASSUME NEW k \in 0 .. n + 1 PROVE g[k] = IF k = 0 THEN base ELSE step[<<g[k - 1], k>>]
    <3>1. CASE k = n + 1
      <4>1. k # 0 /\ k - 1 = n /\ n \in 0 .. n + 1 /\ n # n + 1
        BY <3>1
      <4>2. g[k - 1] = f[n] /\ g[k] = step[<<f[n], n + 1>>]
        BY <3>1, <4>1
      <4>3. QED
        BY <3>1, <4>1, <4>2
    <3>2. CASE k # n + 1
      <4>1. k \in 0 .. n /\ g[k] = f[k]
        BY <3>2
      <4>2. f[k] = IF k = 0 THEN base ELSE step[<<f[k - 1], k>>]
        BY <2>1, <4>1 DEF Follow
      <4>3. CASE k = 0
        BY <4>1, <4>2, <4>3
      <4>4. CASE k # 0
        <5>1. k - 1 \in 0 .. n + 1 /\ k - 1 # n + 1
          BY <4>1, <4>4
        <5>2. g[k - 1] = f[k - 1]
          BY <5>1
        <5>3. QED
          BY <4>1, <4>2, <4>4, <5>2
      <4>5. QED
        BY <4>3, <4>4
    <3>3. QED
      BY <3>1, <3>2
  <2>5. g = [k \in 0 .. n + 1 |-> g[k]]
    BY <2>3
  <2> HIDE DEF g
  <2>6. g = [k \in 0 .. n + 1 |-> IF k = 0 THEN base ELSE step[<<g[k - 1], k>>]]
    BY <2>4, <2>5
  <2>7. Follow(g, n + 1, base, step)
    BY <2>6 DEF Follow
  <2>8. QED
    BY <2>3, <2>7
<1> HIDE DEF T
<1>3. N \in T
  BY <1>1, <1>2, UpTo
<1>4. QED
  BY <1>3 DEF T

LEMMA FollowTyped ==
  ASSUME NEW S, NEW base \in S, NEW step \in [S \X Nat -> S], NEW N \in Nat, NEW f, Follow(f, N, base, step)
  PROVE  f \in [0 .. N -> S]
<1> DEFINE T == {n \in 0 .. N : f[n] \in S}
<1>1. \A n \in 0 .. N : f[n] = IF n = 0 THEN base ELSE step[<<f[n - 1], n>>]
  BY DEF Follow
<1>2. 0 \in T
  <2>1. 0 \in 0 .. N
    OBVIOUS
  <2>2. QED
    BY <1>1, <2>1
<1>3. ASSUME NEW n \in 0 .. N - 1, n \in T PROVE n + 1 \in T
  <2>1. n + 1 \in 0 .. N /\ n + 1 # 0 /\ (n + 1) - 1 = n /\ n + 1 \in Nat
    OBVIOUS
  <2>2. f[n + 1] = step[<<f[n], n + 1>>]
    BY <1>1, <2>1
  <2>3. f[n] \in S
    BY <1>3
  <2>4. step[<<f[n], n + 1>>] \in S
    BY <2>1, <2>3
  <2>5. QED
    BY <2>1, <2>2, <2>4
<1>4. \A n \in 0 .. N : f[n] \in S
  BY <1>2, <1>3, UpTo
<1>5. f = [n \in 0 .. N |-> f[n]]
  BY DEF Follow
<1>6. QED
  BY <1>4, <1>5

LEMMA RemoveAtFacts ==
  ASSUME NEW E, NEW s \in Seq(E), NEW n \in 1 .. Len(s)
  PROVE  /\ RemoveAt(s, n) \in Seq(E) /\ Len(RemoveAt(s, n)) = Len(s) - 1
         /\ \A k \in 1 .. Len(s) - 1 : RemoveAt(s, n)[k] = s[IF k < n THEN k ELSE k + 1]
<1> DEFINE a == SubSeq(s, 1, n - 1)
           b == SubSeq(s, n + 1, Len(s))
<1>1. Len(s) \in Nat /\ n \in Nat /\ \A k \in 1 .. Len(s) : s[k] \in E
  OBVIOUS
<1>2. a \in Seq(E) /\ Len(a) = n - 1 /\ \A k \in 1 .. n - 1 : a[k] = s[k]
  BY <1>1
<1>3. b \in Seq(E) /\ Len(b) = Len(s) - n /\ \A k \in 1 .. Len(s) - n : b[k] = s[n + k]
  BY <1>1
<1>4. RemoveAt(s, n) = a \o b
  BY DEF RemoveAt
<1> HIDE DEF a, b
<1>5. /\ a \o b \in Seq(E) /\ Len(a \o b) = Len(a) + Len(b)
      /\ \A k \in 1 .. Len(a) + Len(b) : (a \o b)[k] = IF k <= Len(a) THEN a[k] ELSE b[k - Len(a)]
  BY <1>2, <1>3, ConcatProperties
<1>6. Len(a) + Len(b) = Len(s) - 1
  BY <1>1, <1>2, <1>3
<1>7. ASSUME NEW k \in 1 .. Len(s) - 1 PROVE (a \o b)[k] = s[IF k < n THEN k ELSE k + 1]
  <2>1. CASE k < n
    <3>1. k <= Len(a) /\ k \in 1 .. n - 1
      BY <1>1, <1>2, <2>1
    <3>2. QED
      BY <1>2, <1>5, <1>6, <2>1, <3>1
  <2>2. CASE ~(k < n)
    <3>1. ~(k <= Len(a)) /\ k - Len(a) \in 1 .. Len(s) - n /\ n + (k - Len(a)) = k + 1
      BY <1>1, <1>2, <2>2
    <3>2. QED
      BY <1>3, <1>5, <1>6, <2>2, <3>1
  <2>3. QED
    BY <2>1, <2>2
<1>8. QED
  BY <1>4, <1>5, <1>6, <1>7

LEMMA FirstFacts ==
  ASSUME NEW T \in SUBSET Nat, T # {}
  PROVE  First(T) \in T /\ \A j \in T : First(T) <= j
BY LeastNumber DEF First

LEMMA FirstOfOne ==
  ASSUME NEW n \in Nat
  PROVE  First({n}) = n
<1>1. {n} \in SUBSET Nat /\ {n} # {}
  OBVIOUS
<1>2. First({n}) \in {n}
  BY <1>1, FirstFacts
<1>3. QED
  BY <1>2

(***************************************************************************)
(* Generations are compared as in a strict weak order, so that any set of  *)
(* competing models has a winner.                                          *)
(***************************************************************************)
LEMMA GenerationTyped ==
  ASSUME NEW a \in Seq(Nat), NEW n \in Nat
  PROVE  Generation(a, n) \in Nat /\ (n \notin DOMAIN a => Generation(a, n) = 0)
BY DEF Generation

LEMMA NewerAt ==
  ASSUME NEW a \in Seq(Nat), NEW b \in Seq(Nat), NEW n \in Nat, n >= 1,
         Generation(a, n) > Generation(b, n), \A k \in 1 .. n - 1 : Generation(a, k) = Generation(b, k)
  PROVE  Newer(a, b)
<1>1. Generation(a, n) \in Nat /\ Generation(b, n) \in Nat /\ Generation(a, n) # 0
  BY GenerationTyped
<1>2. n \in DOMAIN a
  BY <1>1, GenerationTyped
<1>3. QED
  BY <1>2 DEF Newer

LEMMA NewerParts ==
  ASSUME NEW a \in Seq(Nat), NEW b \in Seq(Nat), Newer(a, b)
  PROVE  \E n \in Nat : /\ n >= 1 /\ Generation(a, n) > Generation(b, n)
                        /\ \A k \in 1 .. n - 1 : Generation(a, k) = Generation(b, k)
<1>1. \A n \in DOMAIN a \cup DOMAIN b : n \in Nat /\ n >= 1
  <2>1. DOMAIN a = 1 .. Len(a) /\ DOMAIN b = 1 .. Len(b) /\ Len(a) \in Nat /\ Len(b) \in Nat
    OBVIOUS
  <2>2. QED
    BY <2>1
<1>2. QED
  BY <1>1 DEF Newer

LEMMA NewerAsymmetric ==
  ASSUME NEW a \in Seq(Nat), NEW b \in Seq(Nat), Newer(a, b)
  PROVE  ~Newer(b, a)
<1>1. SUFFICES ASSUME Newer(b, a) PROVE FALSE
  OBVIOUS
<1>2. PICK n \in Nat : /\ n >= 1 /\ Generation(a, n) > Generation(b, n)
                       /\ \A k \in 1 .. n - 1 : Generation(a, k) = Generation(b, k)
  BY NewerParts
<1>3. PICK m \in Nat : /\ m >= 1 /\ Generation(b, m) > Generation(a, m)
                       /\ \A k \in 1 .. m - 1 : Generation(b, k) = Generation(a, k)
  BY <1>1, NewerParts
<1>4. /\ Generation(a, n) \in Nat /\ Generation(b, n) \in Nat
      /\ Generation(a, m) \in Nat /\ Generation(b, m) \in Nat
  BY GenerationTyped
<1>5. ~(n < m)
  <2>1. n < m => n \in 1 .. m - 1
    BY <1>2, <1>3
  <2>2. QED
    BY <1>2, <1>3, <1>4, <2>1
<1>6. ~(m < n)
  <2>1. m < n => m \in 1 .. n - 1
    BY <1>2, <1>3
  <2>2. QED
    BY <1>2, <1>3, <1>4, <2>1
<1>7. n = m
  BY <1>5, <1>6
<1>8. QED
  BY <1>2, <1>3, <1>4, <1>7

LEMMA NewerOrNot ==
  ASSUME NEW a \in Seq(Nat), NEW b \in Seq(Nat), NEW c \in Seq(Nat), Newer(a, b)
  PROVE  Newer(a, c) \/ Newer(c, b)
<1>1. PICK n \in Nat : /\ n >= 1 /\ Generation(a, n) > Generation(b, n)
                       /\ \A k \in 1 .. n - 1 : Generation(a, k) = Generation(b, k)
  BY NewerParts
<1> DEFINE apart == {k \in 1 .. n : Generation(c, k) # Generation(a, k) \/ Generation(c, k) # Generation(b, k)}
<1>2. \A k \in Nat : Generation(a, k) \in Nat /\ Generation(b, k) \in Nat /\ Generation(c, k) \in Nat
  BY GenerationTyped
<1>3. apart \in SUBSET Nat
  OBVIOUS
<1>4. n \in apart
  <2>1. n \in 1 .. n
    BY <1>1
  <2>2. Generation(a, n) # Generation(b, n)
    BY <1>1, <1>2
  <2>3. QED
    BY <2>1, <2>2
<1>5. PICK m \in apart : \A k \in apart : m <= k
  <2>1. apart # {}
    BY <1>4
  <2> HIDE DEF apart
  <2>2. QED
    BY <1>3, <2>1, LeastNumber
<1>6. m \in Nat /\ m >= 1 /\ m <= n
  BY <1>5
<1>7. \A k \in 1 .. m - 1 : Generation(a, k) = Generation(c, k) /\ Generation(c, k) = Generation(b, k)
  <2>1. ASSUME NEW k \in 1 .. m - 1 PROVE Generation(a, k) = Generation(c, k) /\ Generation(c, k) = Generation(b, k)
    <3>1. k \in 1 .. n /\ ~(m <= k)
      BY <1>6
    <3>2. k \notin apart
      BY <1>5, <3>1
    <3>3. QED
      BY <3>1, <3>2
  <2>2. QED
    BY <2>1
<1>8. Generation(a, m) >= Generation(b, m)
  <2>1. /\ Generation(a, m) \in Nat /\ Generation(b, m) \in Nat
        /\ Generation(a, n) \in Nat /\ Generation(b, n) \in Nat
    BY <1>2, <1>6
  <2>2. CASE m = n
    BY <1>1, <2>1, <2>2
  <2>3. CASE m # n
    <3>1. m \in 1 .. n - 1
      BY <1>1, <1>6, <2>3
    <3>2. QED
      BY <1>1, <2>1, <3>1
  <2>4. QED
    BY <2>2, <2>3
<1>9. Generation(c, m) # Generation(a, m) \/ Generation(c, m) # Generation(b, m)
  BY <1>5
<1>10. Generation(a, m) > Generation(c, m) \/ Generation(c, m) > Generation(b, m)
  <2>1. Generation(a, m) \in Nat /\ Generation(b, m) \in Nat /\ Generation(c, m) \in Nat
    BY <1>2, <1>6
  <2>2. QED
    BY <1>8, <1>9, <2>1
<1>11. QED
  BY <1>6, <1>7, <1>10, NewerAt

LEMMA ForemostExists ==
  ASSUME NEW models, NEW N \in Nat, \A i \in 1 .. N : models[i].gen \in Seq(Nat),
         NEW S \in SUBSET (1 .. N), S # {}
  PROVE  \E i \in S : i \in Foremost(models, S)
<1> DEFINE T == {n \in 0 .. N : \A Z \in SUBSET (1 .. n) : Z # {} => \E i \in Z : i \in Foremost(models, Z)}
<1>1. 0 \in T
  <2>1. 1 .. 0 = {} /\ 0 \in 0 .. N
    OBVIOUS
  <2>2. QED
    BY <2>1
<1>2. ASSUME NEW n \in 0 .. N - 1, n \in T PROVE n + 1 \in T
  <2> DEFINE m == n + 1
  <2>1. m \in 0 .. N /\ m \in 1 .. N /\ n \in 0 .. N
    OBVIOUS
  <2>2. ASSUME NEW Z \in SUBSET (1 .. m), Z # {} PROVE \E i \in Z : i \in Foremost(models, Z)
    <3> DEFINE Y == Z \ {m}
    <3>1. Y \in SUBSET (1 .. n) /\ \A j \in Z : j \in Y \/ j = m
      OBVIOUS
    <3>2. CASE Y = {}
      <4>1. Z = {m}
        BY <2>2, <3>1, <3>2
      <4>2. ~Newer(models[m].gen, models[m].gen)
        BY <2>1, NewerAsymmetric
      <4>3. m <= m
        OBVIOUS
      <4>4. QED
        BY <4>1, <4>2, <4>3 DEF Foremost, Withstands
    <3>3. CASE Y # {}
      <4>1. PICK i \in Y : i \in Foremost(models, Y)
        BY <1>2, <3>1, <3>3
      <4>2. i \in Z /\ i \in 1 .. n /\ i <= m /\ \A j \in Y : Withstands(models, i, j)
        BY <3>1, <4>1 DEF Foremost
      <4>3. i \in 1 .. N /\ \A j \in Y : j \in 1 .. N /\ j < m
        BY <2>1, <3>1, <4>2
      <4>4. CASE ~Newer(models[m].gen, models[i].gen)
        <5>1. Withstands(models, i, m)
          BY <4>2, <4>4 DEF Withstands
        <5>2. \A j \in Z : Withstands(models, i, j)
          BY <3>1, <4>2, <5>1
        <5>3. QED
          BY <4>2, <5>2 DEF Foremost
      <4>5. CASE Newer(models[m].gen, models[i].gen)
        <5>1. ASSUME NEW j \in Y PROVE Newer(models[m].gen, models[j].gen)
          <6>1. models[j].gen \in Seq(Nat) /\ models[i].gen \in Seq(Nat) /\ models[m].gen \in Seq(Nat)
            BY <2>1, <4>3
          <6>2. ~Newer(models[j].gen, models[i].gen)
            BY <4>2, <6>1, NewerAsymmetric DEF Withstands
          <6>3. QED
            BY <4>5, <6>1, <6>2, NewerOrNot
        <5>2. \A j \in Y : Withstands(models, m, j)
          <6>1. \A j \in Y : ~(m <= j)
            BY <4>3
          <6>2. QED
            BY <5>1, <6>1 DEF Withstands
        <5>3. Withstands(models, m, m)
          BY <2>1, NewerAsymmetric DEF Withstands
        <5>4. m \in Z \/ m \notin Z
          OBVIOUS
        <5>5. CASE m \in Z
          <6>1. \A j \in Z : Withstands(models, m, j)
            BY <3>1, <5>2, <5>3
          <6>2. QED
            BY <5>5, <6>1 DEF Foremost
        <5>6. CASE m \notin Z
          <6>1. Y = Z
            BY <5>6
          <6>2. QED
            BY <4>1, <6>1
        <5>7. QED
          BY <5>5, <5>6
      <4>6. QED
        BY <4>4, <4>5
    <3>4. QED
      BY <3>2, <3>3
  <2>3. QED
    BY <2>1, <2>2
<1> HIDE DEF T
<1>3. \A n \in 0 .. N : n \in T
  BY <1>1, <1>2, UpTo
<1>4. N \in T
  BY <1>3
<1>5. QED
  BY <1>4 DEF T

(***************************************************************************)
(* The declarations that bind a name.                                      *)
(***************************************************************************)
Declaration == [alias : Seq(Words), target : Seq(Words), provider : ToSet(Providers)]

BoundFits(bound) ==
  /\ bound \in Seq(Declaration)
  /\ \A i, j \in DOMAIN bound : bound[i].alias = bound[j].alias => i = j
  /\ \A d \in ToSet(bound) : ~isReservedAnthropicName(d.alias) /\ ~isReservedAnthropicName(d.target)

LEMMA SetOfSequence ==
  ASSUME NEW S, NEW s \in Seq(S)
  PROVE  /\ ToSet(s) \subseteq S /\ Len(s) \in Nat /\ DOMAIN s = 1 .. Len(s)
         /\ \A n \in DOMAIN s : s[n] \in ToSet(s)
         /\ \A x \in ToSet(s) : \E n \in DOMAIN s : s[n] = x
<1>1. Len(s) \in Nat /\ DOMAIN s = 1 .. Len(s) /\ \A n \in 1 .. Len(s) : s[n] \in S
  OBVIOUS
<1>2. QED
  BY <1>1 DEF ToSet

LEMMA SetOfAppend ==
  ASSUME NEW S, NEW s \in Seq(S), NEW x \in S
  PROVE  Append(s, x) \in Seq(S) /\ ToSet(Append(s, x)) = ToSet(s) \cup {x}
<1>1. /\ Len(s) \in Nat /\ DOMAIN s = 1 .. Len(s)
      /\ Append(s, x) \in Seq(S) /\ DOMAIN Append(s, x) = 1 .. Len(s) + 1
      /\ Append(s, x)[Len(s) + 1] = x /\ \A n \in 1 .. Len(s) : Append(s, x)[n] = s[n]
  OBVIOUS
<1> HIDE DEF Append
<1>2. \A n \in 1 .. Len(s) + 1 : n \in 1 .. Len(s) \/ n = Len(s) + 1
  BY <1>1
<1>3. \A n \in 1 .. Len(s) : n \in 1 .. Len(s) + 1
  BY <1>1
<1>4. Len(s) + 1 \in 1 .. Len(s) + 1
  BY <1>1
<1>5. \A y \in ToSet(Append(s, x)) : y \in ToSet(s) \cup {x}
  BY <1>1, <1>2 DEF ToSet
<1>6. \A y \in ToSet(s) \cup {x} : y \in ToSet(Append(s, x))
  BY <1>1, <1>3, <1>4 DEF ToSet
<1>7. QED
  BY <1>1, <1>5, <1>6

LEMMA DeclaredByTyped ==
  ASSUME NEW a \in [ToSet(Providers) -> Seq(Pairs(Seq(Words), Seq(Words)))], NEW p \in ToSet(Providers)
  PROVE  DeclaredBy(a, p) \in Seq(Declaration)
<1> DEFINE s == a[p]
           D(n) == [alias |-> s[n].alias, target |-> s[n].target, provider |-> p]
<1>1. s \in Seq(Pairs(Seq(Words), Seq(Words)))
  OBVIOUS
<1>2. Len(s) \in Nat /\ DOMAIN s = 1 .. Len(s) /\ \A n \in 1 .. Len(s) : s[n] \in Pairs(Seq(Words), Seq(Words))
  BY <1>1
<1>3. \A n \in 1 .. Len(s) : D(n) \in Declaration
  BY <1>2 DEF Pairs, Declaration
<1>4. DeclaredBy(a, p) = [n \in 1 .. Len(s) |-> D(n)]
  BY <1>2 DEF DeclaredBy
<1> HIDE DEF s, D
<1>5. DeclaredBy(a, p) \in [1 .. Len(s) -> Declaration]
  BY <1>3, <1>4
<1>6. QED
  BY <1>2, <1>5

LEMMA DeclarationsTyped ==
  ASSUME NEW a \in [ToSet(Providers) -> Seq(Pairs(Seq(Words), Seq(Words)))]
  PROVE  Declarations(a) \in Seq(Declaration)
<1> DEFINE N == Len(Providers)
           S == Seq(Declaration)
           By(n) == DeclaredBy(a, Providers[n])
           step == [p \in S \X Nat |-> IF p[2] \in 1 .. N THEN p[1] \o By(p[2]) ELSE p[1]]
<1>1. N \in Nat /\ \A n \in 1 .. N : Providers[n] \in ToSet(Providers)
  BY ProvidersAssumption, SetOfSequence
<1>2. \A n \in 1 .. N : By(n) \in S
  BY <1>1, DeclaredByTyped
<1>3. <<>> \in S
  OBVIOUS
<1> HIDE DEF By
<1>4. \A s \in S, n \in Nat : n \in 1 .. N => s \o By(n) \in S
  BY <1>2
<1> HIDE DEF S
<1>5. step \in [S \X Nat -> S] /\ \A s \in S, n \in Nat : n \in 1 .. N => step[<<s, n>>] = s \o By(n)
  BY <1>4
<1> HIDE DEF step
<1>6. PICK f : Follow(f, N, <<>>, step)
  BY <1>1, <1>3, <1>5, FollowExists
<1>7. f \in [0 .. N -> S]
  BY <1>1, <1>3, <1>5, <1>6, FollowTyped
<1> DEFINE Chain(g) == g = [k \in 0 .. N |-> IF k = 0 THEN <<>> ELSE g[k - 1] \o By(k)]
<1>9. Chain(f)
  <2>1. \A k \in 0 .. N : k # 0 => f[k - 1] \in S /\ k \in Nat /\ k \in 1 .. N
    BY <1>1, <1>7
  <2>2. \A k \in 0 .. N : k # 0 => step[<<f[k - 1], k>>] = f[k - 1] \o By(k)
    BY <1>5, <2>1
  <2>3. QED
    BY <1>6, <2>2 DEF Follow
<1>10. PICK g : Chain(g) /\ Declarations(a) = g[N]
  BY <1>9 DEF Declarations, By
<1>11. \A n \in 0 .. N : g[n] \in S
  <2> DEFINE T == {n \in 0 .. N : g[n] \in S}
  <2>1. \A k \in 0 .. N : g[k] = IF k = 0 THEN <<>> ELSE g[k - 1] \o By(k)
    BY <1>10
  <2>2. 0 \in T
    BY <1>1, <1>3, <2>1
  <2>3. ASSUME NEW n \in 0 .. N - 1, n \in T PROVE n + 1 \in T
    <3>1. n + 1 \in 0 .. N /\ n + 1 # 0 /\ (n + 1) - 1 = n /\ n + 1 \in Nat /\ n + 1 \in 1 .. N
      BY <1>1
    <3>2. g[n + 1] = g[n] \o By(n + 1)
      BY <2>1, <3>1
    <3>3. QED
      BY <1>4, <2>3, <3>1, <3>2
  <2>4. QED
    BY <1>1, <2>2, <2>3, UpTo
<1>12. QED
  BY <1>1, <1>10, <1>11 DEF S

Keep(s, d) == IF Binds(s, d) THEN Append(s, d) ELSE s

LEMMA KeepFits ==
  ASSUME NEW s, BoundFits(s), NEW d \in Declaration
  PROVE  BoundFits(Keep(s, d))
<1>1. CASE ~Binds(s, d)
  BY <1>1 DEF Keep
<1>2. CASE Binds(s, d)
  <2>1. s \in Seq(Declaration)
    BY DEF BoundFits
  <2>2. /\ Len(s) \in Nat /\ DOMAIN s = 1 .. Len(s)
        /\ Append(s, d) \in Seq(Declaration) /\ DOMAIN Append(s, d) = 1 .. Len(s) + 1
        /\ Append(s, d)[Len(s) + 1] = d /\ \A n \in 1 .. Len(s) : Append(s, d)[n] = s[n]
    BY <2>1
  <2>3. PICK t : t = Append(s, d)
    OBVIOUS
  <2>4. \A n \in DOMAIN t : n \in DOMAIN s \/ n = Len(s) + 1
    BY <2>2, <2>3
  <2>5. \A b \in ToSet(s) : b.alias # d.alias
    BY <1>2 DEF Binds
  <2>6. \A n \in DOMAIN s : s[n].alias # d.alias
    BY <2>5 DEF ToSet
  <2>7. \A i, j \in DOMAIN t : t[i].alias = t[j].alias => i = j
    <3>1. SUFFICES ASSUME NEW i \in DOMAIN t, NEW j \in DOMAIN t, t[i].alias = t[j].alias PROVE i = j
      OBVIOUS
    <3>2. CASE i \in DOMAIN s /\ j \in DOMAIN s
      BY <2>2, <2>3, <3>1, <3>2 DEF BoundFits
    <3>3. CASE i \in DOMAIN s /\ j = Len(s) + 1
      BY <2>2, <2>3, <2>6, <3>1, <3>3
    <3>4. CASE i = Len(s) + 1 /\ j \in DOMAIN s
      BY <2>2, <2>3, <2>6, <3>1, <3>4
    <3>5. QED
      BY <2>4, <3>2, <3>3, <3>4
  <2>8. ToSet(t) = ToSet(s) \cup {d}
    BY <2>1, <2>3, SetOfAppend
  <2>9. ~isReservedAnthropicName(d.alias) /\ ~isReservedAnthropicName(d.target)
    BY <1>2 DEF Binds
  <2>10. Keep(s, d) = t
    BY <1>2, <2>3 DEF Keep
  <2>11. t \in Seq(Declaration)
    BY <2>2, <2>3
  <2>12. \A x \in ToSet(t) : ~isReservedAnthropicName(x.alias) /\ ~isReservedAnthropicName(x.target)
    BY <2>8, <2>9 DEF BoundFits
  <2>13. QED
    BY <2>7, <2>10, <2>11, <2>12 DEF BoundFits
<1>3. QED
  BY <1>1, <1>2

LEMMA BoundFitsAlways ==
  ASSUME NEW a \in [ToSet(Providers) -> Seq(Pairs(Seq(Words), Seq(Words)))]
  PROVE  BoundFits(Bound(a))
<1> DEFINE all == Declarations(a)
           N == Len(all)
           S == {s \in Seq(Declaration) : BoundFits(s)}
           step == [p \in S \X Nat |-> IF p[2] \in 1 .. N THEN Keep(p[1], all[p[2]]) ELSE p[1]]
<1>0. all \in Seq(Declaration)
  BY DeclarationsTyped
<1>1. N \in Nat /\ \A n \in 1 .. N : all[n] \in Declaration
  BY <1>0
<1>2. <<>> \in S
  BY DEF BoundFits, ToSet
<1> HIDE DEF all
<1>3. \A s \in S, n \in Nat : n \in 1 .. N => Keep(s, all[n]) \in S
  <2>1. ASSUME NEW s \in S, NEW n \in 1 .. N PROVE Keep(s, all[n]) \in S
    <3>1. all[n] \in Declaration /\ BoundFits(s)
      BY <1>1
    <3>2. BoundFits(Keep(s, all[n]))
      BY <3>1, KeepFits
    <3>3. QED
      BY <3>2 DEF BoundFits
  <2>2. QED
    BY <2>1
<1> HIDE DEF S
<1>4. step \in [S \X Nat -> S] /\ \A s \in S, n \in Nat : n \in 1 .. N => step[<<s, n>>] = Keep(s, all[n])
  BY <1>3
<1> HIDE DEF step
<1>5. PICK f : Follow(f, N, <<>>, step)
  BY <1>1, <1>2, <1>4, FollowExists
<1>6. f \in [0 .. N -> S]
  BY <1>1, <1>2, <1>4, <1>5, FollowTyped
<1> DEFINE Chain(g) == g = [k \in 0 .. N |-> IF k = 0 THEN <<>> ELSE Keep(g[k - 1], all[k])]
<1>7. Chain(f)
  <2>1. \A k \in 0 .. N : k # 0 => f[k - 1] \in S /\ k \in Nat /\ k \in 1 .. N
    BY <1>1, <1>6
  <2>2. \A k \in 0 .. N : k # 0 => step[<<f[k - 1], k>>] = Keep(f[k - 1], all[k])
    BY <1>4, <2>1
  <2>3. QED
    BY <1>5, <2>2 DEF Follow
<1>8. PICK g : Chain(g) /\ Bound(a) = g[N]
  BY <1>7 DEF Bound, all, Keep
<1>9. \A n \in 0 .. N : g[n] \in S
  <2> DEFINE T == {n \in 0 .. N : g[n] \in S}
  <2>1. \A k \in 0 .. N : g[k] = IF k = 0 THEN <<>> ELSE Keep(g[k - 1], all[k])
    BY <1>8
  <2>2. 0 \in T
    BY <1>1, <1>2, <2>1
  <2>3. ASSUME NEW n \in 0 .. N - 1, n \in T PROVE n + 1 \in T
    <3>1. n + 1 \in 0 .. N /\ n + 1 # 0 /\ (n + 1) - 1 = n /\ n + 1 \in Nat /\ n + 1 \in 1 .. N
      BY <1>1
    <3>2. g[n + 1] = Keep(g[n], all[n + 1])
      BY <2>1, <3>1
    <3>3. QED
      BY <1>3, <2>3, <3>1, <3>2
  <2>4. QED
    BY <1>1, <2>2, <2>3, UpTo
<1>10. Bound(a) \in S
  BY <1>1, <1>8, <1>9
<1>11. QED
  BY <1>10 DEF S

(* What a declaration that binds a name is.                                *)
LEMMA BoundParts ==
  ASSUME NEW bound, BoundFits(bound)
  PROVE  /\ Len(bound) \in Nat /\ DOMAIN bound = 1 .. Len(bound)
         /\ \A n \in DOMAIN bound : bound[n] \in ToSet(bound)
         /\ \A d \in ToSet(bound) : \E n \in DOMAIN bound : bound[n] = d
         /\ \A d \in ToSet(bound) : d.alias \in Seq(Words) /\ d.target \in Seq(Words) /\ d.provider \in ToSet(Providers)
         /\ \A d, e \in ToSet(bound) : d.alias = e.alias => d = e
<1>1. bound \in Seq(Declaration)
  BY DEF BoundFits
<1>2. ToSet(bound) \subseteq Declaration
  BY <1>1, SetOfSequence
<1>3. \A d \in ToSet(bound) : d.alias \in Seq(Words) /\ d.target \in Seq(Words) /\ d.provider \in ToSet(Providers)
  BY <1>2 DEF Declaration
<1>4. \A d, e \in ToSet(bound) : d.alias = e.alias => d = e
  BY DEF BoundFits, ToSet
<1>5. QED
  BY <1>1, <1>3, <1>4, SetOfSequence

(***************************************************************************)
(* Registries: an entry is one that a release came with, retired since or  *)
(* not.                                                                    *)
(***************************************************************************)
Model == [id : Seq(Words), provider : ToSet(Providers), family : Seq(Words), gen : Seq(Nat),
          preview : BOOLEAN, retired : BOOLEAN]
Target == [id : Seq(Words), provider : ToSet(Providers)]

Like(e, f) == e.id = f.id /\ e.provider = f.provider /\ e.family = f.family

RegistryFits(r) ==
  /\ r \in Seq(Model)
  /\ \A i, j \in DOMAIN r : r[i].id = r[j].id => i = j
  /\ \A e \in ToSet(r) : \E f \in Entries : Like(e, f)

LEMMA QualifiedFacts ==
  ASSUME NEW S, NEW p \in S, NEW x \in Seq(S)
  PROVE  /\ Qualified(p, x) \in Seq(S) /\ Qualified(p, x) # <<>> /\ Len(Qualified(p, x)) = Len(x) + 1
         /\ Head(Qualified(p, x)) = p /\ Tail(Qualified(p, x)) = x
<1>1. <<p>> \in Seq(S) /\ Len(<<p>>) = 1 /\ <<p>>[1] = p
  OBVIOUS
<1>2. PICK q : q = Qualified(p, x)
  OBVIOUS
<1>3. /\ q \in Seq(S) /\ Len(q) = Len(x) + 1 /\ Len(x) \in Nat
      /\ \A k \in 1 .. Len(x) + 1 : q[k] = IF k <= 1 THEN <<p>>[k] ELSE x[k - 1]
  BY <1>1, <1>2, ConcatProperties DEF Qualified
<1>4. q # <<>> /\ q[1] = p
  BY <1>1, <1>3
<1>5. Head(q) = p /\ Tail(q) \in Seq(S) /\ Len(Tail(q)) = Len(x)
  BY <1>3, <1>4
<1>6. \A k \in 1 .. Len(x) : Tail(q)[k] = x[k]
  <2>1. \A k \in 1 .. Len(x) : Tail(q)[k] = q[k + 1]
    BY <1>3, <1>4
  <2>2. \A k \in 1 .. Len(x) : q[k + 1] = x[k]
    BY <1>3
  <2>3. QED
    BY <2>1, <2>2
<1>7. Tail(q) = x
  BY <1>5, <1>6
<1>8. QED
  BY <1>2, <1>3, <1>4, <1>5, <1>7

LEMMA ProvidersAreWords ==
  ASSUME NEW p \in ToSet(Providers)
  PROVE  p \in Words /\ p \notin ReservedPrefixes
BY RegistryAssumption

LEMMA SameQualified ==
  ASSUME NEW p \in ToSet(Providers), NEW q \in ToSet(Providers), NEW x \in Seq(Words), NEW y \in Seq(Words),
         Qualified(p, x) = Qualified(q, y)
  PROVE  p = q /\ x = y
<1>1. p \in Words /\ q \in Words
  BY ProvidersAreWords
<1>2. Head(Qualified(p, x)) = p /\ Tail(Qualified(p, x)) = x
  BY <1>1, QualifiedFacts
<1>3. Head(Qualified(q, y)) = q /\ Tail(Qualified(q, y)) = y
  BY <1>1, QualifiedFacts
<1>4. QED
  BY <1>2, <1>3

LEMMA RegistryParts ==
  ASSUME NEW r, RegistryFits(r)
  PROVE  /\ Len(r) \in Nat /\ DOMAIN r = 1 .. Len(r)
         /\ \A n \in DOMAIN r : r[n] \in ToSet(r)
         /\ \A e \in ToSet(r) : \E n \in DOMAIN r : r[n] = e
         /\ ToSet(r) \subseteq Model
         /\ \A e, f \in ToSet(r) : e.id = f.id => e = f
<1>1. r \in Seq(Model)
  BY DEF RegistryFits
<1>2. \A e, f \in ToSet(r) : e.id = f.id => e = f
  BY DEF RegistryFits, ToSet
<1>3. QED
  BY <1>1, <1>2, SetOfSequence

LEMMA EntryParts ==
  ASSUME NEW r, RegistryFits(r), NEW e \in ToSet(r)
  PROVE  /\ e.id \in Seq(Words) /\ e.id # <<>> /\ e.provider \in ToSet(Providers)
         /\ e.family \in Seq(Words) /\ e.gen \in Seq(Nat) /\ e.retired \in BOOLEAN /\ e.preview \in BOOLEAN
         /\ ~isReservedAnthropicName(e.id) /\ Head(e.id) # "claude"
         /\ e.family # NoFamily => Len(e.family) = 1 /\ ~isReservedAnthropicName(e.family)
         /\ e.id \notin CatalogFamilies /\ e.family \notin CatalogFamilies
         /\ \A f \in ToSet(r) : /\ e.provider = f.provider => e.family # f.id
                                /\ Qualified(e.provider, e.id) # f.id /\ Qualified(e.provider, e.family) # f.id
<1>1. e \in Model
  BY RegistryParts
<1>2. PICK g \in Entries : Like(e, g)
  BY DEF RegistryFits
<1>3. /\ IsName(g.id) /\ ~isReservedAnthropicName(g.id) /\ Head(g.id) # "claude"
      /\ g.family # NoFamily => Len(g.family) = 1 /\ ~isReservedAnthropicName(g.family)
      /\ {g.id, g.family} \cap CatalogFamilies = {}
      /\ \A f \in Entries : /\ g.provider = f.provider => g.family # f.id
                            /\ \A name \in {g.id, g.family} : Qualified(g.provider, name) # f.id
  BY RegistryAssumption
<1>4. ASSUME NEW f \in ToSet(r)
      PROVE  /\ e.provider = f.provider => e.family # f.id
             /\ Qualified(e.provider, e.id) # f.id /\ Qualified(e.provider, e.family) # f.id
  <2>1. PICK h \in Entries : Like(f, h)
    BY DEF RegistryFits
  <2>2. QED
    BY <1>2, <1>3, <2>1 DEF Like
<1>5. QED
  BY <1>1, <1>2, <1>3, <1>4 DEF Like, Model, IsName

LEMMA EntryOfFacts ==
  ASSUME NEW r, RegistryFits(r)
  PROVE  /\ \A e \in ToSet(r) : e.id \in Ids(r) /\ EntryOf(r, e.id) = e
         /\ \A id \in Ids(r) : EntryOf(r, id) \in ToSet(r) /\ EntryOf(r, id).id = id
<1>1. ASSUME NEW e \in ToSet(r) PROVE e.id \in Ids(r) /\ EntryOf(r, e.id) = e
  <2>1. PICK n \in DOMAIN r : r[n] = e
    BY RegistryParts
  <2>2. {i \in DOMAIN r : r[i].id = e.id} = {n}
    BY <2>1 DEF RegistryFits
  <2>3. n \in Nat
    BY <2>1, RegistryParts
  <2>4. First({i \in DOMAIN r : r[i].id = e.id}) = n
    BY <2>2, <2>3, FirstOfOne
  <2>5. QED
    BY <2>1, <2>4 DEF EntryOf, Ids
<1>2. \A id \in Ids(r) : \E e \in ToSet(r) : e.id = id
  BY DEF Ids
<1>3. QED
  BY <1>1, <1>2

LEMMA WinnerDomain ==
  ASSUME NEW r
  PROVE  DOMAIN selectFamilyWinners(r) = {<<e.provider, e.family>> : e \in {x \in ToSet(r) : Competes(x)}}
BY DEF selectFamilyWinners

LEMMA WinnerFacts ==
  ASSUME NEW r, RegistryFits(r), NEW key \in DOMAIN selectFamilyWinners(r)
  PROVE  /\ selectFamilyWinners(r)[key] \in ToSet(r) /\ Competes(selectFamilyWinners(r)[key])
         /\ key = <<selectFamilyWinners(r)[key].provider, selectFamilyWinners(r)[key].family>>
         /\ key[1] = selectFamilyWinners(r)[key].provider /\ key[2] = selectFamilyWinners(r)[key].family
<1>1. PICK e \in ToSet(r) : Competes(e) /\ key = <<e.provider, e.family>>
  <2>1. key \in {<<e.provider, e.family>> : e \in {x \in ToSet(r) : Competes(x)}}
    BY WinnerDomain
  <2>2. QED
    BY <2>1
<1>2. PICK n \in DOMAIN r : r[n] = e
  BY RegistryParts
<1>3. key[1] = e.provider /\ key[2] = e.family
  BY <1>1
<1>4. n \in Running(r, key)
  BY <1>1, <1>2, <1>3 DEF Running
<1>5. Running(r, key) \in SUBSET (1 .. Len(r)) /\ Running(r, key) # {}
  BY <1>4, RegistryParts DEF Running
<1>6. \A i \in 1 .. Len(r) : r[i].gen \in Seq(Nat)
  BY RegistryParts, EntryParts
<1>7. \E i \in Running(r, key) : i \in Foremost(r, Running(r, key))
  BY <1>5, <1>6, RegistryParts, ForemostExists
<1>8. PICK i : i = CHOOSE j \in Foremost(r, Running(r, key)) : TRUE
  OBVIOUS
<1>9. i \in Running(r, key)
  BY <1>7, <1>8 DEF Foremost
<1>10. selectFamilyWinners(r)[key] = r[i]
  BY <1>8, WinnerDomain DEF selectFamilyWinners
<1>11. i \in DOMAIN r /\ Competes(r[i]) /\ r[i].provider = key[1] /\ r[i].family = key[2]
  BY <1>9 DEF Running
<1>12. QED
  BY <1>1, <1>3, <1>10, <1>11, RegistryParts

(***************************************************************************)
(* The parts of the table before the targets that no registry knows.       *)
(***************************************************************************)
AliasesOf(bound) == {d.alias : d \in ToSet(bound)}

LEMMA AliasModelFacts ==
  ASSUME NEW r, RegistryFits(r), NEW bound, BoundFits(bound), NEW d \in ToSet(bound)
  PROVE  /\ AliasModel(r, d) \in Target /\ AliasModel(r, d).id = d.target
         /\ d.target \in Ids(r) => AliasModel(r, d) = toResolvedModel(EntryOf(r, d.target))
         /\ d.target \notin Ids(r) => AliasModel(r, d) = [id |-> d.target, provider |-> d.provider]
<1>1. d.target \in Seq(Words) /\ d.provider \in ToSet(Providers)
  BY BoundParts
<1>2. d.target \in Ids(r) =>
        /\ EntryOf(r, d.target) \in ToSet(r) /\ EntryOf(r, d.target).id = d.target
        /\ EntryOf(r, d.target).provider \in ToSet(Providers)
  BY EntryOfFacts, EntryParts
<1>3. QED
  BY <1>1, <1>2 DEF AliasModel, Target, toResolvedModel

LEMMA DeclaredFacts ==
  ASSUME NEW r, NEW bound, BoundFits(bound)
  PROVE  /\ DOMAIN Declared(r, bound) = AliasesOf(bound)
         /\ \A d \in ToSet(bound) : Declared(r, bound)[d.alias] = AliasModel(r, d)
<1>1. DOMAIN Declared(r, bound) = AliasesOf(bound)
  BY DEF Declared, AliasesOf
<1>2. ASSUME NEW d \in ToSet(bound) PROVE Declared(r, bound)[d.alias] = AliasModel(r, d)
  <2>1. PICK n \in DOMAIN bound : bound[n] = d
    BY BoundParts
  <2>2. {k \in DOMAIN bound : bound[k].alias = d.alias} = {n}
    BY <2>1 DEF BoundFits
  <2>3. First({k \in DOMAIN bound : bound[k].alias = d.alias}) = n
    <3>1. DOMAIN bound = 1 .. Len(bound) /\ Len(bound) \in Nat
      BY BoundParts
    <3>2. n \in Nat
      BY <2>1, <3>1
    <3>3. First({n}) = n
      BY <3>2, FirstOfOne
    <3>4. QED
      BY <2>2, <3>3
  <2>4. d.alias \in {x.alias : x \in ToSet(bound)}
    OBVIOUS
  <2>5. Declared(r, bound)[d.alias]
          = AliasModel(r, bound[First({k \in DOMAIN bound : bound[k].alias = d.alias})])
    BY <2>4 DEF Declared
  <2>6. QED
    BY <2>1, <2>3, <2>5
<1>3. QED
  BY <1>1, <1>2

(* Whether a declaration's qualified form is set.                          *)
LEMMA QualifiedAliasesFacts ==
  ASSUME NEW r, NEW bound, BoundFits(bound)
  PROVE  /\ \A d \in ToSet(bound) : d.alias \notin Ids(r) =>
              /\ Qualified(d.provider, d.alias) \in DOMAIN QualifiedAliases(r, bound)
              /\ QualifiedAliases(r, bound)[Qualified(d.provider, d.alias)] = AliasModel(r, d)
         /\ \A q \in DOMAIN QualifiedAliases(r, bound) : \E d \in ToSet(bound) :
              d.alias \notin Ids(r) /\ q = Qualified(d.provider, d.alias)
<1> DEFINE D == {Qualified(d.provider, d.alias) : d \in {x \in ToSet(bound) : QualifyAlias(r, x)}}
<1>1. PICK m : m = Declared(r, bound)
  OBVIOUS
<1>2. QualifiedAliases(r, bound) = [q \in D |-> m[Tail(q)]]
  BY <1>1 DEF QualifiedAliases
<1>3. ASSUME NEW d \in ToSet(bound), d.alias \notin Ids(r)
      PROVE  /\ Qualified(d.provider, d.alias) \in D
             /\ m[Tail(Qualified(d.provider, d.alias))] = AliasModel(r, d)
  <2>1. Qualified(d.provider, d.alias) \in D
    BY <1>3 DEF QualifyAlias
  <2>2. d.alias \in Seq(Words) /\ d.provider \in ToSet(Providers)
    BY BoundParts
  <2>3. Tail(Qualified(d.provider, d.alias)) = d.alias
    BY <2>2, QualifiedFacts, ProvidersAreWords
  <2>4. QED
    BY <1>1, <2>1, <2>3, DeclaredFacts
<1>4. \A q \in D : \E d \in ToSet(bound) : d.alias \notin Ids(r) /\ q = Qualified(d.provider, d.alias)
  BY DEF QualifyAlias
<1> HIDE DEF D
<1>5. QED
  BY <1>2, <1>3, <1>4

LEMMA QualifiedIdsFacts ==
  ASSUME NEW r, RegistryFits(r)
  PROVE  /\ \A e \in ToSet(r) : /\ Qualified(e.provider, e.id) \in DOMAIN QualifiedIds(r)
                                /\ QualifiedIds(r)[Qualified(e.provider, e.id)] = toResolvedModel(e)
         /\ \A q \in DOMAIN QualifiedIds(r) : \E e \in ToSet(r) : q = Qualified(e.provider, e.id)
<1> DEFINE D == {Qualified(e.provider, e.id) : e \in ToSet(r)}
<1>1. QualifiedIds(r) = [q \in D |-> toResolvedModel(EntryOf(r, Tail(q)))]
  BY DEF QualifiedIds
<1>2. ASSUME NEW e \in ToSet(r)
      PROVE  Qualified(e.provider, e.id) \in D /\ EntryOf(r, Tail(Qualified(e.provider, e.id))) = e
  <2>1. Qualified(e.provider, e.id) \in D
    OBVIOUS
  <2>2. Tail(Qualified(e.provider, e.id)) = e.id
    <3>1. e.id \in Seq(Words) /\ e.provider \in ToSet(Providers)
      BY EntryParts
    <3>2. e.provider \in Words
      BY <3>1, ProvidersAreWords
    <3>3. QED
      BY <3>1, <3>2, QualifiedFacts
  <2>3. QED
    BY <2>1, <2>2, EntryOfFacts
<1>3. \A q \in D : \E e \in ToSet(r) : q = Qualified(e.provider, e.id)
  OBVIOUS
<1> HIDE DEF D
<1>4. QED
  BY <1>1, <1>2, <1>3

LEMMA QualifiedFamiliesFacts ==
  ASSUME NEW r, RegistryFits(r), NEW W, W = selectFamilyWinners(r)
  PROVE  /\ \A key \in DOMAIN W : /\ Qualified(key[1], key[2]) \in DOMAIN QualifiedFamilies(W)
                                  /\ QualifiedFamilies(W)[Qualified(key[1], key[2])] = toResolvedModel(W[key])
         /\ \A q \in DOMAIN QualifiedFamilies(W) : \E key \in DOMAIN W : q = Qualified(key[1], key[2])
<1> DEFINE D == {Qualified(key[1], key[2]) : key \in DOMAIN W}
<1>1. QualifiedFamilies(W) = [q \in D |-> toResolvedModel(W[<<Head(q), Tail(q)>>])]
  BY DEF QualifiedFamilies
<1>2. ASSUME NEW key \in DOMAIN W
      PROVE  /\ Qualified(key[1], key[2]) \in D
             /\ <<Head(Qualified(key[1], key[2])), Tail(Qualified(key[1], key[2]))>> = key
  <2>1. Qualified(key[1], key[2]) \in D
    OBVIOUS
  <2>2. W[key] \in ToSet(r) /\ key = <<W[key].provider, W[key].family>> /\ key[1] = W[key].provider /\ key[2] = W[key].family
    BY WinnerFacts
  <2>3. key[1] \in Words /\ key[2] \in Seq(Words)
    BY <2>2, EntryParts, ProvidersAreWords
  <2>4. QED
    BY <2>1, <2>2, <2>3, QualifiedFacts
<1>3. \A q \in D : \E key \in DOMAIN W : q = Qualified(key[1], key[2])
  OBVIOUS
<1> HIDE DEF D
<1>4. QED
  BY <1>1, <1>2, <1>3

LEMMA AtopFacts ==
  ASSUME NEW m, NEW n
  PROVE  /\ DOMAIN Atop(m, n) = DOMAIN m \cup DOMAIN n
         /\ \A k \in DOMAIN m : Atop(m, n)[k] = m[k]
         /\ \A k \in DOMAIN n : k \notin DOMAIN m => Atop(m, n)[k] = n[k]
BY DEF Atop

(* An alias of the provider stands over an id, an id over a family.        *)
LEMMA QualifiedNamesFacts ==
  ASSUME NEW r, RegistryFits(r), NEW bound, BoundFits(bound), NEW W, W = selectFamilyWinners(r)
  PROVE  /\ \A d \in ToSet(bound) : d.alias \notin Ids(r) =>
              /\ Qualified(d.provider, d.alias) \in DOMAIN QualifiedNames(r, bound)
              /\ QualifiedNames(r, bound)[Qualified(d.provider, d.alias)] = AliasModel(r, d)
         /\ \A e \in ToSet(r) :
              /\ Qualified(e.provider, e.id) \in DOMAIN QualifiedNames(r, bound)
              /\ QualifiedNames(r, bound)[Qualified(e.provider, e.id)] = toResolvedModel(e)
         /\ \A key \in DOMAIN W :
              /\ Qualified(key[1], key[2]) \in DOMAIN QualifiedNames(r, bound)
              /\ \/ QualifiedNames(r, bound)[Qualified(key[1], key[2])] = toResolvedModel(W[key])
                 \/ \E d \in ToSet(bound) : d.alias = key[2] /\ d.provider = key[1] /\ d.alias \notin Ids(r)
         /\ \A q \in DOMAIN QualifiedNames(r, bound) :
              \/ \E d \in ToSet(bound) : d.alias \notin Ids(r) /\ q = Qualified(d.provider, d.alias)
              \/ \E e \in ToSet(r) : q = Qualified(e.provider, e.id)
              \/ \E key \in DOMAIN W : q = Qualified(key[1], key[2])
<1>1. PICK A, I, F : A = QualifiedAliases(r, bound) /\ I = QualifiedIds(r) /\ F = QualifiedFamilies(W)
  OBVIOUS
<1>2. PICK Q : Q = QualifiedNames(r, bound)
  OBVIOUS
<1>3. /\ DOMAIN Q = DOMAIN A \cup DOMAIN I \cup DOMAIN F
      /\ \A k \in DOMAIN A : Q[k] = A[k]
      /\ \A k \in DOMAIN I : k \notin DOMAIN A => Q[k] = I[k]
      /\ \A k \in DOMAIN F : k \notin DOMAIN A /\ k \notin DOMAIN I => Q[k] = F[k]
  <2>1. PICK below : below = Atop(I, F)
    OBVIOUS
  <2>2. Q = Atop(A, below)
    BY <1>1, <1>2, <2>1 DEF QualifiedNames
  <2>3. /\ DOMAIN below = DOMAIN I \cup DOMAIN F /\ \A k \in DOMAIN I : below[k] = I[k]
        /\ \A k \in DOMAIN F : k \notin DOMAIN I => below[k] = F[k]
    <3>1. /\ DOMAIN Atop(I, F) = DOMAIN I \cup DOMAIN F /\ \A k \in DOMAIN I : Atop(I, F)[k] = I[k]
          /\ \A k \in DOMAIN F : k \notin DOMAIN I => Atop(I, F)[k] = F[k]
      BY AtopFacts
    <3>2. QED
      BY <2>1, <3>1
  <2>4. /\ DOMAIN Q = DOMAIN A \cup DOMAIN below /\ \A k \in DOMAIN A : Q[k] = A[k]
        /\ \A k \in DOMAIN below : k \notin DOMAIN A => Q[k] = below[k]
    <3>1. /\ DOMAIN Atop(A, below) = DOMAIN A \cup DOMAIN below
          /\ \A k \in DOMAIN A : Atop(A, below)[k] = A[k]
          /\ \A k \in DOMAIN below : k \notin DOMAIN A => Atop(A, below)[k] = below[k]
      BY AtopFacts
    <3>2. QED
      BY <2>2, <3>1
  <2>5. QED
    BY <2>3, <2>4
<1>4. /\ \A d \in ToSet(bound) : d.alias \notin Ids(r) =>
           /\ Qualified(d.provider, d.alias) \in DOMAIN A /\ A[Qualified(d.provider, d.alias)] = AliasModel(r, d)
      /\ \A q \in DOMAIN A : \E d \in ToSet(bound) : d.alias \notin Ids(r) /\ q = Qualified(d.provider, d.alias)
  BY <1>1, QualifiedAliasesFacts
<1>5. /\ \A e \in ToSet(r) : /\ Qualified(e.provider, e.id) \in DOMAIN I
                             /\ I[Qualified(e.provider, e.id)] = toResolvedModel(e)
      /\ \A q \in DOMAIN I : \E e \in ToSet(r) : q = Qualified(e.provider, e.id)
  BY <1>1, QualifiedIdsFacts
<1>6. /\ \A key \in DOMAIN W : /\ Qualified(key[1], key[2]) \in DOMAIN F
                               /\ F[Qualified(key[1], key[2])] = toResolvedModel(W[key])
      /\ \A q \in DOMAIN F : \E key \in DOMAIN W : q = Qualified(key[1], key[2])
  BY <1>1, QualifiedFamiliesFacts
<1>7. ASSUME NEW e \in ToSet(r) PROVE Qualified(e.provider, e.id) \notin DOMAIN A
  <2>1. SUFFICES ASSUME NEW d \in ToSet(bound), d.alias \notin Ids(r),
                        Qualified(e.provider, e.id) = Qualified(d.provider, d.alias)
                 PROVE  FALSE
    BY <1>4
  <2>2. e.id = d.alias
    BY <2>1, SameQualified, EntryParts, BoundParts
  <2>3. QED
    BY <2>1, <2>2, EntryOfFacts
<1>8. ASSUME NEW key \in DOMAIN W, NEW q, q = Qualified(key[1], key[2])
      PROVE  /\ q \notin DOMAIN I
             /\ q \in DOMAIN A => \E d \in ToSet(bound) : d.alias = key[2] /\ d.provider = key[1] /\ d.alias \notin Ids(r)
  <2>1. W[key] \in ToSet(r) /\ key[1] = W[key].provider /\ key[2] = W[key].family
    BY WinnerFacts
  <2>2. key[1] \in ToSet(Providers) /\ key[2] \in Seq(Words)
    BY <2>1, EntryParts
  <2>3. ASSUME q \in DOMAIN I PROVE FALSE
    <3>1. PICK e \in ToSet(r) : q = Qualified(e.provider, e.id)
      BY <1>5, <2>3
    <3>2. e.provider \in ToSet(Providers) /\ e.id \in Seq(Words)
      BY EntryParts
    <3>3. e.provider = key[1] /\ e.id = key[2]
      <4>1. Qualified(e.provider, e.id) = Qualified(key[1], key[2])
        BY <1>8, <3>1
      <4>2. QED
        BY <2>2, <3>2, <4>1, SameQualified
    <3>4. QED
      BY <2>1, <3>3, EntryParts
  <2>4. ASSUME q \in DOMAIN A PROVE \E d \in ToSet(bound) : d.alias = key[2] /\ d.provider = key[1] /\ d.alias \notin Ids(r)
    <3>1. PICK d \in ToSet(bound) : d.alias \notin Ids(r) /\ q = Qualified(d.provider, d.alias)
      BY <1>4, <2>4
    <3>2. d.provider \in ToSet(Providers) /\ d.alias \in Seq(Words)
      BY BoundParts
    <3>3. d.provider = key[1] /\ d.alias = key[2]
      <4>1. Qualified(d.provider, d.alias) = Qualified(key[1], key[2])
        BY <1>8, <3>1
      <4>2. QED
        BY <2>2, <3>2, <4>1, SameQualified
    <3>4. QED
      BY <3>1, <3>3
  <2>5. QED
    BY <2>3, <2>4
<1>9. \A d \in ToSet(bound) : d.alias \notin Ids(r) =>
        Qualified(d.provider, d.alias) \in DOMAIN Q /\ Q[Qualified(d.provider, d.alias)] = AliasModel(r, d)
  BY <1>3, <1>4
<1>10. \A e \in ToSet(r) : Qualified(e.provider, e.id) \in DOMAIN Q /\ Q[Qualified(e.provider, e.id)] = toResolvedModel(e)
  BY <1>3, <1>5, <1>7
<1>11. ASSUME NEW key \in DOMAIN W
       PROVE  /\ Qualified(key[1], key[2]) \in DOMAIN Q
              /\ \/ Q[Qualified(key[1], key[2])] = toResolvedModel(W[key])
                 \/ \E d \in ToSet(bound) : d.alias = key[2] /\ d.provider = key[1] /\ d.alias \notin Ids(r)
  BY <1>3, <1>6, <1>8
<1>12. \A q \in DOMAIN Q :
         \/ \E d \in ToSet(bound) : d.alias \notin Ids(r) /\ q = Qualified(d.provider, d.alias)
         \/ \E e \in ToSet(r) : q = Qualified(e.provider, e.id)
         \/ \E key \in DOMAIN W : q = Qualified(key[1], key[2])
  BY <1>3, <1>4, <1>5, <1>6
<1>13. QED
  BY <1>2, <1>9, <1>10, <1>11, <1>12

(***************************************************************************)
(* Families, and the targets that no registry knows.                       *)
(***************************************************************************)
LEMMA FamilyFacts ==
  ASSUME NEW r, RegistryFits(r), NEW W, W = selectFamilyWinners(r), NEW f \in Families(W)
  PROVE  f \in Seq(Words) /\ f # NoFamily /\ Len(f) = 1 /\ ~isReservedAnthropicName(f)
<1>1. PICK key \in DOMAIN W : f = key[2]
  BY DEF Families
<1>2. W[key] \in ToSet(r) /\ Competes(W[key]) /\ key[2] = W[key].family
  BY WinnerFacts
<1>3. QED
  BY <1>1, <1>2, EntryParts DEF Competes

LEMMA UniqueFacts ==
  ASSUME NEW r, RegistryFits(r), NEW W, W = selectFamilyWinners(r), NEW f \in UniqueFamilies(W)
  PROVE  /\ f \in Families(W) /\ f \in DOMAIN flattenUniqueFamilies(W)
         /\ flattenUniqueFamilies(W)[f] \in ToSet(r) /\ Competes(flattenUniqueFamilies(W)[f])
<1>1. f \in Families(W) /\ Cardinality(Claimants(W, f)) = 1
  BY DEF UniqueFamilies
<1>2. Claimants(W, f) # {}
  BY <1>1, FS_EmptySet
<1>3. PICK p : p = CHOOSE x \in Claimants(W, f) : TRUE
  OBVIOUS
<1>4. p \in Claimants(W, f)
  BY <1>2, <1>3
<1>5. <<p, f>> \in DOMAIN W
  BY <1>4 DEF Claimants
<1>6. flattenUniqueFamilies(W)[f] = W[<<p, f>>] /\ f \in DOMAIN flattenUniqueFamilies(W)
  BY <1>3 DEF flattenUniqueFamilies
<1>7. W[<<p, f>>] \in ToSet(r) /\ Competes(W[<<p, f>>])
  BY <1>5, WinnerFacts
<1>8. QED
  BY <1>1, <1>6, <1>7

LEMMA FamilyTableFacts ==
  ASSUME NEW W
  PROVE  /\ DOMAIN FamilyTable(W) = Families(W)
         /\ \A f \in Families(W) : f \in UniqueFamilies(W) =>
              /\ FamilyTable(W)[f].kind = "unique"
              /\ FamilyTable(W)[f].model = toResolvedModel(flattenUniqueFamilies(W)[f])
         /\ \A f \in Families(W) : f \notin UniqueFamilies(W) => FamilyTable(W)[f].kind = "ambiguous"
BY DEF FamilyTable

(* Names that were there before any target keep their meaning.             *)
AuthorizedFits(r, bound, t) ==
  /\ \A a \in DOMAIN Declared(r, bound) : a \in DOMAIN t.byAlias /\ t.byAlias[a] = Declared(r, bound)[a]
  /\ \A a \in DOMAIN t.byAlias : a \notin DOMAIN Declared(r, bound) =>
       /\ \E d \in ToSet(bound) : a = d.target /\ d.target \notin Ids(r) /\ t.byAlias[a] = AliasModel(r, d)
       /\ a \notin Families(selectFamilyWinners(r)) /\ a \notin DOMAIN QualifiedNames(r, bound)
  /\ \A q \in DOMAIN QualifiedNames(r, bound) :
       q \in DOMAIN t.byQualified /\ t.byQualified[q] = QualifiedNames(r, bound)[q]
  /\ \A q \in DOMAIN t.byQualified : q \notin DOMAIN QualifiedNames(r, bound) =>
       \E d \in ToSet(bound) :
         q = Qualified(d.provider, d.target) /\ d.target \notin Ids(r) /\ t.byQualified[q] = AliasModel(r, d)

LEMMA PutNewFacts ==
  ASSUME NEW m, NEW key, NEW value
  PROVE  /\ DOMAIN PutNew(m, key, value) = DOMAIN m \cup {key}
         /\ \A k \in DOMAIN m : PutNew(m, key, value)[k] = m[k]
         /\ key \notin DOMAIN m => PutNew(m, key, value)[key] = value
<1>1. CASE key \in DOMAIN m
  BY <1>1 DEF PutNew
<1>2. CASE key \notin DOMAIN m
  <2>1. PutNew(m, key, value) = Put(m, key, value)
    BY <1>2 DEF PutNew
  <2>2. \A k \in DOMAIN m : k # key
    BY <1>2
  <2>3. /\ DOMAIN Put(m, key, value) = DOMAIN m \cup {key} /\ Put(m, key, value)[key] = value
        /\ \A k \in DOMAIN m : k # key => Put(m, key, value)[k] = m[k]
    BY DEF Put
  <2>4. QED
    BY <1>2, <2>1, <2>2, <2>3
<1>3. QED
  BY <1>1, <1>2

LEMMA AuthorizeFits ==
  ASSUME NEW r, NEW bound, NEW t, AuthorizedFits(r, bound, t), NEW d \in ToSet(bound)
  PROVE  AuthorizedFits(r, bound, Authorize(r, t, d))
<1>1. CASE d.target \in Ids(r)
  BY <1>1 DEF Authorize
<1>2. CASE d.target \notin Ids(r)
  <2>1. PICK D, Q, F : /\ D = Declared(r, bound) /\ Q = QualifiedNames(r, bound)
                       /\ F = Families(selectFamilyWinners(r))
    OBVIOUS
  <2>2. /\ \A a \in DOMAIN D : a \in DOMAIN t.byAlias /\ t.byAlias[a] = D[a]
        /\ \A a \in DOMAIN t.byAlias : a \notin DOMAIN D =>
             /\ \E x \in ToSet(bound) : a = x.target /\ x.target \notin Ids(r) /\ t.byAlias[a] = AliasModel(r, x)
             /\ a \notin F /\ a \notin DOMAIN Q
        /\ \A q \in DOMAIN Q : q \in DOMAIN t.byQualified /\ t.byQualified[q] = Q[q]
        /\ \A q \in DOMAIN t.byQualified : q \notin DOMAIN Q =>
             \E x \in ToSet(bound) :
               q = Qualified(x.provider, x.target) /\ x.target \notin Ids(r) /\ t.byQualified[q] = AliasModel(r, x)
    BY <2>1 DEF AuthorizedFits
  <2>3. PICK model, T : model = AliasModel(r, d) /\ T = FamilyTable(selectFamilyWinners(r))
    OBVIOUS
  <2>4. DOMAIN T = F
    BY <2>1, <2>3, FamilyTableFacts
  <2>5. PICK A, P : /\ A = IF TargetIsFree(t.byAlias, T, t.byQualified, d.target)
                           THEN Put(t.byAlias, d.target, model) ELSE t.byAlias
                    /\ P = PutNew(t.byQualified, Qualified(d.provider, d.target), model)
    OBVIOUS
  <2>6. Authorize(r, t, d) = [byAlias |-> A, byQualified |-> P]
    BY <1>2, <2>3, <2>5 DEF Authorize
  <2>7. /\ \A a \in DOMAIN D : a \in DOMAIN A /\ A[a] = D[a]
        /\ \A a \in DOMAIN A : a \notin DOMAIN D =>
             /\ \E x \in ToSet(bound) : a = x.target /\ x.target \notin Ids(r) /\ A[a] = AliasModel(r, x)
             /\ a \notin F /\ a \notin DOMAIN Q
    <3>1. CASE ~TargetIsFree(t.byAlias, T, t.byQualified, d.target)
      BY <2>2, <2>5, <3>1
    <3>2. CASE TargetIsFree(t.byAlias, T, t.byQualified, d.target)
      <4>1. d.target \notin DOMAIN t.byAlias /\ d.target \notin F /\ d.target \notin DOMAIN t.byQualified
        BY <2>4, <3>2 DEF TargetIsFree
      <4>2. A = Put(t.byAlias, d.target, model)
        BY <2>5, <3>2
      <4>3. /\ DOMAIN A = DOMAIN t.byAlias \cup {d.target} /\ A[d.target] = model
            /\ \A k \in DOMAIN t.byAlias : A[k] = t.byAlias[k]
        <5>1. PICK m, n : m = t.byAlias /\ n = d.target
          OBVIOUS
        <5>2. /\ DOMAIN Put(m, n, model) = DOMAIN m \cup {n} /\ Put(m, n, model)[n] = model
              /\ \A k \in DOMAIN m : k # n => Put(m, n, model)[k] = m[k]
          BY DEF Put
        <5>3. A = Put(m, n, model) /\ n \notin DOMAIN m
          BY <4>1, <4>2, <5>1
        <5>4. QED
          BY <5>1, <5>2, <5>3
      <4>4. d.target \notin DOMAIN Q
        BY <2>2, <4>1
      <4>5. \A a \in DOMAIN D : a \in DOMAIN A /\ A[a] = D[a]
        BY <2>2, <4>3
      <4>6. ASSUME NEW a \in DOMAIN A, a \notin DOMAIN D
            PROVE  /\ \E x \in ToSet(bound) : a = x.target /\ x.target \notin Ids(r) /\ A[a] = AliasModel(r, x)
                   /\ a \notin F /\ a \notin DOMAIN Q
        <5>1. CASE a = d.target
          BY <1>2, <2>3, <4>1, <4>3, <4>4, <5>1
        <5>2. CASE a \in DOMAIN t.byAlias
          BY <2>2, <4>3, <4>6, <5>2
        <5>3. QED
          BY <4>3, <5>1, <5>2
      <4>7. QED
        BY <4>5, <4>6
    <3>3. QED
      BY <3>1, <3>2
  <2>8. /\ \A q \in DOMAIN Q : q \in DOMAIN P /\ P[q] = Q[q]
        /\ \A q \in DOMAIN P : q \notin DOMAIN Q =>
             \E x \in ToSet(bound) :
               q = Qualified(x.provider, x.target) /\ x.target \notin Ids(r) /\ P[q] = AliasModel(r, x)
    <3>1. PICK n : n = Qualified(d.provider, d.target)
      OBVIOUS
    <3>2. P = PutNew(t.byQualified, n, model)
      BY <2>5, <3>1
    <3>3. /\ DOMAIN P = DOMAIN t.byQualified \cup {n}
          /\ \A k \in DOMAIN t.byQualified : P[k] = t.byQualified[k]
          /\ n \notin DOMAIN t.byQualified => P[n] = model
      <4>1. PICK m : m = t.byQualified
        OBVIOUS
      <4>2. P = PutNew(m, n, model)
        BY <3>2, <4>1
      <4>3. /\ DOMAIN P = DOMAIN m \cup {n} /\ \A k \in DOMAIN m : P[k] = m[k]
            /\ n \notin DOMAIN m => P[n] = model
        <5>1. /\ DOMAIN PutNew(m, n, model) = DOMAIN m \cup {n}
              /\ \A k \in DOMAIN m : PutNew(m, n, model)[k] = m[k]
              /\ n \notin DOMAIN m => PutNew(m, n, model)[n] = model
          BY PutNewFacts
        <5>2. QED
          BY <4>2, <5>1
      <4>4. QED
        BY <4>1, <4>3
    <3>4. \A q \in DOMAIN Q : q \in DOMAIN P /\ P[q] = Q[q]
      BY <2>2, <3>3
    <3>5. ASSUME NEW q \in DOMAIN P, q \notin DOMAIN Q
          PROVE  \E x \in ToSet(bound) :
                   q = Qualified(x.provider, x.target) /\ x.target \notin Ids(r) /\ P[q] = AliasModel(r, x)
      <4>1. CASE q \in DOMAIN t.byQualified
        BY <2>2, <3>3, <3>5, <4>1
      <4>2. CASE q \notin DOMAIN t.byQualified
        <5>1. q = n
          BY <3>3, <4>2
        <5>2. P[q] = model
          BY <3>3, <4>2, <5>1
        <5>3. QED
          BY <1>2, <2>3, <3>1, <5>1, <5>2
      <4>3. QED
        BY <4>1, <4>2
    <3>6. QED
      BY <3>4, <3>5
  <2>9. QED
    <3>1. PICK u : u = Authorize(r, t, d)
      OBVIOUS
    <3>2. u.byAlias = A /\ u.byQualified = P
      BY <2>6, <3>1
    <3>3. AuthorizedFits(r, bound, u)
      BY <2>1, <2>7, <2>8, <3>2 DEF AuthorizedFits
    <3>4. QED
      BY <3>1, <3>3
<1>3. QED
  BY <1>1, <1>2

LEMMA AuthorizingFits ==
  ASSUME NEW r, NEW bound, BoundFits(bound)
  PROVE  AuthorizedFits(r, bound, Authorizing(r, bound)[Len(bound)])
<1>1. PICK base : base = [byAlias |-> Declared(r, bound), byQualified |-> QualifiedNames(r, bound)]
  OBVIOUS
<1> DEFINE N == Len(bound)
           Chain(f, n) == f = [k \in 0 .. n |-> IF k = 0 THEN base ELSE Authorize(r, f[k - 1], bound[k])]
           T == {n \in Nat : \E f : Chain(f, n)}
<1>2. N \in Nat /\ \A n \in 1 .. N : bound[n] \in ToSet(bound)
  BY BoundParts
<1>3. 0 \in T
  <2>1. Chain([k \in 0 .. 0 |-> base], 0)
    OBVIOUS
  <2>2. QED
    BY <2>1
<1>4. ASSUME NEW n \in Nat, n \in T PROVE n + 1 \in T
  <2>1. PICK f : Chain(f, n)
    BY <1>4
  <2> DEFINE g == [k \in 0 .. n + 1 |-> IF k = n + 1 THEN Authorize(r, f[n], bound[n + 1]) ELSE f[k]]
  <2>2. ASSUME NEW k \in 0 .. n + 1 PROVE g[k] = IF k = 0 THEN base ELSE Authorize(r, g[k - 1], bound[k])
    <3>1. CASE k = n + 1
      <4>1. k # 0 /\ k - 1 = n /\ n \in 0 .. n + 1 /\ n # n + 1
        BY <3>1
      <4>2. g[k - 1] = f[n] /\ g[k] = Authorize(r, f[n], bound[n + 1])
        BY <3>1, <4>1
      <4>3. QED
        BY <3>1, <4>1, <4>2
    <3>2. CASE k # n + 1
      <4>1. k \in 0 .. n /\ g[k] = f[k]
        BY <3>2
      <4>2. f[k] = IF k = 0 THEN base ELSE Authorize(r, f[k - 1], bound[k])
        BY <2>1, <4>1
      <4>3. CASE k = 0
        BY <4>1, <4>2, <4>3
      <4>4. CASE k # 0
        <5>1. k - 1 \in 0 .. n + 1 /\ k - 1 # n + 1
          BY <4>1, <4>4
        <5>2. g[k - 1] = f[k - 1]
          BY <5>1
        <5>3. QED
          BY <4>1, <4>2, <4>4, <5>2
      <4>5. QED
        BY <4>3, <4>4
    <3>3. QED
      BY <3>1, <3>2
  <2>3. g = [k \in 0 .. n + 1 |-> g[k]]
    OBVIOUS
  <2> HIDE DEF g
  <2>4. Chain(g, n + 1)
    BY <2>2, <2>3
  <2>5. QED
    BY <2>4
<1> HIDE DEF T
<1> HIDE DEF N
<1>5. \A n \in 0 .. N : n \in T
  <2>1. \A n \in 0 .. N - 1 : n \in T => n + 1 \in T
    BY <1>4
  <2>2. QED
    BY <1>2, <1>3, <2>1, UpTo
<1>6. PICK f : Chain(f, N)
  BY <1>2, <1>5 DEF T
<1>7. PICK g : g = Authorizing(r, bound) /\ Chain(g, N)
  BY <1>1, <1>6 DEF Authorizing, N
<1>8. \A n \in 0 .. N : g[n] = IF n = 0 THEN base ELSE Authorize(r, g[n - 1], bound[n])
  BY <1>7
<1>9. AuthorizedFits(r, bound, base)
  BY <1>1 DEF AuthorizedFits
<1> DEFINE U == {n \in 0 .. N : AuthorizedFits(r, bound, g[n])}
<1>10. 0 \in U
  BY <1>2, <1>8, <1>9
<1>11. ASSUME NEW n \in 0 .. N - 1, n \in U PROVE n + 1 \in U
  <2>1. n + 1 \in 0 .. N /\ n + 1 # 0 /\ (n + 1) - 1 = n /\ n + 1 \in 1 .. N
    BY <1>2
  <2>2. g[n + 1] = Authorize(r, g[n], bound[n + 1])
    BY <1>8, <2>1
  <2>3. AuthorizedFits(r, bound, g[n]) /\ bound[n + 1] \in ToSet(bound)
    BY <1>2, <1>11, <2>1
  <2>4. AuthorizedFits(r, bound, g[n + 1])
    BY <2>2, <2>3, AuthorizeFits
  <2>5. QED
    BY <2>1, <2>4
<1> HIDE DEF U
<1>12. \A n \in 0 .. N : n \in U
  BY <1>2, <1>10, <1>11, UpTo
<1>13. N \in U
  BY <1>2, <1>12
<1>14. QED
  BY <1>7, <1>13 DEF U, N

(***************************************************************************)
(* What a name means in a table.                                           *)
(***************************************************************************)
LEMMA TableParts ==
  ASSUME NEW r, RegistryFits(r), NEW bound, BoundFits(bound), NEW T, T = tableOf(r, bound)
  PROVE  /\ DOMAIN T.byId = Ids(r) /\ \A e \in ToSet(r) : T.byId[e.id] = e.provider
         /\ T.byFamily = FamilyTable(selectFamilyWinners(r))
         /\ AuthorizedFits(r, bound, T)
<1>1. PICK after : after = Authorizing(r, bound)[Len(bound)]
  OBVIOUS
<1>2. PICK F : F = FamilyTable(selectFamilyWinners(r))
  OBVIOUS
<1>3. PICK I : I = [id \in Ids(r) |-> EntryOf(r, id).provider]
  OBVIOUS
<1>4. T = [byId |-> I, byFamily |-> F, byAlias |-> after.byAlias, byQualified |-> after.byQualified]
  BY <1>1, <1>2, <1>3 DEF tableOf
<1>5. AuthorizedFits(r, bound, after)
  BY <1>1, AuthorizingFits
<1>6. DOMAIN I = Ids(r) /\ \A e \in ToSet(r) : I[e.id] = e.provider
  BY <1>3, EntryOfFacts
<1>7. T.byId = I /\ T.byFamily = F /\ T.byAlias = after.byAlias /\ T.byQualified = after.byQualified
  BY <1>4
<1>8. AuthorizedFits(r, bound, T)
  BY <1>5, <1>7 DEF AuthorizedFits
<1>9. QED
  BY <1>2, <1>6, <1>7, <1>8

LEMMA IdResolves ==
  ASSUME NEW r, RegistryFits(r), NEW bound, BoundFits(bound), NEW T, T = tableOf(r, bound), NEW e \in ToSet(r)
  PROVE  resolveModel(T, e.id) = Resolved(toResolvedModel(e))
<1>1. e.id \in DOMAIN T.byId /\ T.byId[e.id] = e.provider
  BY TableParts, EntryOfFacts
<1>2. PICK q : q = Qualified(e.provider, e.id)
  OBVIOUS
<1>3. q \in DOMAIN QualifiedNames(r, bound) /\ QualifiedNames(r, bound)[q] = toResolvedModel(e)
  BY <1>2, QualifiedNamesFacts
<1>4. T.byQualified[q] = toResolvedModel(e)
  BY <1>3, TableParts DEF AuthorizedFits
<1>5. QED
  BY <1>1, <1>2, <1>4 DEF resolveModel

LEMMA AliasResolves ==
  ASSUME NEW r, RegistryFits(r), NEW bound, BoundFits(bound), NEW T, T = tableOf(r, bound),
         NEW d \in ToSet(bound), d.alias \notin Ids(r)
  PROVE  resolveModel(T, d.alias) = Resolved(AliasModel(r, d))
<1>1. d.alias \notin DOMAIN T.byId
  BY TableParts
<1>2. d.alias \in DOMAIN Declared(r, bound) /\ Declared(r, bound)[d.alias] = AliasModel(r, d)
  BY DeclaredFacts DEF AliasesOf
<1>3. d.alias \in DOMAIN T.byAlias /\ T.byAlias[d.alias] = AliasModel(r, d)
  BY <1>2, TableParts DEF AuthorizedFits
<1>4. QED
  BY <1>1, <1>3 DEF resolveModel

LEMMA QualifiedResolves ==
  ASSUME NEW r, RegistryFits(r), NEW bound, BoundFits(bound), NEW T, T = tableOf(r, bound),
         NEW q \in DOMAIN QualifiedNames(r, bound), q \notin Ids(r), q \notin AliasesOf(bound),
         Len(q) > 1, Head(q) \in ToSet(Providers)
  PROVE  resolveModel(T, q) = Resolved(QualifiedNames(r, bound)[q])
<1>1. q \notin DOMAIN T.byId
  BY TableParts
<1>2. q \notin DOMAIN Declared(r, bound)
  BY DeclaredFacts
<1>3. q \notin DOMAIN T.byAlias /\ q \in DOMAIN T.byQualified /\ T.byQualified[q] = QualifiedNames(r, bound)[q]
  BY <1>2, TableParts DEF AuthorizedFits
<1>4. QED
  BY <1>1, <1>3 DEF resolveModel

LEMMA FamilyResolves ==
  ASSUME NEW r, RegistryFits(r), NEW bound, BoundFits(bound), NEW T, T = tableOf(r, bound),
         NEW f \in UniqueFamilies(selectFamilyWinners(r)), f \notin Ids(r), f \notin AliasesOf(bound)
  PROVE  resolveModel(T, f) = Resolved(toResolvedModel(flattenUniqueFamilies(selectFamilyWinners(r))[f]))
<1>1. PICK W : W = selectFamilyWinners(r)
  OBVIOUS
<1>2. f \in Families(W) /\ ~(Len(f) > 1)
  <2>1. f \in Families(W)
    BY <1>1 DEF UniqueFamilies
  <2>2. Len(f) = 1
    BY <1>1, <2>1, FamilyFacts
  <2>3. QED
    BY <2>1, <2>2
<1>3. f \notin DOMAIN T.byId
  BY TableParts
<1>4. f \notin DOMAIN Declared(r, bound)
  BY DeclaredFacts
<1>5. f \notin DOMAIN T.byAlias
  BY <1>1, <1>2, <1>4, TableParts DEF AuthorizedFits
<1>6. T.byFamily = FamilyTable(W)
  BY <1>1, TableParts
<1>7. /\ f \in DOMAIN T.byFamily /\ T.byFamily[f].kind = "unique"
      /\ T.byFamily[f].model = toResolvedModel(flattenUniqueFamilies(W)[f])
  BY <1>1, <1>2, <1>6, FamilyTableFacts
<1>8. QED
  BY <1>1, <1>2, <1>3, <1>5, <1>7 DEF resolveModel

LEMMA ResolvedOrigin ==
  ASSUME NEW r, RegistryFits(r), NEW bound, BoundFits(bound), NEW T, T = tableOf(r, bound),
         NEW name, resolveModel(T, name).kind = "resolved", name \notin Ids(r), name \notin AliasesOf(bound)
  PROVE  \/ \E d \in ToSet(bound) :
              /\ d.target \notin Ids(r) /\ resolveModel(T, name) = Resolved(AliasModel(r, d))
              /\ \/ name = d.target
                 \/ name = Qualified(d.provider, d.target) /\ Len(name) > 1 /\ Head(name) \in ToSet(Providers)
         \/ /\ name \in DOMAIN QualifiedNames(r, bound) /\ Len(name) > 1 /\ Head(name) \in ToSet(Providers)
            /\ resolveModel(T, name) = Resolved(QualifiedNames(r, bound)[name])
         \/ /\ name \in UniqueFamilies(selectFamilyWinners(r))
            /\ resolveModel(T, name)
                 = Resolved(toResolvedModel(flattenUniqueFamilies(selectFamilyWinners(r))[name]))
<1>1. name \notin DOMAIN T.byId
  BY TableParts
<1>2. name \notin DOMAIN Declared(r, bound)
  BY DeclaredFacts
<1>3. CASE name \in DOMAIN T.byAlias
  <2>1. resolveModel(T, name) = Resolved(T.byAlias[name])
    BY <1>1, <1>3 DEF resolveModel
  <2>2. PICK d \in ToSet(bound) : name = d.target /\ d.target \notin Ids(r) /\ T.byAlias[name] = AliasModel(r, d)
    BY <1>2, <1>3, TableParts DEF AuthorizedFits
  <2>3. QED
    BY <2>1, <2>2
<1>4. CASE name \notin DOMAIN T.byAlias /\ Len(name) > 1
  <2>1. /\ Head(name) \in ToSet(Providers) /\ name \in DOMAIN T.byQualified
        /\ resolveModel(T, name) = Resolved(T.byQualified[name])
    BY <1>1, <1>4 DEF resolveModel, Resolved
  <2>2. CASE name \in DOMAIN QualifiedNames(r, bound)
    <3>1. T.byQualified[name] = QualifiedNames(r, bound)[name]
      BY <2>2, TableParts DEF AuthorizedFits
    <3>2. QED
      BY <1>4, <2>1, <2>2, <3>1
  <2>3. CASE name \notin DOMAIN QualifiedNames(r, bound)
    <3>1. PICK d \in ToSet(bound) :
            name = Qualified(d.provider, d.target) /\ d.target \notin Ids(r) /\ T.byQualified[name] = AliasModel(r, d)
      BY <2>1, <2>3, TableParts DEF AuthorizedFits
    <3>2. QED
      BY <1>4, <2>1, <3>1
  <2>4. QED
    BY <2>2, <2>3
<1>5. CASE name \notin DOMAIN T.byAlias /\ ~(Len(name) > 1)
  <2>1. PICK W : W = selectFamilyWinners(r)
    OBVIOUS
  <2>2. /\ name \in DOMAIN T.byFamily /\ T.byFamily[name].kind = "unique"
        /\ resolveModel(T, name) = Resolved(T.byFamily[name].model)
    BY <1>1, <1>5 DEF resolveModel, Resolved
  <2>3. T.byFamily = FamilyTable(W)
    BY <2>1, TableParts
  <2>4. name \in Families(W)
    BY <2>2, <2>3, FamilyTableFacts
  <2>5. name \in UniqueFamilies(W)
    BY <2>2, <2>3, <2>4, FamilyTableFacts
  <2>6. T.byFamily[name].model = toResolvedModel(flattenUniqueFamilies(W)[name])
    BY <2>3, <2>4, <2>5, FamilyTableFacts
  <2>7. QED
    BY <2>1, <2>2, <2>5, <2>6
<1>6. QED
  BY <1>3, <1>4, <1>5

LEMMA ResolutionKinds ==
  ASSUME NEW T, NEW name
  PROVE  resolveModel(T, name).kind \in {"resolved", "unknown_qualifier", "unresolved", "ambiguous"}
BY DEF resolveModel, Resolved

LEMMA AliasMeans ==
  ASSUME NEW bound, NEW a \in AliasesOf(bound)
  PROVE  \E d \in ToSet(bound) : d.alias = a
BY DEF AliasesOf

LEMMA QualifiedProvider ==
  ASSUME NEW r, RegistryFits(r), NEW bound, BoundFits(bound), NEW q \in DOMAIN QualifiedNames(r, bound)
  PROVE  Resolved(QualifiedNames(r, bound)[q]).target.provider \in ToSet(Providers)
<1>1. PICK W : W = selectFamilyWinners(r)
  OBVIOUS
<1>2. PICK Q : Q = QualifiedNames(r, bound)
  OBVIOUS
<1>3. \A model : Resolved(model).target = model
  BY DEF Resolved
<1>4. \A e \in ToSet(r) : toResolvedModel(e).provider \in ToSet(Providers)
  BY EntryParts DEF toResolvedModel
<1>5. \A d \in ToSet(bound) : AliasModel(r, d).provider \in ToSet(Providers)
  BY AliasModelFacts DEF Target
<1>6. ASSUME NEW d \in ToSet(bound), d.alias \notin Ids(r), q = Qualified(d.provider, d.alias)
      PROVE  Q[q].provider \in ToSet(Providers)
  <2>1. Q[q] = AliasModel(r, d)
    BY <1>1, <1>2, <1>6, QualifiedNamesFacts
  <2>2. QED
    BY <1>5, <2>1
<1>7. ASSUME NEW e \in ToSet(r), q = Qualified(e.provider, e.id)
      PROVE  Q[q].provider \in ToSet(Providers)
  <2>1. Q[q] = toResolvedModel(e)
    BY <1>1, <1>2, <1>7, QualifiedNamesFacts
  <2>2. QED
    BY <1>4, <2>1
<1>8. ASSUME NEW key \in DOMAIN W, q = Qualified(key[1], key[2])
      PROVE  Q[q].provider \in ToSet(Providers)
  <2>1. W[key] \in ToSet(r)
    BY <1>1, WinnerFacts
  <2>2. CASE Q[q] = toResolvedModel(W[key])
    BY <1>4, <2>1, <2>2
  <2>3. CASE \E d \in ToSet(bound) : d.alias = key[2] /\ d.provider = key[1] /\ d.alias \notin Ids(r)
    BY <1>6, <1>8, <2>3
  <2>4. QED
    BY <1>1, <1>2, <1>8, <2>2, <2>3, QualifiedNamesFacts
<1>9. QED
  BY <1>1, <1>2, <1>3, <1>6, <1>7, <1>8, QualifiedNamesFacts

(* A name that resolves is no reserved one, and a provider answers it.     *)
LEMMA ResolvedTyped ==
  ASSUME NEW r, RegistryFits(r), NEW bound, BoundFits(bound), NEW T, T = tableOf(r, bound),
         NEW name \in Seq(Words), name # <<>>, resolveModel(T, name).kind = "resolved"
  PROVE  ~isReservedAnthropicName(name) /\ resolveModel(T, name).target.provider \in ToSet(Providers)
<1> DEFINE Goal == ~isReservedAnthropicName(name) /\ resolveModel(T, name).target.provider \in ToSet(Providers)
<1>1. \A e \in ToSet(r) : Resolved(toResolvedModel(e)).target.provider \in ToSet(Providers)
  BY EntryParts DEF Resolved, toResolvedModel
<1>2. \A d \in ToSet(bound) :
        /\ Resolved(AliasModel(r, d)).target.provider \in ToSet(Providers)
        /\ ~isReservedAnthropicName(d.alias) /\ ~isReservedAnthropicName(d.target)
  BY AliasModelFacts DEF Resolved, Target, BoundFits
<1>3. Len(name) > 1 /\ Head(name) \in ToSet(Providers) => ~isReservedAnthropicName(name)
  <2>1. Len(name) > 1 => Len(name) # 1
    <3>1. Len(name) \in Nat
      BY LenProperties
    <3>2. QED
      BY <3>1
  <2>2. Head(name) \in ToSet(Providers) => Head(name) \notin ReservedPrefixes
    BY ProvidersAreWords
  <2>3. QED
    BY <2>1, <2>2 DEF isReservedAnthropicName
<1>4. CASE name \in Ids(r)
  <2>1. PICK e \in ToSet(r) : e.id = name
    BY <1>4, EntryOfFacts
  <2>2. resolveModel(T, name) = Resolved(toResolvedModel(e))
    BY <2>1, IdResolves
  <2>3. QED
    BY <1>1, <2>1, <2>2, EntryParts
<1>5. CASE name \notin Ids(r) /\ name \in AliasesOf(bound)
  <2>1. PICK d \in ToSet(bound) : d.alias = name
    BY <1>5, AliasMeans
  <2>2. resolveModel(T, name) = Resolved(AliasModel(r, d))
    BY <1>5, <2>1, AliasResolves
  <2>3. QED
    BY <1>2, <2>1, <2>2
<1>6. CASE name \notin Ids(r) /\ name \notin AliasesOf(bound)
  <2>1. PICK W : W = selectFamilyWinners(r)
    OBVIOUS
  <2>2. ASSUME NEW d \in ToSet(bound), resolveModel(T, name) = Resolved(AliasModel(r, d)),
               \/ name = d.target
               \/ Len(name) > 1 /\ Head(name) \in ToSet(Providers)
        PROVE  Goal
    BY <1>2, <1>3, <2>2
  <2>3. ASSUME name \in DOMAIN QualifiedNames(r, bound), Len(name) > 1, Head(name) \in ToSet(Providers),
               resolveModel(T, name) = Resolved(QualifiedNames(r, bound)[name])
        PROVE  Goal
    <3>1. Resolved(QualifiedNames(r, bound)[name]).target.provider \in ToSet(Providers)
      BY <2>3, QualifiedProvider
    <3>2. QED
      BY <1>3, <2>3, <3>1
  <2>4. ASSUME name \in UniqueFamilies(W),
               resolveModel(T, name) = Resolved(toResolvedModel(flattenUniqueFamilies(W)[name]))
        PROVE  Goal
    <3>1. name \in Families(W) /\ flattenUniqueFamilies(W)[name] \in ToSet(r)
      BY <2>1, <2>4, UniqueFacts
    <3>2. QED
      BY <1>1, <2>1, <2>4, <3>1, FamilyFacts
  <2>5. QED
    BY <1>6, <2>1, <2>2, <2>3, <2>4, ResolvedOrigin
<1>7. QED
  BY <1>4, <1>5, <1>6

(***************************************************************************)
(* The invariant: a served table and a map of names are those of the       *)
(* registry and the configuration, both of which make sense.               *)
(***************************************************************************)
AliasMaps == [ToSet(Providers) -> Seq(Pairs(Seq(Words), Seq(Words)))]

ClaudeAliasesFit(r, pairs) ==
  /\ pairs \in Seq(Pairs(ClaudeAliasNames, ClaudeTargets))
  /\ \A i, j \in DOMAIN pairs : pairs[i].alias = pairs[j].alias => i = j
  /\ \A pair \in ToSet(pairs) : validClaudeAlias(r, pair)

NamesIInv ==
  /\ RegistryFits(registry)
  /\ aliases \in AliasMaps
  /\ ClaudeAliasesFit(registry, claudeAliases)
  /\ table = tableOf(registry, Bound(aliases))
  /\ names = claudeResolver(registry, claudeAliases)

LEMMA PinnedNames == NamesIInv => NamesArePinned
<1> SUFFICES ASSUME NamesIInv PROVE NamesArePinned
  OBVIOUS
<1>1. PICK r, bound, T, W : r = registry /\ bound = Bound(aliases) /\ T = table /\ W = selectFamilyWinners(r)
  OBVIOUS
<1>2. RegistryFits(r) /\ BoundFits(bound) /\ T = tableOf(r, bound)
  BY <1>1, BoundFitsAlways DEF NamesIInv, AliasMaps
<1>3. AliasesInUse = AliasesOf(bound)
  BY <1>1 DEF AliasesInUse, AliasesOf
<1>4. ASSUME NEW e \in ToSet(r)
      PROVE  /\ resolveModel(T, e.id) = Resolved(toResolvedModel(e))
             /\ \/ resolveModel(T, Qualified(e.provider, e.id)) = Resolved(toResolvedModel(e))
                \/ Qualified(e.provider, e.id) \in AliasesOf(bound)
  <2>1. resolveModel(T, e.id) = Resolved(toResolvedModel(e))
    BY <1>2, IdResolves
  <2>2. PICK q : q = Qualified(e.provider, e.id)
    OBVIOUS
  <2>3. q \in DOMAIN QualifiedNames(r, bound) /\ QualifiedNames(r, bound)[q] = toResolvedModel(e)
    BY <1>1, <1>2, <2>2, QualifiedNamesFacts
  <2>4. q \notin Ids(r)
    BY <1>2, <2>2, EntryParts, EntryOfFacts
  <2>5. e.id \in Seq(Words) /\ e.id # <<>> /\ e.provider \in ToSet(Providers)
    BY <1>2, EntryParts
  <2>6. Len(q) > 1 /\ Head(q) \in ToSet(Providers)
    <3>1. Len(q) = Len(e.id) + 1 /\ Head(q) = e.provider
      BY <2>2, <2>5, QualifiedFacts, ProvidersAreWords
    <3>2. Len(e.id) \in Nat /\ Len(e.id) # 0
      BY <2>5
    <3>3. QED
      BY <2>5, <3>1, <3>2
  <2>7. q \notin AliasesOf(bound) => resolveModel(T, q) = Resolved(toResolvedModel(e))
    BY <1>2, <2>3, <2>4, <2>6, QualifiedResolves
  <2>8. QED
    BY <2>1, <2>2, <2>7
<1>5. ASSUME NEW key \in DOMAIN W
      PROVE  \/ resolveModel(T, Qualified(key[1], key[2])) = Resolved(toResolvedModel(W[key]))
             \/ \E d \in ToSet(bound) :
                  d.alias = Qualified(key[1], key[2]) \/ (d.alias = key[2] /\ d.provider = key[1])
  <2>1. PICK q : q = Qualified(key[1], key[2])
    OBVIOUS
  <2>2. SUFFICES ASSUME \A d \in ToSet(bound) : d.alias # q /\ ~(d.alias = key[2] /\ d.provider = key[1])
                 PROVE  resolveModel(T, q) = Resolved(toResolvedModel(W[key]))
    BY <2>1
  <2>3. q \in DOMAIN QualifiedNames(r, bound) /\ QualifiedNames(r, bound)[q] = toResolvedModel(W[key])
    BY <1>1, <1>2, <2>1, <2>2, QualifiedNamesFacts
  <2>4. PICK w \in ToSet(r) : w = W[key] /\ Competes(w) /\ key[1] = w.provider /\ key[2] = w.family
    BY <1>1, <1>2, WinnerFacts
  <2>5. w.family \in Seq(Words) /\ Len(w.family) = 1 /\ w.provider \in ToSet(Providers)
    BY <1>2, <2>4, EntryParts DEF Competes
  <2>6. q \notin Ids(r)
    <3>1. \A f \in ToSet(r) : Qualified(w.provider, w.family) # f.id
      BY <1>2, EntryParts
    <3>2. QED
      BY <1>2, <2>1, <2>4, <3>1, EntryOfFacts
  <2>7. Len(q) > 1 /\ Head(q) \in ToSet(Providers)
    <3>1. w.provider \in Words
      BY <2>5, ProvidersAreWords
    <3>2. q = Qualified(w.provider, w.family)
      BY <2>1, <2>4
    <3>3. Len(q) = Len(w.family) + 1 /\ Head(q) = w.provider
      BY <2>5, <3>1, <3>2, QualifiedFacts
    <3>4. QED
      BY <2>5, <3>3
  <2>8. q \notin AliasesOf(bound)
    BY <2>2 DEF AliasesOf
  <2>9. QED
    BY <1>2, <2>3, <2>6, <2>7, <2>8, QualifiedResolves
<1>6. QED
  BY <1>1, <1>3, <1>4, <1>5 DEF NamesArePinned, Resolves

(***************************************************************************)
(* What is shown.                                                          *)
(***************************************************************************)
LEMMA ImageFinite ==
  ASSUME NEW S, IsFiniteSet(S), NEW f, DOMAIN f = S
  PROVE  IsFiniteSet({f[x] : x \in S})
<1>1. PICK T : T = {f[x] : x \in S}
  OBVIOUS
<1>2. DOMAIN f = S /\ \A y \in T : \E x \in S : f[x] = y
  BY <1>1
<1>3. PICK g : g = [x \in S |-> f[x]]
  OBVIOUS
<1>4. g \in [S -> T] /\ \A y \in T : \E x \in S : g[x] = y
  BY <1>1, <1>2, <1>3
<1>5. g \in Surjection(S, T)
  BY <1>4 DEF Surjection
<1>6. QED
  BY <1>1, <1>5, FS_Surjection

LEMMA SequenceFinite ==
  ASSUME NEW S, NEW s \in Seq(S)
  PROVE  IsFiniteSet(ToSet(s))
<1>1. DOMAIN s = 1 .. Len(s) /\ Len(s) \in Nat
  OBVIOUS
<1>2. IsFiniteSet(1 .. Len(s))
  BY <1>1, FS_Interval
<1>3. IsFiniteSet({s[n] : n \in 1 .. Len(s)})
  BY <1>1, <1>2, ImageFinite
<1>4. QED
  BY <1>1, <1>3 DEF ToSet

(* As many names as rows, where no two rows have the same.                 *)
LEMMA SameSize ==
  ASSUME NEW S, NEW A, IsFiniteSet(A), \A row \in S : row.alias \in A,
         \A row, other \in S : row.alias = other.alias => row = other
  PROVE  Cardinality({row.alias : row \in S}) = Cardinality(S)
<1>1. PICK T : T = {row.alias : row \in S}
  OBVIOUS
<1>2. T \in SUBSET A /\ \A row \in S : row.alias \in T
  BY <1>1
<1>3. IsFiniteSet(T)
  BY <1>2, FS_Subset
<1>4. PICK f : f = [row \in S |-> row.alias]
  OBVIOUS
<1>5. /\ f \in [S -> T] /\ \A row, other \in S : f[row] = f[other] => row = other
      /\ \A a \in T : \E row \in S : f[row] = a
  BY <1>1, <1>2, <1>4
<1>6. f \in Injection(S, T)
  BY <1>5, Fun_IsInj
<1>7. f \in Surjection(S, T)
  BY <1>5, Fun_IsSurj
<1>8. QED
  BY <1>1, <1>3, <1>6, <1>7, FS_Injection

NamedRows(r, bound) == ConfigRows(r, bound) \cup DerivedRows(r, bound)

ConfigRow(r, row, d) ==
  /\ row.alias = d.alias /\ row.canonical = d.target /\ row.provider = AliasModel(r, d).provider
  /\ row.source = "config" /\ row.enabled = (d.target \in Ids(r) => ~EntryOf(r, d.target).retired)
DerivedRow(row, f, e) ==
  /\ row.alias = f /\ row.canonical = e.id /\ row.provider = e.provider
  /\ row.source = "derived" /\ row.enabled = TRUE

LEMMA RowFields ==
  ASSUME NEW a, NEW m, NEW e, NEW s
  PROVE  /\ Row(a, m, e, s).alias = a /\ Row(a, m, e, s).canonical = m.id /\ Row(a, m, e, s).provider = m.provider
         /\ Row(a, m, e, s).enabled = e /\ Row(a, m, e, s).source = s
BY DEF Row

LEMMA ConfigRowsFacts ==
  ASSUME NEW r, RegistryFits(r), NEW bound, BoundFits(bound)
  PROVE  /\ \A row \in ConfigRows(r, bound) : \E d \in ToSet(bound) : ConfigRow(r, row, d)
         /\ \A d \in ToSet(bound) : \E row \in ConfigRows(r, bound) : ConfigRow(r, row, d)
         /\ \A row, other \in ConfigRows(r, bound) : row.alias = other.alias => row = other
<1> DEFINE R(d) == Row(d.alias, AliasModel(r, d), d.target \in Ids(r) => ~EntryOf(r, d.target).retired, "config")
<1>1. ConfigRows(r, bound) = {R(d) : d \in ToSet(bound)}
  BY DEF ConfigRows
<1>2. ASSUME NEW d \in ToSet(bound) PROVE ConfigRow(r, R(d), d)
  <2>1. AliasModel(r, d).id = d.target
    BY AliasModelFacts
  <2>2. PICK en : en = (d.target \in Ids(r) => ~EntryOf(r, d.target).retired)
    OBVIOUS
  <2>3. PICK row : row = R(d)
    OBVIOUS
  <2>4. row = Row(d.alias, AliasModel(r, d), en, "config")
    BY <2>2, <2>3
  <2>5. /\ row.alias = d.alias /\ row.canonical = d.target /\ row.provider = AliasModel(r, d).provider
        /\ row.enabled = en /\ row.source = "config"
    BY <2>1, <2>4, RowFields
  <2>6. ConfigRow(r, row, d)
    BY <2>2, <2>5 DEF ConfigRow
  <2>7. QED
    BY <2>3, <2>6
<1> HIDE DEF R
<1>3. \A row \in ConfigRows(r, bound) : \E d \in ToSet(bound) : row = R(d) /\ ConfigRow(r, row, d)
  BY <1>1, <1>2
<1>4. \A row, other \in ConfigRows(r, bound) : row.alias = other.alias => row = other
  <2>1. ASSUME NEW row \in ConfigRows(r, bound), NEW other \in ConfigRows(r, bound), row.alias = other.alias
        PROVE  row = other
    <3>1. PICK d \in ToSet(bound) : row = R(d) /\ row.alias = d.alias
      BY <1>3 DEF ConfigRow
    <3>2. PICK e \in ToSet(bound) : other = R(e) /\ other.alias = e.alias
      BY <1>3 DEF ConfigRow
    <3>3. d = e
      BY <2>1, <3>1, <3>2, BoundParts
    <3>4. QED
      BY <3>1, <3>2, <3>3
  <2>2. QED
    BY <2>1
<1>5. \A d \in ToSet(bound) : \E row \in ConfigRows(r, bound) : ConfigRow(r, row, d)
  BY <1>1, <1>2
<1>6. QED
  BY <1>3, <1>4, <1>5

LEMMA DerivedRowsFacts ==
  ASSUME NEW r, RegistryFits(r), NEW bound, NEW winner, winner = flattenUniqueFamilies(selectFamilyWinners(r)),
         NEW U, U = UniqueFamilies(selectFamilyWinners(r))
  PROVE  /\ \A row \in DerivedRows(r, bound) : \E f \in U :
              f \notin AliasesOf(bound) /\ DerivedRow(row, f, winner[f])
         /\ \A f \in U : f \notin AliasesOf(bound) =>
              \E row \in DerivedRows(r, bound) : DerivedRow(row, f, winner[f])
         /\ \A row, other \in DerivedRows(r, bound) : row.alias = other.alias => row = other
<1> DEFINE R(f) == Row(f, toResolvedModel(winner[f]), TRUE, "derived")
<1>1. DOMAIN winner = U
  BY DEF flattenUniqueFamilies
<1>2. DerivedRows(r, bound) = {R(f) : f \in U \ AliasesOf(bound)}
  BY <1>1 DEF DerivedRows, AliasesOf
<1>3. ASSUME NEW f \in U PROVE DerivedRow(R(f), f, winner[f])
  <2>1. PICK m, e : e = winner[f] /\ m = toResolvedModel(e)
    OBVIOUS
  <2>2. m.id = e.id /\ m.provider = e.provider
    BY <2>1 DEF toResolvedModel
  <2>3. PICK row : row = R(f)
    OBVIOUS
  <2>4. row = Row(f, m, TRUE, "derived")
    BY <2>1, <2>3
  <2>5. /\ row.alias = f /\ row.canonical = e.id /\ row.provider = e.provider
        /\ row.enabled = TRUE /\ row.source = "derived"
    BY <2>2, <2>4 DEF Row
  <2>6. DerivedRow(row, f, e)
    BY <2>5 DEF DerivedRow
  <2>7. QED
    BY <2>1, <2>3, <2>6
<1> HIDE DEF R
<1>4. \A row \in DerivedRows(r, bound) : \E f \in U : f \notin AliasesOf(bound) /\ row = R(f)
  BY <1>2
<1>5. \A f \in U : f \notin AliasesOf(bound) => R(f) \in DerivedRows(r, bound)
  BY <1>2
<1>6. \A f \in U : R(f).alias = f
  BY <1>3 DEF DerivedRow
<1>7. QED
  BY <1>3, <1>4, <1>5, <1>6

LEMMA NamedRowsFacts ==
  ASSUME NEW r, RegistryFits(r), NEW bound, BoundFits(bound),
         NEW winner, winner = flattenUniqueFamilies(selectFamilyWinners(r)),
         NEW U, U = UniqueFamilies(selectFamilyWinners(r)),
         NEW named, named = NamedRows(r, bound)
  PROVE  /\ \A row \in named :
              \/ \E d \in ToSet(bound) : ConfigRow(r, row, d)
              \/ \E f \in U : f \notin AliasesOf(bound) /\ DerivedRow(row, f, winner[f])
         /\ \A d \in ToSet(bound) : \E row \in named : ConfigRow(r, row, d)
         /\ \A f \in U : f \notin AliasesOf(bound) => \E row \in named : DerivedRow(row, f, winner[f])
         /\ \A row, other \in named : row.alias = other.alias => row = other
         /\ Cardinality({row.alias : row \in named}) = Cardinality(named)
<1>1. PICK C, D : C = ConfigRows(r, bound) /\ D = DerivedRows(r, bound)
  OBVIOUS
<1>2. named = C \cup D
  BY <1>1 DEF NamedRows
<1>3. /\ \A row \in C : \E d \in ToSet(bound) : ConfigRow(r, row, d)
      /\ \A d \in ToSet(bound) : \E row \in C : ConfigRow(r, row, d)
      /\ \A row, other \in C : row.alias = other.alias => row = other
  BY <1>1, ConfigRowsFacts
<1>4. /\ \A row \in D : \E f \in U : f \notin AliasesOf(bound) /\ DerivedRow(row, f, winner[f])
      /\ \A f \in U : f \notin AliasesOf(bound) => \E row \in D : DerivedRow(row, f, winner[f])
      /\ \A row, other \in D : row.alias = other.alias => row = other
  BY <1>1, DerivedRowsFacts
<1>5. \A row \in C : row.alias \in AliasesOf(bound)
  BY <1>3 DEF ConfigRow, AliasesOf
<1>6. \A row \in D : row.alias \notin AliasesOf(bound) /\ row.alias \in U
  BY <1>4 DEF DerivedRow
<1>7. \A row, other \in named : row.alias = other.alias => row = other
  <2>1. SUFFICES ASSUME NEW row \in named, NEW other \in named, row.alias = other.alias PROVE row = other
    OBVIOUS
  <2>2. (row \in C /\ other \in C) \/ (row \in D /\ other \in D)
    BY <1>2, <1>5, <1>6, <2>1
  <2>3. QED
    BY <1>3, <1>4, <2>1, <2>2
<1>8. IsFiniteSet(AliasesOf(bound) \cup U)
  <2>1. IsFiniteSet(AliasesOf(bound))
    <3>1. PICK S : S = ToSet(bound)
      OBVIOUS
    <3>2. IsFiniteSet(S)
      BY <3>1, SequenceFinite DEF BoundFits
    <3>3. PICK h : h = [d \in S |-> d.alias]
      OBVIOUS
    <3>4. DOMAIN h = S /\ {h[d] : d \in S} = {d.alias : d \in S}
      BY <3>3
    <3>5. IsFiniteSet({h[d] : d \in S})
      BY <3>2, <3>4, ImageFinite
    <3>6. QED
      BY <3>1, <3>4, <3>5 DEF AliasesOf
  <2>2. IsFiniteSet(U)
    <3>1. PICK S : S = ToSet(r)
      OBVIOUS
    <3>2. IsFiniteSet(S)
      BY <3>1, SequenceFinite DEF RegistryFits
    <3>3. PICK h : h = [e \in S |-> e.family]
      OBVIOUS
    <3>4. DOMAIN h = S /\ \A e \in S : e.family \in {h[x] : x \in S}
      BY <3>3
    <3>5. IsFiniteSet({h[x] : x \in S})
      BY <3>2, <3>4, ImageFinite
    <3>6. U \in SUBSET {h[x] : x \in S}
      <4>1. ASSUME NEW f \in U PROVE f \in {h[x] : x \in S}
        <5>1. PICK key \in DOMAIN selectFamilyWinners(r) : f = key[2]
          BY <4>1 DEF UniqueFamilies, Families
        <5>2. PICK e \in S : key[2] = e.family
          BY <3>1, <5>1, WinnerFacts
        <5>3. QED
          BY <3>4, <5>1, <5>2
      <4>2. QED
        BY <4>1
    <3>7. QED
      BY <3>5, <3>6, FS_Subset
  <2>3. QED
    BY <2>1, <2>2, FS_Union
<1>9. Cardinality({row.alias : row \in named}) = Cardinality(named)
  <2>1. \A row \in named : row.alias \in AliasesOf(bound) \cup U
    BY <1>2, <1>5, <1>6
  <2>2. QED
    BY <1>7, <1>8, <2>1, SameSize
<1>10. QED
  BY <1>2, <1>3, <1>4, <1>7, <1>9

LEMMA FindingFacts ==
  ASSUME NEW r, NEW T, NEW name, ~isReservedAnthropicName(name)
  PROVE  /\ resolveModel(T, name).kind # "resolved" =>
              checkAgentModels(r, T, ToSet(Providers), name) = resolveModel(T, name).kind
         /\ resolveModel(T, name).kind = "resolved" /\ resolveModel(T, name).target.provider \in ToSet(Providers) =>
              checkAgentModels(r, T, ToSet(Providers), name) \in {"none", "retired", "preview_only"}
<1>1. PICK resolution : resolution = resolveModel(T, name)
  OBVIOUS
<1>2. PICK configured : configured = ToSet(Providers)
  OBVIOUS
<1>3. resolution.kind # "resolved" => checkAgentModels(r, T, configured, name) = resolution.kind
  BY <1>1 DEF checkAgentModels
<1>4. ASSUME resolution.kind = "resolved", resolution.target.provider \in configured
      PROVE  checkAgentModels(r, T, configured, name) \in {"none", "retired", "preview_only"}
  BY <1>1, <1>4 DEF checkAgentModels
<1>5. QED
  BY <1>1, <1>2, <1>3, <1>4

LEMMA ShownRows ==
  ASSUME NEW r, RegistryFits(r), NEW a, NEW bound, bound = Bound(a),
         NEW named, named = NamedRows(r, bound), \A row \in named : row.source # "direct",
         NEW rows, rows = buildAliasRows(r, a), NEW models, models = buildModelRows(r, a)
  PROVE  /\ named \subseteq rows /\ {row \in rows : row.source # "direct"} = named
         /\ \A row \in rows : \/ row \in named
                              \/ /\ row.source = "direct" /\ row.alias = NoFamily
                                 /\ \E e \in ToSet(r) : row.canonical = e.id /\ row.provider = e.provider
         /\ DOMAIN models = Ids(r)
         /\ \A id \in Ids(r) : models[id].routable = ~EntryOf(r, id).retired
         /\ \A id \in Ids(r) : \A x \in models[id].aliases : \E row \in named : row.alias = x /\ row.canonical = id
<1> DEFINE covered == {row.canonical : row \in named}
           left == {x \in ToSet(r) : ~x.retired /\ x.id \notin covered}
           R(e) == Row(NoFamily, toResolvedModel(e), TRUE, "direct")
<1>1. rows = named \cup {R(e) : e \in left}
  BY DEF buildAliasRows, NamedRows
<1>2. ASSUME NEW e PROVE R(e).source = "direct" /\ R(e).alias = NoFamily /\ R(e).canonical = e.id /\ R(e).provider = e.provider
  BY DEF Row, toResolvedModel
<1>3. \A e \in left : e \in ToSet(r)
  OBVIOUS
<1> HIDE DEF left, R
<1>4. /\ named \subseteq rows /\ {row \in rows : row.source # "direct"} = named
      /\ \A row \in rows : \/ row \in named
                           \/ /\ row.source = "direct" /\ row.alias = NoFamily
                              /\ \E e \in ToSet(r) : row.canonical = e.id /\ row.provider = e.provider
  BY <1>1, <1>2, <1>3
<1> DEFINE M(id) == [provider |-> EntryOf(r, id).provider, routable |-> ~EntryOf(r, id).retired,
                     aliases |-> {row.alias : row \in {x \in named : x.canonical = id}}]
<1>5. models = [id \in Ids(r) |-> M(id)]
  BY DEF buildModelRows, NamedRows
<1>6. ASSUME NEW id
      PROVE  /\ M(id).routable = ~EntryOf(r, id).retired
             /\ \A x \in M(id).aliases : \E row \in named : row.alias = x /\ row.canonical = id
  OBVIOUS
<1> HIDE DEF M
<1>7. DOMAIN models = Ids(r) /\ \A id \in Ids(r) : models[id] = M(id)
  BY <1>5
<1>8. QED
  BY <1>4, <1>6, <1>7

LEMMA ShownNames == NamesIInv => ShownIsRouted
<1> SUFFICES ASSUME NamesIInv PROVE ShownIsRouted
  OBVIOUS
<1>1. PICK r, a, bound, T, W : r = registry /\ a = aliases /\ bound = Bound(a) /\ T = table /\ W = selectFamilyWinners(r)
  OBVIOUS
<1>2. RegistryFits(r) /\ BoundFits(bound) /\ T = tableOf(r, bound)
  BY <1>1, BoundFitsAlways DEF NamesIInv, AliasMaps
<1>3. PICK winner, U, named : winner = flattenUniqueFamilies(W) /\ U = UniqueFamilies(W) /\ named = NamedRows(r, bound)
  OBVIOUS
<1>4. PICK rows, models : rows = buildAliasRows(r, a) /\ models = buildModelRows(r, a)
  OBVIOUS
<1>5. /\ \A row \in named :
           \/ \E d \in ToSet(bound) : ConfigRow(r, row, d)
           \/ \E f \in U : f \notin AliasesOf(bound) /\ DerivedRow(row, f, winner[f])
      /\ \A d \in ToSet(bound) : \E row \in named : ConfigRow(r, row, d)
      /\ \A f \in U : f \notin AliasesOf(bound) => \E row \in named : DerivedRow(row, f, winner[f])
      /\ Cardinality({row.alias : row \in named}) = Cardinality(named)
  BY <1>1, <1>2, <1>3, NamedRowsFacts
<1>6. \A row \in named : row.source # "direct"
  BY <1>5 DEF ConfigRow, DerivedRow
<1>7. /\ named \subseteq rows /\ {row \in rows : row.source # "direct"} = named
      /\ \A row \in rows : \/ row \in named
                           \/ /\ row.source = "direct" /\ row.alias = NoFamily
                              /\ \E e \in ToSet(r) : row.canonical = e.id /\ row.provider = e.provider
      /\ DOMAIN models = Ids(r)
      /\ \A id \in Ids(r) : models[id].routable = ~EntryOf(r, id).retired
      /\ \A id \in Ids(r) : \A x \in models[id].aliases : \E row \in named : row.alias = x /\ row.canonical = id
  BY <1>1, <1>2, <1>3, <1>4, <1>6, ShownRows
<1>8. \A f \in U : winner[f] \in ToSet(r) /\ Competes(winner[f])
  BY <1>1, <1>2, <1>3, UniqueFacts
<1>9. ASSUME NEW row \in rows
      PROVE  \/ row.source = "direct" /\ resolveModel(T, row.canonical) = Resolved([id |-> row.canonical, provider |-> row.provider])
             \/ row.alias \in Ids(r)
             \/ resolveModel(T, row.alias) = Resolved([id |-> row.canonical, provider |-> row.provider])
  <2>1. ASSUME row.source = "direct", NEW e \in ToSet(r), row.canonical = e.id, row.provider = e.provider
        PROVE  resolveModel(T, row.canonical) = Resolved([id |-> row.canonical, provider |-> row.provider])
    <3>1. resolveModel(T, e.id) = Resolved(toResolvedModel(e))
      BY <1>2, IdResolves
    <3>2. QED
      BY <2>1, <3>1 DEF toResolvedModel
  <2>2. ASSUME NEW d \in ToSet(bound), ConfigRow(r, row, d), row.alias \notin Ids(r)
        PROVE  resolveModel(T, row.alias) = Resolved([id |-> row.canonical, provider |-> row.provider])
    <3>1. row.alias = d.alias /\ row.canonical = d.target /\ row.provider = AliasModel(r, d).provider
      BY <2>2 DEF ConfigRow
    <3>2. resolveModel(T, d.alias) = Resolved(AliasModel(r, d))
      BY <1>2, <2>2, <3>1, AliasResolves
    <3>3. AliasModel(r, d) = [id |-> d.target, provider |-> AliasModel(r, d).provider]
      BY DEF AliasModel
    <3>4. QED
      BY <3>1, <3>2, <3>3
  <2>3. ASSUME NEW f \in U, f \notin AliasesOf(bound), DerivedRow(row, f, winner[f]), row.alias \notin Ids(r)
        PROVE  resolveModel(T, row.alias) = Resolved([id |-> row.canonical, provider |-> row.provider])
    <3>1. row.alias = f /\ row.canonical = winner[f].id /\ row.provider = winner[f].provider
      BY <2>3 DEF DerivedRow
    <3>2. resolveModel(T, f) = Resolved(toResolvedModel(winner[f]))
      BY <1>1, <1>2, <1>3, <2>3, <3>1, FamilyResolves
    <3>3. QED
      BY <3>1, <3>2 DEF toResolvedModel
  <2>4. QED
    BY <1>5, <1>7, <2>1, <2>2, <2>3
<1>10. ASSUME NEW id \in DOMAIN models, NEW x \in models[id].aliases
       PROVE  \E row \in rows : row.alias = x /\ row.canonical = id /\ row.enabled = models[id].routable
  <2>1. PICK row \in named : row.alias = x /\ row.canonical = id
    BY <1>7
  <2>2. id \in Ids(r) /\ models[id].routable = ~EntryOf(r, id).retired
    BY <1>7
  <2>3. ASSUME NEW d \in ToSet(bound), ConfigRow(r, row, d)
        PROVE  row.enabled = ~EntryOf(r, id).retired
    <3>1. d.target = id /\ row.enabled = (d.target \in Ids(r) => ~EntryOf(r, d.target).retired)
      BY <2>1, <2>3 DEF ConfigRow
    <3>2. QED
      BY <2>2, <3>1
  <2>4. ASSUME NEW f \in U, DerivedRow(row, f, winner[f])
        PROVE  row.enabled = ~EntryOf(r, id).retired
    <3>1. winner[f].id = id /\ row.enabled = TRUE
      BY <2>1, <2>4 DEF DerivedRow
    <3>2. winner[f] \in ToSet(r) /\ ~winner[f].retired
      BY <1>8 DEF Competes
    <3>3. EntryOf(r, id) = winner[f]
      BY <1>2, <3>1, <3>2, EntryOfFacts
    <3>4. QED
      BY <3>1, <3>2, <3>3
  <2>5. row.enabled = models[id].routable
    BY <1>5, <2>2, <2>3, <2>4
  <2>6. QED
    BY <1>7, <2>1, <2>5
<1>11. PICK listed : listed = {row.alias : row \in rows} \cup Ids(r)
  OBVIOUS
<1>12. ASSUME NEW name \in Names
       PROVE  /\ resolveModel(T, name).kind = "resolved" /\ Len(name) = 1 => name \in listed \cup {d.target : d \in ToSet(bound)}
              /\ resolveModel(T, name).kind = "resolved" => ~isReservedAnthropicName(name)
              /\ isReservedAnthropicName(name) \/
                   (resolveModel(T, name).kind = "resolved"
                      <=> checkAgentModels(r, T, ToSet(Providers), name) \in {"none", "retired", "preview_only"})
  <2>1. name \in Seq(Words) /\ name # <<>>
    BY AliasAssumption DEF IsName
  <2>2. resolveModel(T, name).kind = "resolved" =>
          ~isReservedAnthropicName(name) /\ resolveModel(T, name).target.provider \in ToSet(Providers)
    BY <1>2, <2>1, ResolvedTyped
  <2>3. ASSUME resolveModel(T, name).kind = "resolved", Len(name) = 1
        PROVE  name \in listed \cup {d.target : d \in ToSet(bound)}
    <3>1. CASE name \in Ids(r)
      BY <1>11, <3>1
    <3>2. CASE name \in AliasesOf(bound)
      <4>1. PICK d \in ToSet(bound) : d.alias = name
        BY <3>2, AliasMeans
      <4>2. PICK row \in named : ConfigRow(r, row, d)
        BY <1>5
      <4>3. row \in rows /\ row.alias = name
        BY <1>7, <4>1, <4>2 DEF ConfigRow
      <4>4. QED
        BY <1>11, <4>3
    <3>3. CASE name \notin Ids(r) /\ name \notin AliasesOf(bound)
      <4>1. ~(Len(name) > 1)
        BY <2>3
      <4>2. CASE \E d \in ToSet(bound) : name = d.target
        BY <4>2
      <4>3. CASE name \in U
        <5>1. PICK row \in named : DerivedRow(row, name, winner[name])
          BY <1>5, <3>3, <4>3
        <5>2. row \in rows /\ row.alias = name
          BY <1>7, <5>1 DEF DerivedRow
        <5>3. QED
          BY <1>11, <5>2
      <4>4. (\E d \in ToSet(bound) : name = d.target) \/ name \in U
        BY <1>1, <1>2, <1>3, <2>3, <3>3, <4>1, ResolvedOrigin
      <4>5. QED
        BY <4>2, <4>3, <4>4
    <3>4. QED
      BY <3>1, <3>2, <3>3
  <2>4. isReservedAnthropicName(name) \/
          (resolveModel(T, name).kind = "resolved"
             <=> checkAgentModels(r, T, ToSet(Providers), name) \in {"none", "retired", "preview_only"})
    <3>1. PICK kind, finding : kind = resolveModel(T, name).kind /\ finding = checkAgentModels(r, T, ToSet(Providers), name)
      OBVIOUS
    <3>2. SUFFICES ASSUME ~isReservedAnthropicName(name)
                   PROVE  kind = "resolved" <=> finding \in {"none", "retired", "preview_only"}
      BY <3>1
    <3>3. /\ kind # "resolved" => finding = kind
          /\ kind = "resolved" => finding \in {"none", "retired", "preview_only"}
      BY <2>2, <3>1, <3>2, FindingFacts
    <3>4. kind \in {"resolved", "unknown_qualifier", "unresolved", "ambiguous"}
      BY <3>1, ResolutionKinds
    <3>5. QED
      BY <3>3, <3>4
  <2>5. QED
    BY <2>2, <2>3, <2>4
<1>13. Cardinality({row.alias : row \in {x \in rows : x.source # "direct"}})
         = Cardinality({x \in rows : x.source # "direct"})
  BY <1>5, <1>7
<1>14. DeclaredTargets = {d.target : d \in ToSet(bound)}
  BY <1>1 DEF DeclaredTargets
<1>15. QED
  BY <1>1, <1>4, <1>9, <1>10, <1>11, <1>12, <1>13, <1>14 DEF ShownIsRouted, Resolves

(***************************************************************************)
(* What an edit leaves as it was.  Of a registry that grows or retires     *)
(* entries, and of other declarations, a name that none of these is about  *)
(* takes no notice.                                                        *)
(***************************************************************************)
Grown(r, s) == \A i \in DOMAIN r : i \in DOMAIN s /\ s[i].id = r[i].id /\ s[i].family = r[i].family

OtherThan(name, word) == name # word /\ \A p \in ToSet(Providers) : name # Qualified(p, word)

Unnamed(name, r, b, changed, entries) ==
  /\ \A d \in changed : OtherThan(name, d.alias)
  /\ \A d \in ToSet(b) : d.target \notin Ids(r) => OtherThan(name, d.target)
  /\ \A e \in entries : OtherThan(name, e.id) /\ OtherThan(name, e.family)
  /\ \A d \in ToSet(b), e \in entries : d.target = e.id => OtherThan(name, d.alias)

LEMMA EntriesKept ==
  ASSUME NEW r, RegistryFits(r), NEW s, RegistryFits(s), Grown(r, s)
  PROVE  /\ Ids(r) \subseteq Ids(s)
         /\ \A i \in DOMAIN r : s[i] = r[i] \/ r[i] \in Difference(ToSet(r), ToSet(s))
         /\ \A i \in DOMAIN s : (i \in DOMAIN r /\ s[i] = r[i]) \/ s[i] \in Difference(ToSet(r), ToSet(s))
<1>1. Ids(r) \subseteq Ids(s)
  <2>1. ASSUME NEW id \in Ids(r) PROVE id \in Ids(s)
    <3>1. PICK e \in ToSet(r) : e.id = id
      BY EntryOfFacts
    <3>2. PICK i \in DOMAIN r : r[i] = e
      BY RegistryParts
    <3>3. i \in DOMAIN s /\ s[i].id = id
      BY <3>1, <3>2 DEF Grown
    <3>4. s[i] \in ToSet(s)
      BY <3>3, RegistryParts
    <3>5. QED
      BY <3>3, <3>4, EntryOfFacts
  <2>2. QED
    BY <2>1
<1>2. ASSUME NEW i \in DOMAIN r, s[i] # r[i] PROVE r[i] \in Difference(ToSet(r), ToSet(s))
  <2>1. r[i] \in ToSet(r) /\ i \in DOMAIN s /\ s[i].id = r[i].id
    BY RegistryParts DEF Grown
  <2>2. s[i] \in ToSet(s)
    BY <2>1, RegistryParts
  <2>3. r[i] \notin ToSet(s)
    BY <1>2, <2>1, <2>2, RegistryParts
  <2>4. QED
    BY <2>1, <2>3 DEF Difference
<1>3. ASSUME NEW i \in DOMAIN s, ~(i \in DOMAIN r /\ s[i] = r[i]) PROVE s[i] \in Difference(ToSet(r), ToSet(s))
  <2>1. s[i] \in ToSet(s)
    BY RegistryParts
  <2>2. ASSUME s[i] \in ToSet(r) PROVE FALSE
    <3>1. PICK j \in DOMAIN r : r[j] = s[i]
      BY <2>2, RegistryParts
    <3>2. j \in DOMAIN s /\ s[j].id = s[i].id
      BY <3>1 DEF Grown
    <3>3. j = i
      BY <3>2 DEF RegistryFits
    <3>4. QED
      BY <1>3, <3>1, <3>3
  <2>3. QED
    BY <2>1, <2>2 DEF Difference
<1>4. QED
  BY <1>1, <1>2, <1>3

LEMMA FamilyKept ==
  ASSUME NEW r, RegistryFits(r), NEW s, RegistryFits(s), Grown(r, s), NEW f,
         \A e \in Difference(ToSet(r), ToSet(s)) : e.family # f,
         NEW W, W = selectFamilyWinners(r), NEW X, X = selectFamilyWinners(s)
  PROVE  \A p : /\ <<p, f>> \in DOMAIN W <=> <<p, f>> \in DOMAIN X
                /\ <<p, f>> \in DOMAIN W => X[<<p, f>>] = W[<<p, f>>]
<1> SUFFICES ASSUME NEW p
             PROVE  /\ <<p, f>> \in DOMAIN W <=> <<p, f>> \in DOMAIN X
                    /\ <<p, f>> \in DOMAIN W => X[<<p, f>>] = W[<<p, f>>]
  OBVIOUS
<1>1. PICK key : key = <<p, f>>
  OBVIOUS
<1>2. key[1] = p /\ key[2] = f
  BY <1>1
<1>3. ASSUME NEW e, e.family = f PROVE e \in ToSet(r) <=> e \in ToSet(s)
  BY <1>3 DEF Difference
<1>4. key \in DOMAIN W <=> \E e \in ToSet(r) : Competes(e) /\ e.provider = p /\ e.family = f
  <2>1. DOMAIN W = {<<e.provider, e.family>> : e \in {x \in ToSet(r) : Competes(x)}}
    BY WinnerDomain
  <2>2. QED
    BY <1>1, <2>1
<1>5. key \in DOMAIN X <=> \E e \in ToSet(s) : Competes(e) /\ e.provider = p /\ e.family = f
  <2>1. DOMAIN X = {<<e.provider, e.family>> : e \in {x \in ToSet(s) : Competes(x)}}
    BY WinnerDomain
  <2>2. QED
    BY <1>1, <2>1
<1>6. key \in DOMAIN W <=> key \in DOMAIN X
  BY <1>3, <1>4, <1>5
<1>7. PICK P : P = Running(r, key)
  OBVIOUS
<1>8. /\ \A i \in DOMAIN r : s[i] = r[i] \/ r[i] \in Difference(ToSet(r), ToSet(s))
      /\ \A i \in DOMAIN s : (i \in DOMAIN r /\ s[i] = r[i]) \/ s[i] \in Difference(ToSet(r), ToSet(s))
  BY EntriesKept
<1>9. \A i \in P : i \in DOMAIN r /\ i \in DOMAIN s /\ s[i] = r[i]
  BY <1>2, <1>7, <1>8 DEF Running, Grown
<1>10. P = Running(s, key)
  <2>1. \A i \in P : i \in Running(s, key)
    BY <1>7, <1>9 DEF Running
  <2>2. \A i \in Running(s, key) : i \in P
    BY <1>2, <1>7, <1>8 DEF Running
  <2>3. QED
    BY <2>1, <2>2
<1>11. Foremost(s, P) = Foremost(r, P)
  <2>1. \A i, j \in P : Withstands(s, i, j) <=> Withstands(r, i, j)
    BY <1>9 DEF Withstands
  <2>2. QED
    BY <2>1 DEF Foremost
<1>12. PICK i : i = CHOOSE j \in Foremost(r, P) : TRUE
  OBVIOUS
<1>13. ASSUME key \in DOMAIN W PROVE X[key] = W[key]
  <2>1. W[key] = r[i]
    BY <1>7, <1>12, <1>13, WinnerDomain DEF selectFamilyWinners
  <2>2. X[key] = s[i]
    BY <1>6, <1>10, <1>11, <1>12, <1>13, WinnerDomain DEF selectFamilyWinners
  <2>3. i \in P
    <3>1. \A n \in 1 .. Len(r) : r[n].gen \in Seq(Nat)
      BY RegistryParts, EntryParts
    <3>2. P \in SUBSET (1 .. Len(r)) /\ Len(r) \in Nat
      BY <1>9, RegistryParts
    <3>3. P # {}
      <4>1. PICK e \in ToSet(r) : Competes(e) /\ e.provider = p /\ e.family = f
        BY <1>4, <1>13
      <4>2. PICK n \in DOMAIN r : r[n] = e
        BY RegistryParts
      <4>3. n \in P
        BY <1>2, <1>7, <4>1, <4>2 DEF Running
      <4>4. QED
        BY <4>3
    <3>4. \E n \in P : n \in Foremost(r, P)
      BY <3>1, <3>2, <3>3, ForemostExists
    <3>5. QED
      BY <1>12, <3>4 DEF Foremost
  <2>4. QED
    BY <1>9, <2>1, <2>2, <2>3
<1>14. QED
  BY <1>1, <1>6, <1>13

LEMMA UniqueKept ==
  ASSUME NEW r, RegistryFits(r), NEW s, RegistryFits(s), Grown(r, s), NEW f,
         \A e \in Difference(ToSet(r), ToSet(s)) : e.family # f,
         NEW W, W = selectFamilyWinners(r), NEW X, X = selectFamilyWinners(s), f \in UniqueFamilies(W)
  PROVE  f \in UniqueFamilies(X) /\ flattenUniqueFamilies(X)[f] = flattenUniqueFamilies(W)[f]
<1>1. \A p : /\ <<p, f>> \in DOMAIN W <=> <<p, f>> \in DOMAIN X
             /\ <<p, f>> \in DOMAIN W => X[<<p, f>>] = W[<<p, f>>]
  BY FamilyKept
<1>2. Claimants(X, f) = Claimants(W, f)
  BY <1>1 DEF Claimants
<1>3. f \in Families(W) /\ Cardinality(Claimants(W, f)) = 1
  BY DEF UniqueFamilies
<1>4. f \in Families(X)
  <2>1. PICK key \in DOMAIN W : key[2] = f
    BY <1>3 DEF Families
  <2>2. key = <<key[1], f>>
    BY <2>1, WinnerFacts
  <2>3. <<key[1], f>> \in DOMAIN X
    BY <1>1, <2>1, <2>2
  <2>4. <<key[1], f>>[2] = f
    OBVIOUS
  <2>5. QED
    BY <2>3, <2>4 DEF Families
<1>5. f \in UniqueFamilies(X)
  BY <1>2, <1>3, <1>4 DEF UniqueFamilies
<1>6. PICK p : p = CHOOSE x \in Claimants(W, f) : TRUE
  OBVIOUS
<1>7. p \in Claimants(W, f)
  <2>1. Claimants(W, f) # {}
    BY <1>3, FS_EmptySet
  <2>2. QED
    BY <1>6, <2>1
<1>8. flattenUniqueFamilies(W)[f] = W[<<p, f>>]
  BY <1>6 DEF flattenUniqueFamilies
<1>9. flattenUniqueFamilies(X)[f] = X[<<p, f>>]
  BY <1>2, <1>5, <1>6 DEF flattenUniqueFamilies
<1>10. QED
  BY <1>1, <1>5, <1>7, <1>8, <1>9 DEF Claimants

LEMMA AliasModelKept ==
  ASSUME NEW r, RegistryFits(r), NEW s, RegistryFits(s), NEW d,
         \A e \in Difference(ToSet(r), ToSet(s)) : d.target # e.id
  PROVE  AliasModel(s, d) = AliasModel(r, d)
<1>1. CASE d.target \in Ids(r)
  <2>1. PICK e \in ToSet(r) : e.id = d.target
    BY <1>1, EntryOfFacts
  <2>2. e \in ToSet(s)
    BY <2>1 DEF Difference
  <2>3. d.target \in Ids(s) /\ EntryOf(r, d.target) = e /\ EntryOf(s, d.target) = e
    BY <2>1, <2>2, EntryOfFacts
  <2>4. QED
    BY <1>1, <2>3 DEF AliasModel
<1>2. CASE d.target \notin Ids(r)
  <2>1. ASSUME d.target \in Ids(s) PROVE FALSE
    <3>1. PICK e \in ToSet(s) : e.id = d.target
      BY <2>1, EntryOfFacts
    <3>2. e \notin ToSet(r)
      BY <1>2, <3>1, EntryOfFacts
    <3>3. QED
      BY <3>1, <3>2 DEF Difference
  <2>2. QED
    BY <1>2, <2>1 DEF AliasModel
<1>3. QED
  BY <1>1, <1>2

LEMMA QualifiedKept ==
  ASSUME NEW r, RegistryFits(r), NEW s, RegistryFits(s), Grown(r, s), NEW b, BoundFits(b), NEW c, BoundFits(c),
         NEW name, Unnamed(name, r, b, Difference(ToSet(b), ToSet(c)), Difference(ToSet(r), ToSet(s))),
         name \in DOMAIN QualifiedNames(r, b)
  PROVE  name \in DOMAIN QualifiedNames(s, c) /\ QualifiedNames(s, c)[name] = QualifiedNames(r, b)[name]
<1>1. PICK W, X, Q, R : /\ W = selectFamilyWinners(r) /\ X = selectFamilyWinners(s)
                        /\ Q = QualifiedNames(r, b) /\ R = QualifiedNames(s, c)
  OBVIOUS
<1>2. PICK entries, changed : entries = Difference(ToSet(r), ToSet(s)) /\ changed = Difference(ToSet(b), ToSet(c))
  OBVIOUS
<1> DEFINE Goal == name \in DOMAIN R /\ R[name] = Q[name]
<1>3. Ids(r) \subseteq Ids(s)
  BY EntriesKept
<1>4. \A d \in ToSet(b) \cup ToSet(c) : d.provider \in ToSet(Providers)
  BY BoundParts
<1>5. \A d \in ToSet(b) \cup ToSet(c) : name = Qualified(d.provider, d.alias) => d \in ToSet(b) /\ d \in ToSet(c)
  BY <1>4 DEF Unnamed, OtherThan, Difference
<1>6. ASSUME NEW d \in ToSet(b), d.alias \notin Ids(r), name = Qualified(d.provider, d.alias) PROVE Goal
  <2>1. d \in ToSet(c)
    BY <1>5, <1>6
  <2>2. ASSUME d.alias \in Ids(s) PROVE FALSE
    <3>1. PICK e \in ToSet(s) : e.id = d.alias
      BY <2>2, EntryOfFacts
    <3>2. e \notin ToSet(r)
      BY <1>6, <3>1, EntryOfFacts
    <3>3. e \in entries
      BY <1>2, <3>1, <3>2 DEF Difference
    <3>4. QED
      BY <1>2, <1>4, <1>6, <3>1, <3>3 DEF Unnamed, OtherThan
  <2>3. \A e \in entries : d.target # e.id
    BY <1>2, <1>4, <1>6 DEF Unnamed, OtherThan
  <2>4. AliasModel(s, d) = AliasModel(r, d)
    BY <1>2, <2>3, AliasModelKept
  <2>5. Q[name] = AliasModel(r, d)
    BY <1>1, <1>6, QualifiedNamesFacts
  <2>6. name \in DOMAIN R /\ R[name] = AliasModel(s, d)
    BY <1>1, <1>6, <2>1, <2>2, QualifiedNamesFacts
  <2>7. QED
    BY <2>4, <2>5, <2>6
<1>7. ASSUME NEW e \in ToSet(r), name = Qualified(e.provider, e.id) PROVE Goal
  <2>1. e.provider \in ToSet(Providers)
    BY EntryParts
  <2>2. e \notin entries
    BY <1>2, <1>7, <2>1 DEF Unnamed, OtherThan
  <2>3. e \in ToSet(s)
    BY <1>2, <2>2 DEF Difference
  <2>4. Q[name] = toResolvedModel(e)
    BY <1>1, <1>7, QualifiedNamesFacts
  <2>5. name \in DOMAIN R /\ R[name] = toResolvedModel(e)
    BY <1>1, <1>7, <2>3, QualifiedNamesFacts
  <2>6. QED
    BY <2>4, <2>5
<1>8. ASSUME NEW key \in DOMAIN W, name = Qualified(key[1], key[2]),
             ~\E d \in ToSet(b) : d.alias \notin Ids(r) /\ name = Qualified(d.provider, d.alias)
      PROVE  Goal
  <2>1. W[key] \in ToSet(r) /\ key = <<W[key].provider, W[key].family>> /\ key[1] = W[key].provider /\ key[2] = W[key].family
    BY <1>1, WinnerFacts
  <2>2. key[1] \in ToSet(Providers) /\ key = <<key[1], key[2]>>
    BY <2>1, EntryParts
  <2>3. \A e \in entries : e.family # key[2]
    BY <1>2, <1>8, <2>2 DEF Unnamed, OtherThan
  <2>4. key \in DOMAIN X /\ X[key] = W[key]
    <3>1. PICK p, f : p = key[1] /\ f = key[2]
      OBVIOUS
    <3>2. <<p, f>> \in DOMAIN W <=> <<p, f>> \in DOMAIN X
      BY <1>1, <1>2, <2>3, <3>1, FamilyKept
    <3>3. <<p, f>> \in DOMAIN W => X[<<p, f>>] = W[<<p, f>>]
      BY <1>1, <1>2, <2>3, <3>1, FamilyKept
    <3>4. QED
      BY <1>8, <2>2, <3>1, <3>2, <3>3
  <2>5. Q[name] = toResolvedModel(W[key])
    <3>1. ASSUME NEW d \in ToSet(b), d.alias = key[2], d.provider = key[1], d.alias \notin Ids(r) PROVE FALSE
      BY <1>8, <3>1
    <3>2. QED
      BY <1>1, <1>8, <3>1, QualifiedNamesFacts
  <2>6. name \in DOMAIN R /\ R[name] = toResolvedModel(X[key])
    <3>1. ASSUME NEW d \in ToSet(c), d.alias = key[2], d.provider = key[1], d.alias \notin Ids(s) PROVE FALSE
      <4>1. name = Qualified(d.provider, d.alias)
        BY <1>8, <3>1
      <4>2. d \in ToSet(b) /\ d.alias \notin Ids(r)
        BY <1>3, <1>5, <3>1, <4>1
      <4>3. QED
        BY <1>8, <4>1, <4>2
    <3>2. QED
      BY <1>1, <1>8, <2>4, <3>1, QualifiedNamesFacts
  <2>7. QED
    BY <2>4, <2>5, <2>6
<1>9. Goal
  <2>1. CASE \E d \in ToSet(b) : d.alias \notin Ids(r) /\ name = Qualified(d.provider, d.alias)
    BY <1>6, <2>1
  <2>2. CASE ~\E d \in ToSet(b) : d.alias \notin Ids(r) /\ name = Qualified(d.provider, d.alias)
    <3>1. \/ \E e \in ToSet(r) : name = Qualified(e.provider, e.id)
          \/ \E key \in DOMAIN W : name = Qualified(key[1], key[2])
      BY <1>1, <2>2, QualifiedNamesFacts
    <3>2. QED
      BY <1>7, <1>8, <2>2, <3>1
  <2>3. QED
    BY <2>1, <2>2
<1>10. QED
  BY <1>1, <1>9

LEMMA MeaningKept ==
  ASSUME NEW r, RegistryFits(r), NEW s, RegistryFits(s), Grown(r, s), NEW b, BoundFits(b), NEW c, BoundFits(c),
         NEW T, T = tableOf(r, b), NEW V, V = tableOf(s, c),
         NEW name, Unnamed(name, r, b, Difference(ToSet(b), ToSet(c)), Difference(ToSet(r), ToSet(s))),
         resolveModel(T, name).kind = "resolved"
  PROVE  resolveModel(V, name) = resolveModel(T, name)
<1>1. PICK entries, changed : entries = Difference(ToSet(r), ToSet(s)) /\ changed = Difference(ToSet(b), ToSet(c))
  OBVIOUS
<1>2. /\ \A d \in changed : OtherThan(name, d.alias)
      /\ \A d \in ToSet(b) : d.target \notin Ids(r) => OtherThan(name, d.target)
      /\ \A e \in entries : OtherThan(name, e.id) /\ OtherThan(name, e.family)
      /\ \A d \in ToSet(b), e \in entries : d.target = e.id => OtherThan(name, d.alias)
  BY <1>1 DEF Unnamed
<1>3. name \notin Ids(r) => name \notin Ids(s)
  <2>1. SUFFICES ASSUME name \notin Ids(r), name \in Ids(s) PROVE FALSE
    OBVIOUS
  <2>2. PICK e \in ToSet(s) : e.id = name
    BY <2>1, EntryOfFacts
  <2>3. e \notin ToSet(r)
    BY <2>1, <2>2, EntryOfFacts
  <2>4. e \in entries
    BY <1>1, <2>2, <2>3 DEF Difference
  <2>5. QED
    BY <1>2, <2>2, <2>4 DEF OtherThan
<1>4. \A d \in ToSet(b) \cup ToSet(c) : d.alias = name => d \in ToSet(b) /\ d \in ToSet(c)
  BY <1>1, <1>2 DEF OtherThan, Difference
<1>5. CASE name \in Ids(r)
  <2>1. PICK e \in ToSet(r) : e.id = name
    BY <1>5, EntryOfFacts
  <2>2. e \in ToSet(s)
    BY <1>1, <1>2, <2>1 DEF OtherThan, Difference
  <2>3. resolveModel(T, e.id) = Resolved(toResolvedModel(e))
    BY IdResolves
  <2>4. resolveModel(V, e.id) = Resolved(toResolvedModel(e))
    BY <2>2, IdResolves
  <2>5. QED
    BY <2>1, <2>3, <2>4
<1>6. CASE name \notin Ids(r) /\ name \in AliasesOf(b)
  <2>1. PICK d \in ToSet(b) : d.alias = name
    BY <1>6, AliasMeans
  <2>2. d \in ToSet(c) /\ d.alias \notin Ids(s) /\ d.alias \notin Ids(r)
    BY <1>3, <1>4, <1>6, <2>1
  <2>3. \A e \in entries : d.target # e.id
    BY <1>2, <2>1 DEF OtherThan
  <2>4. AliasModel(s, d) = AliasModel(r, d)
    BY <1>1, <2>3, AliasModelKept
  <2>5. resolveModel(T, d.alias) = Resolved(AliasModel(r, d))
    BY <2>2, AliasResolves
  <2>6. resolveModel(V, d.alias) = Resolved(AliasModel(s, d))
    BY <2>2, AliasResolves
  <2>7. QED
    BY <2>1, <2>4, <2>5, <2>6
<1>7. CASE name \notin Ids(r) /\ name \notin AliasesOf(b)
  <2>1. name \notin Ids(s) /\ name \notin AliasesOf(c)
    BY <1>3, <1>4, <1>7 DEF AliasesOf
  <2>2. \A d \in ToSet(b) : d.target \notin Ids(r) => name # d.target /\ name # Qualified(d.provider, d.target)
    BY <1>2, BoundParts DEF OtherThan
  <2>3. PICK W, X : W = selectFamilyWinners(r) /\ X = selectFamilyWinners(s)
    OBVIOUS
  <2>4. CASE /\ name \in DOMAIN QualifiedNames(r, b) /\ Len(name) > 1 /\ Head(name) \in ToSet(Providers)
             /\ resolveModel(T, name) = Resolved(QualifiedNames(r, b)[name])
    <3>1. name \in DOMAIN QualifiedNames(s, c) /\ QualifiedNames(s, c)[name] = QualifiedNames(r, b)[name]
      BY <2>4, QualifiedKept
    <3>2. resolveModel(V, name) = Resolved(QualifiedNames(s, c)[name])
      BY <2>1, <2>4, <3>1, QualifiedResolves
    <3>3. QED
      BY <2>4, <3>1, <3>2
  <2>5. CASE /\ name \in UniqueFamilies(W)
             /\ resolveModel(T, name) = Resolved(toResolvedModel(flattenUniqueFamilies(W)[name]))
    <3>1. \A e \in entries : e.family # name
      BY <1>2 DEF OtherThan
    <3>2. name \in UniqueFamilies(X) /\ flattenUniqueFamilies(X)[name] = flattenUniqueFamilies(W)[name]
      BY <1>1, <2>3, <2>5, <3>1, UniqueKept
    <3>3. resolveModel(V, name) = Resolved(toResolvedModel(flattenUniqueFamilies(X)[name]))
      BY <2>1, <2>3, <3>2, FamilyResolves
    <3>4. QED
      BY <2>5, <3>2, <3>3
  <2>6. QED
    BY <1>7, <2>2, <2>3, <2>4, <2>5, ResolvedOrigin
<1>8. QED
  BY <1>5, <1>6, <1>7

LEMMA NotNamed ==
  ASSUME NEW name, BoundFits(Bound(aliases)),
         NEW changed, NEW entries, name \notin Named(changed, ToSet(Bound(aliases)), entries)
  PROVE  Unnamed(name, registry, Bound(aliases), changed, entries)
<1>1. PICK b, ids, dangling : /\ b = ToSet(Bound(aliases)) /\ ids = {e.id : e \in entries}
                              /\ dangling = DeclaredTargets \ Ids(registry)
  OBVIOUS
<1>2. PICK words : words = {d.alias : d \in changed} \cup dangling \cup ids \cup {e.family : e \in entries}
                             \cup {d.alias : d \in {x \in b : x.target \in ids}}
  OBVIOUS
<1>3. name \notin Forms(words)
  BY <1>1, <1>2 DEF Named
<1>4. \A word \in words : OtherThan(name, word)
  BY <1>3 DEF Forms, Spellings, OtherThan
<1>5. /\ \A d \in changed : d.alias \in words
      /\ \A d \in b : d.target \notin Ids(registry) => d.target \in words
      /\ \A e \in entries : e.id \in words /\ e.family \in words
      /\ \A d \in b, e \in entries : d.target = e.id => d.alias \in words
  BY <1>1, <1>2 DEF DeclaredTargets
<1>6. QED
  BY <1>1, <1>4, <1>5 DEF Unnamed

(***************************************************************************)
(* The names of the reverse leg.                                           *)
(***************************************************************************)
LEMMA CatalogParts ==
  ASSUME NEW model \in ToSet(Catalog)
  PROVE  /\ model.id \in Seq(Words) /\ model.id # <<>> /\ Len(model.id) = 1 /\ Head(model.id) \in ClaudeWords
         /\ model.family \in Seq(Words) /\ model.family # <<>> /\ Len(model.family) = 1
         /\ Head(model.family) \notin OpenaiWords
         /\ model.gen \in Seq(Nat)
<1>1. model \in [id : Seq(Words), family : Seq(Words), gen : Seq(Nat)]
  BY CatalogAssumption, SetOfSequence
<1>2. /\ Len(model.id) = 1 /\ Head(model.id) \in ClaudeWords
      /\ Len(model.family) = 1 /\ Head(model.family) \notin OpenaiWords
  BY CatalogAssumption
<1>3. \A s \in Seq(Words) : Len(s) = 1 => s # <<>>
  OBVIOUS
<1>4. QED
  BY <1>1, <1>2, <1>3

LEMMA ClaudeNameFacts ==
  ASSUME NEW x \in Seq(Words)
  PROVE  /\ Head(ClaudeName(x)) = "claude" /\ Tail(ClaudeName(x)) = x /\ ClaudeName(x) \in Seq(Words)
         /\ Len(ClaudeName(x)) = Len(x) + 1 /\ Head(ClaudeName(x)) \notin ClaudeWords
<1>1. ClaudeName(x) = Qualified("claude", x)
  BY DEF ClaudeName, Qualified
<1>2. "claude" \in Words /\ "claude" \notin ClaudeWords
  BY WordsAssumption
<1>3. PICK w : w = "claude"
  OBVIOUS
<1>4. /\ Qualified(w, x) \in Seq(Words) /\ Len(Qualified(w, x)) = Len(x) + 1
      /\ Head(Qualified(w, x)) = w /\ Tail(Qualified(w, x)) = x
  BY <1>2, <1>3, QualifiedFacts
<1>5. QED
  BY <1>1, <1>2, <1>3, <1>4

(* No name of a Claude model is one of OpenAI's.                           *)
LEMMA ClaudeNotOpenai ==
  ASSUME NEW r, RegistryFits(r), NEW x \in Seq(Words), x # <<>>
  PROVE  /\ Head(x) \in ClaudeWords /\ Head(x) # "codex" => ~isOpenaiModelName(r, x)
         /\ x \in CatalogFamilies => ~isOpenaiModelName(r, x)
         /\ ~isOpenaiModelName(r, ClaudeName(x))
<1>1. ASSUME NEW y, isOpenaiModelName(r, y)
      PROVE  \/ Head(y) \in OpenaiWords
             \/ Head(y) = "codex" /\ Len(y) > 1
             \/ \E e \in ToSet(r) : y = e.id \/ (y = e.family /\ y # NoFamily)
  BY <1>1 DEF isOpenaiModelName
<1>2. ASSUME Head(x) \in ClaudeWords, Head(x) # "codex" PROVE ~isOpenaiModelName(r, x)
  <2>1. isReservedAnthropicName(x) /\ Head(x) \notin OpenaiWords
    BY <1>2, WordsAssumption DEF isReservedAnthropicName
  <2>2. \A e \in ToSet(r) : x # e.id /\ (x = e.family => x = NoFamily)
    BY <2>1, EntryParts
  <2>3. QED
    BY <1>1, <1>2, <2>1, <2>2
<1>3. ASSUME x \in CatalogFamilies PROVE ~isOpenaiModelName(r, x)
  <2>1. PICK model \in ToSet(Catalog) : model.family = x
    BY <1>3 DEF CatalogFamilies
  <2>2. Head(x) \notin OpenaiWords /\ ~(Len(x) > 1)
    <3>1. Head(x) \notin OpenaiWords /\ Len(x) = 1
      BY <2>1, CatalogParts
    <3>2. QED
      BY <3>1
  <2>3. \A e \in ToSet(r) : x # e.id /\ x # e.family
    BY <1>3, EntryParts
  <2>4. QED
    BY <1>1, <2>2, <2>3
<1>4. ~isOpenaiModelName(r, ClaudeName(x))
  <2>1. PICK y : y = ClaudeName(x)
    OBVIOUS
  <2>2. Head(y) = "claude" /\ Len(y) = Len(x) + 1
    BY <2>1, ClaudeNameFacts
  <2>3. Head(y) \notin OpenaiWords /\ Head(y) # "codex"
    BY <2>2, WordsAssumption
  <2>4. Len(y) # 1
    <3>1. Len(x) \in Nat /\ Len(x) # 0
      OBVIOUS
    <3>2. QED
      BY <2>2, <3>1
  <2>5. \A e \in ToSet(r) : y # e.id /\ (y = e.family => y = NoFamily)
    BY <2>2, <2>4, EntryParts
  <2>6. QED
    BY <1>1, <2>1, <2>3, <2>5
<1>5. QED
  BY <1>2, <1>3, <1>4

LEMMA FamilyHeadFacts ==
  ASSUME NEW f \in CatalogFamilies
  PROVE  FamilyHead(f).id \in CatalogIds
<1>1. PICK P : P = {k \in DOMAIN Catalog : Catalog[k].family = f}
  OBVIOUS
<1>2. /\ Catalog \in Seq([id : Seq(Words), family : Seq(Words), gen : Seq(Nat)])
      /\ Len(Catalog) \in Nat /\ DOMAIN Catalog = 1 .. Len(Catalog)
      /\ \A n \in DOMAIN Catalog : Catalog[n] \in ToSet(Catalog)
      /\ \A x \in ToSet(Catalog) : \E n \in DOMAIN Catalog : Catalog[n] = x
  BY CatalogAssumption, SetOfSequence
<1>3. P \in SUBSET (1 .. Len(Catalog))
  BY <1>1, <1>2
<1>4. P # {}
  BY <1>1, <1>2 DEF CatalogFamilies
<1>5. \A n \in 1 .. Len(Catalog) : Catalog[n].gen \in Seq(Nat)
  BY <1>2, CatalogParts
<1>6. \E i \in P : i \in Foremost(Catalog, P)
  BY <1>2, <1>3, <1>4, <1>5, ForemostExists
<1>7. PICK i : i = CHOOSE k \in Foremost(Catalog, P) : TRUE
  OBVIOUS
<1>8. i \in P
  BY <1>6, <1>7 DEF Foremost
<1>9. FamilyHead(f) = Catalog[i]
  BY <1>1, <1>7 DEF FamilyHead
<1>10. QED
  BY <1>2, <1>3, <1>8, <1>9 DEF CatalogIds

LEMMA SpelledFacts ==
  ASSUME NEW m, DOMAIN m \subseteq Seq(Words)
  PROVE  /\ DOMAIN Spelled(m) = DOMAIN m \cup {ClaudeName(x) : x \in DOMAIN m}
         /\ \A x \in DOMAIN m : Spelled(m)[x] = m[x]
         /\ \A x \in DOMAIN m : ClaudeName(x) \notin DOMAIN m => Spelled(m)[ClaudeName(x)] = m[x]
<1>1. \A x \in DOMAIN m : Tail(ClaudeName(x)) = x
  BY ClaudeNameFacts
<1>2. QED
  BY <1>1 DEF Spelled

LEMMA FamilyNamesFacts ==
  ASSUME NEW r, RegistryFits(r)
  PROVE  \A name \in DOMAIN FamilyNames : FamilyNames[name] \in CatalogIds /\ ~isOpenaiModelName(r, name)
<1>1. PICK m, ids : m = [family \in CatalogFamilies |-> FamilyHead(family).id] /\ ids = [id \in CatalogIds |-> id]
  OBVIOUS
<1>2. DOMAIN m = CatalogFamilies /\ \A f \in CatalogFamilies : m[f] \in CatalogIds
  BY <1>1, FamilyHeadFacts
<1>3. DOMAIN ids = CatalogIds /\ \A id \in CatalogIds : ids[id] = id
  BY <1>1
<1>4. \A f \in CatalogFamilies : f \in Seq(Words) /\ f # <<>> /\ Len(f) = 1
  BY CatalogParts DEF CatalogFamilies
<1>5. \A id \in CatalogIds : id \in Seq(Words) /\ id # <<>> /\ Head(id) \in ClaudeWords
  BY CatalogParts DEF CatalogIds
<1>6. \A f \in CatalogFamilies : ClaudeName(f) \notin CatalogFamilies
  <2>1. \A f \in CatalogFamilies : Len(ClaudeName(f)) = 2
    <3>1. ASSUME NEW f \in CatalogFamilies PROVE Len(ClaudeName(f)) = 2
      <4>1. Len(f) = 1 /\ f \in Seq(Words)
        BY <1>4
      <4>2. Len(ClaudeName(f)) = Len(f) + 1
        BY <4>1, ClaudeNameFacts
      <4>3. QED
        BY <4>1, <4>2
    <3>2. QED
      BY <3>1
  <2>2. QED
    BY <1>4, <2>1
<1>7. PICK S : S = Spelled(m)
  OBVIOUS
<1>8. /\ DOMAIN S = CatalogFamilies \cup {ClaudeName(f) : f \in CatalogFamilies}
      /\ \A f \in CatalogFamilies : S[f] = m[f] /\ S[ClaudeName(f)] = m[f]
  BY <1>2, <1>4, <1>6, <1>7, SpelledFacts
<1>9. FamilyNames = Atop(S, ids)
  BY <1>1, <1>7 DEF FamilyNames
<1>10. /\ DOMAIN FamilyNames = DOMAIN S \cup CatalogIds
       /\ \A k \in DOMAIN S : FamilyNames[k] = S[k]
       /\ \A k \in CatalogIds : k \notin DOMAIN S => FamilyNames[k] = ids[k]
  <2>1. /\ DOMAIN Atop(S, ids) = DOMAIN S \cup DOMAIN ids /\ \A k \in DOMAIN S : Atop(S, ids)[k] = S[k]
        /\ \A k \in DOMAIN ids : k \notin DOMAIN S => Atop(S, ids)[k] = ids[k]
    BY AtopFacts
  <2>2. QED
    BY <1>3, <1>9, <2>1
<1>11. \A k \in DOMAIN FamilyNames : FamilyNames[k] \in CatalogIds
  BY <1>2, <1>3, <1>8, <1>10
<1>12. \A f \in CatalogFamilies : ~isOpenaiModelName(r, f) /\ ~isOpenaiModelName(r, ClaudeName(f))
  BY <1>4, ClaudeNotOpenai
<1>13. \A id \in CatalogIds : ~isOpenaiModelName(r, id)
  BY <1>5, ClaudeNotOpenai, WordsAssumption
<1>14. QED
  BY <1>8, <1>10, <1>11, <1>12, <1>13

(* What the aliases declared so far have made of the names.                *)
TargetsOf(pairs) == {pair.target : pair \in ToSet(pairs)}
PinnedBy(pairs) == Pinned(TargetsOf(pairs))
Overruled(pairs) ==
  PinnedBy(pairs)
    \cup {ClaudeName(name) : name \in PinnedBy(pairs) \cup {pair.alias : pair \in ToSet(pairs)}}

NamesFit(r, pairs, n, m) ==
  /\ \A name \in DOMAIN m : m[name] \in PinnedBy(pairs) /\ ~isOpenaiModelName(r, name)
  /\ \A k \in 1 .. n : \/ pairs[k].alias \in Overruled(pairs)
                       \/ pairs[k].alias \in DOMAIN m /\ m[pairs[k].alias] = pairs[k].target

LEMMA ClaudeAliasParts ==
  ASSUME NEW r, NEW pairs, ClaudeAliasesFit(r, pairs)
  PROVE  /\ Len(pairs) \in Nat /\ DOMAIN pairs = 1 .. Len(pairs)
         /\ \A n \in DOMAIN pairs : pairs[n] \in ToSet(pairs)
         /\ \A pair \in ToSet(pairs) : \E n \in DOMAIN pairs : pairs[n] = pair
         /\ \A pair \in ToSet(pairs) :
              /\ pair.alias \in Seq(Words) /\ pair.alias # <<>> /\ pair.target \in Seq(Words) /\ pair.target # <<>>
              /\ validClaudeAlias(r, pair)
              /\ ~isOpenaiModelName(r, pair.alias) /\ ~isOpenaiModelName(r, pair.target)
              /\ Head(pair.target) \in ClaudeWords
<1>1. pairs \in Seq(Pairs(ClaudeAliasNames, ClaudeTargets))
  BY DEF ClaudeAliasesFit
<1>2. ASSUME NEW pair \in ToSet(pairs)
      PROVE  /\ pair.alias \in Seq(Words) /\ pair.alias # <<>> /\ pair.target \in Seq(Words) /\ pair.target # <<>>
             /\ validClaudeAlias(r, pair)
             /\ ~isOpenaiModelName(r, pair.alias) /\ ~isOpenaiModelName(r, pair.target)
             /\ Head(pair.target) \in ClaudeWords
  <2>1. pair \in Pairs(ClaudeAliasNames, ClaudeTargets)
    BY <1>1, SetOfSequence
  <2>2. pair.alias \in ClaudeAliasNames /\ pair.target \in ClaudeTargets
    BY <2>1 DEF Pairs
  <2>3. IsName(pair.alias) /\ IsName(pair.target)
    BY <2>2, AliasAssumption
  <2>4. validClaudeAlias(r, pair)
    BY DEF ClaudeAliasesFit
  <2>5. QED
    BY <2>3, <2>4 DEF IsName, validClaudeAlias
<1>3. QED
  BY <1>1, <1>2, SetOfSequence

LEMMA DeclareFits ==
  ASSUME NEW r, RegistryFits(r), NEW pairs, ClaudeAliasesFit(r, pairs),
         NEW n \in DOMAIN pairs, NEW m, NamesFit(r, pairs, n - 1, m)
  PROVE  NamesFit(r, pairs, n, Declare(r, m, pairs[n]))
<1>1. PICK pair : pair = pairs[n]
  OBVIOUS
<1>2. pair \in ToSet(pairs) /\ n \in 1 .. Len(pairs) /\ Len(pairs) \in Nat /\ DOMAIN pairs = 1 .. Len(pairs)
  BY <1>1, ClaudeAliasParts
<1>3. PICK a, t, c : a = pair.alias /\ t = pair.target /\ c = ClaudeName(pair.alias)
  OBVIOUS
<1>4. PICK d : d = Declare(r, m, pair)
  OBVIOUS
<1>5. /\ DOMAIN d = DOMAIN m \cup {t, a, c} /\ \A k \in {t, a, c} : d[k] = t
      /\ \A k \in DOMAIN m : k \notin {t, a, c} => d[k] = m[k]
  <2>1. validClaudeAlias(r, pair)
    BY <1>2, ClaudeAliasParts
  <2>2. PICK m1 : m1 = Put(m, t, t)
    OBVIOUS
  <2>3. PICK m2 : m2 = Put(m1, a, t)
    OBVIOUS
  <2>4. PICK m3 : m3 = Put(m2, c, t)
    OBVIOUS
  <2>5. DOMAIN m1 = DOMAIN m \cup {t} /\ m1[t] = t /\ \A k \in DOMAIN m : k # t => m1[k] = m[k]
    BY <2>2 DEF Put
  <2>6. DOMAIN m2 = DOMAIN m1 \cup {a} /\ m2[a] = t /\ \A k \in DOMAIN m1 : k # a => m2[k] = m1[k]
    BY <2>3 DEF Put
  <2>7. DOMAIN m3 = DOMAIN m2 \cup {c} /\ m3[c] = t /\ \A k \in DOMAIN m2 : k # c => m3[k] = m2[k]
    BY <2>4 DEF Put
  <2>8. d = m3
    BY <1>3, <1>4, <2>1, <2>2, <2>3, <2>4 DEF Declare, Name
  <2>9. DOMAIN m3 = DOMAIN m \cup {t, a, c}
    BY <2>5, <2>6, <2>7
  <2>10. m3[c] = t /\ m3[a] = t /\ m3[t] = t
    BY <2>5, <2>6, <2>7
  <2>11. \A k \in DOMAIN m : k \notin {t, a, c} => m3[k] = m[k]
    BY <2>5, <2>6, <2>7
  <2>12. QED
    BY <2>8, <2>9, <2>10, <2>11
<1>6. t \in PinnedBy(pairs) /\ t \in Overruled(pairs) /\ c \in Overruled(pairs)
  BY <1>2, <1>3 DEF PinnedBy, Pinned, TargetsOf, Overruled
<1>7. ~isOpenaiModelName(r, a) /\ ~isOpenaiModelName(r, t) /\ ~isOpenaiModelName(r, c)
  <2>1. a \in Seq(Words) /\ a # <<>> /\ ~isOpenaiModelName(r, a) /\ ~isOpenaiModelName(r, t)
    BY <1>2, <1>3, ClaudeAliasParts
  <2>2. ~isOpenaiModelName(r, ClaudeName(a))
    BY <2>1, ClaudeNotOpenai
  <2>3. QED
    BY <1>3, <2>1, <2>2
<1>8. \A name \in DOMAIN d : d[name] \in PinnedBy(pairs) /\ ~isOpenaiModelName(r, name)
  BY <1>5, <1>6, <1>7 DEF NamesFit
<1>9. ASSUME NEW k \in 1 .. n, pairs[k].alias \notin Overruled(pairs)
      PROVE  pairs[k].alias \in DOMAIN d /\ d[pairs[k].alias] = pairs[k].target
  <2>1. CASE k = n
    BY <1>1, <1>3, <1>5, <2>1
  <2>2. CASE k # n
    <3>1. k \in 1 .. n - 1 /\ k \in DOMAIN pairs
      BY <1>2, <2>2
    <3>2. pairs[k].alias \in DOMAIN m /\ m[pairs[k].alias] = pairs[k].target
      BY <1>9, <3>1 DEF NamesFit
    <3>3. pairs[k].alias # a
      BY <1>1, <1>3, <2>2, <3>1 DEF ClaudeAliasesFit
    <3>4. pairs[k].alias \notin {t, a, c}
      BY <1>6, <1>9, <3>3
    <3>5. QED
      BY <1>5, <3>2, <3>4
  <2>3. QED
    BY <2>1, <2>2
<1>10. NamesFit(r, pairs, n, d)
  BY <1>8, <1>9 DEF NamesFit
<1>11. QED
  BY <1>1, <1>4, <1>10

LEMMA DeclaredNamesFit ==
  ASSUME NEW r, RegistryFits(r), NEW pairs, ClaudeAliasesFit(r, pairs)
  PROVE  NamesFit(r, pairs, Len(pairs), DeclaredNames(r, pairs)[Len(pairs)])
<1>1. PICK base : base = FamilyNames
  OBVIOUS
<1> DEFINE N == Len(pairs)
           Chain(f, n) == f = [k \in 0 .. n |-> IF k = 0 THEN base ELSE Declare(r, f[k - 1], pairs[k])]
           T == {n \in Nat : \E f : Chain(f, n)}
<1>2. N \in Nat /\ DOMAIN pairs = 1 .. N
  BY ClaudeAliasParts
<1>3. 0 \in T
  <2>1. Chain([k \in 0 .. 0 |-> base], 0)
    OBVIOUS
  <2>2. QED
    BY <2>1
<1>4. ASSUME NEW n \in Nat, n \in T PROVE n + 1 \in T
  <2>1. PICK f : Chain(f, n)
    BY <1>4
  <2> DEFINE g == [k \in 0 .. n + 1 |-> IF k = n + 1 THEN Declare(r, f[n], pairs[n + 1]) ELSE f[k]]
  <2>2. ASSUME NEW k \in 0 .. n + 1 PROVE g[k] = IF k = 0 THEN base ELSE Declare(r, g[k - 1], pairs[k])
    <3>1. CASE k = n + 1
      <4>1. k # 0 /\ k - 1 = n /\ n \in 0 .. n + 1 /\ n # n + 1
        BY <3>1
      <4>2. g[k - 1] = f[n] /\ g[k] = Declare(r, f[n], pairs[n + 1])
        BY <3>1, <4>1
      <4>3. QED
        BY <3>1, <4>1, <4>2
    <3>2. CASE k # n + 1
      <4>1. k \in 0 .. n /\ g[k] = f[k]
        BY <3>2
      <4>2. f[k] = IF k = 0 THEN base ELSE Declare(r, f[k - 1], pairs[k])
        BY <2>1, <4>1
      <4>3. CASE k = 0
        BY <4>1, <4>2, <4>3
      <4>4. CASE k # 0
        <5>1. k - 1 \in 0 .. n + 1 /\ k - 1 # n + 1
          BY <4>1, <4>4
        <5>2. g[k - 1] = f[k - 1]
          BY <5>1
        <5>3. QED
          BY <4>1, <4>2, <4>4, <5>2
      <4>5. QED
        BY <4>3, <4>4
    <3>3. QED
      BY <3>1, <3>2
  <2>3. g = [k \in 0 .. n + 1 |-> g[k]]
    OBVIOUS
  <2> HIDE DEF g
  <2>4. Chain(g, n + 1)
    BY <2>2, <2>3
  <2>5. QED
    BY <2>4
<1> HIDE DEF T, N
<1>5. \A n \in 0 .. N : n \in T
  <2>1. \A n \in 0 .. N - 1 : n \in T => n + 1 \in T
    BY <1>4
  <2>2. QED
    BY <1>2, <1>3, <2>1, UpTo
<1>6. PICK f : Chain(f, N)
  BY <1>2, <1>5 DEF T
<1>7. PICK g : g = DeclaredNames(r, pairs) /\ Chain(g, N)
  BY <1>1, <1>6 DEF DeclaredNames, N
<1>8. \A n \in 0 .. N : g[n] = IF n = 0 THEN base ELSE Declare(r, g[n - 1], pairs[n])
  BY <1>7
<1>9. NamesFit(r, pairs, 0, base)
  <2>1. 1 .. 0 = {}
    OBVIOUS
  <2>2. \A name \in DOMAIN base : base[name] \in PinnedBy(pairs) /\ ~isOpenaiModelName(r, name)
    BY <1>1, FamilyNamesFacts DEF PinnedBy, Pinned
  <2>3. QED
    BY <2>1, <2>2 DEF NamesFit
<1> DEFINE U == {n \in 0 .. N : NamesFit(r, pairs, n, g[n])}
<1>10. 0 \in U
  BY <1>2, <1>8, <1>9
<1>11. ASSUME NEW n \in 0 .. N - 1, n \in U PROVE n + 1 \in U
  <2>1. n + 1 \in 0 .. N /\ n + 1 # 0 /\ (n + 1) - 1 = n /\ n + 1 \in DOMAIN pairs
    BY <1>2
  <2>2. g[n + 1] = Declare(r, g[n], pairs[n + 1])
    BY <1>8, <2>1
  <2>3. NamesFit(r, pairs, (n + 1) - 1, g[n])
    BY <1>11, <2>1
  <2>4. NamesFit(r, pairs, n + 1, Declare(r, g[n], pairs[n + 1]))
    BY <2>1, <2>3, DeclareFits
  <2>5. QED
    BY <2>1, <2>2, <2>4
<1> HIDE DEF U
<1>12. \A n \in 0 .. N : n \in U
  <2>1. \A n \in 0 .. N - 1 : n \in U => n + 1 \in U
    BY <1>11
  <2>2. QED
    BY <1>2, <1>10, <2>1, UpTo
<1>13. N \in U
  BY <1>2, <1>12
<1>14. QED
  BY <1>7, <1>13 DEF U, N

LEMMA ResolverFacts ==
  ASSUME NEW r, RegistryFits(r), NEW pairs, ClaudeAliasesFit(r, pairs), NEW N, N = claudeResolver(r, pairs)
  PROVE  /\ \A id \in PinnedBy(pairs) :
              /\ id \in DOMAIN N /\ N[id] = id
              /\ ClaudeName(id) \in DOMAIN N /\ N[ClaudeName(id)] = id
         /\ NamesFit(r, pairs, Len(pairs), N)
<1>1. PICK targets, M, P : /\ targets = {pair.target : pair \in {p \in ToSet(pairs) : validClaudeAlias(r, p)}}
                           /\ M = DeclaredNames(r, pairs)[Len(pairs)] /\ P = PinnedBy(pairs)
  OBVIOUS
<1>2. targets = TargetsOf(pairs)
  BY <1>1, ClaudeAliasParts DEF TargetsOf
<1>3. P = Pinned(targets)
  BY <1>1, <1>2 DEF PinnedBy
<1>4. PICK m, S : m = [id \in P |-> id] /\ S = Spelled(m)
  OBVIOUS
<1>5. N = Atop(S, M)
  BY <1>1, <1>3, <1>4 DEF claudeResolver, PinIds
<1>6. \A id \in P : /\ id \in Seq(Words) /\ id # <<>> /\ Head(id) \in ClaudeWords
                    /\ ~isOpenaiModelName(r, id) /\ ~isOpenaiModelName(r, ClaudeName(id))
  <2>1. ASSUME NEW id \in P
        PROVE  id \in Seq(Words) /\ id # <<>> /\ Head(id) \in ClaudeWords /\ ~isOpenaiModelName(r, id)
    <3>1. CASE id \in CatalogIds
      <4>1. id \in Seq(Words) /\ id # <<>> /\ Head(id) \in ClaudeWords
        BY <3>1, CatalogParts DEF CatalogIds
      <4>2. Head(id) # "codex"
        BY <4>1, WordsAssumption
      <4>3. QED
        BY <4>1, <4>2, ClaudeNotOpenai
    <3>2. CASE id \in TargetsOf(pairs)
      <4>1. PICK pair \in ToSet(pairs) : id = pair.target
        BY <3>2 DEF TargetsOf
      <4>2. QED
        BY <4>1, ClaudeAliasParts
    <3>3. QED
      BY <1>2, <1>3, <3>1, <3>2 DEF Pinned
  <2>2. QED
    BY <2>1, ClaudeNotOpenai
<1>7. DOMAIN m = P /\ \A id \in P : m[id] = id
  BY <1>4
<1>8. \A id \in P : ClaudeName(id) \notin P
  BY <1>6, ClaudeNameFacts
<1>9. /\ DOMAIN S = P \cup {ClaudeName(id) : id \in P}
      /\ \A id \in P : S[id] = id /\ S[ClaudeName(id)] = id
  <2>1. DOMAIN m \subseteq Seq(Words)
    BY <1>6, <1>7
  <2>2. /\ DOMAIN S = DOMAIN m \cup {ClaudeName(x) : x \in DOMAIN m}
        /\ \A x \in DOMAIN m : S[x] = m[x]
        /\ \A x \in DOMAIN m : ClaudeName(x) \notin DOMAIN m => S[ClaudeName(x)] = m[x]
    BY <1>4, <2>1, SpelledFacts
  <2>3. QED
    BY <1>7, <1>8, <2>2
<1>10. /\ DOMAIN N = DOMAIN S \cup DOMAIN M
       /\ \A k \in DOMAIN S : N[k] = S[k]
       /\ \A k \in DOMAIN M : k \notin DOMAIN S => N[k] = M[k]
  <2>1. /\ DOMAIN Atop(S, M) = DOMAIN S \cup DOMAIN M /\ \A k \in DOMAIN S : Atop(S, M)[k] = S[k]
        /\ \A k \in DOMAIN M : k \notin DOMAIN S => Atop(S, M)[k] = M[k]
    BY AtopFacts
  <2>2. QED
    BY <1>5, <2>1
<1>11. NamesFit(r, pairs, Len(pairs), M)
  BY <1>1, DeclaredNamesFit
<1>12. \A id \in P : /\ id \in DOMAIN N /\ N[id] = id
                     /\ ClaudeName(id) \in DOMAIN N /\ N[ClaudeName(id)] = id
  BY <1>9, <1>10
<1>13. \A name \in DOMAIN S : S[name] \in P /\ ~isOpenaiModelName(r, name)
  BY <1>6, <1>9
<1>14. \A name \in DOMAIN N : N[name] \in P /\ ~isOpenaiModelName(r, name)
  BY <1>1, <1>10, <1>11, <1>13 DEF NamesFit
<1>15. ASSUME NEW k \in 1 .. Len(pairs), pairs[k].alias \notin Overruled(pairs)
       PROVE  pairs[k].alias \in DOMAIN N /\ N[pairs[k].alias] = pairs[k].target
  <2>1. pairs[k].alias \in DOMAIN M /\ M[pairs[k].alias] = pairs[k].target
    BY <1>11, <1>15 DEF NamesFit
  <2>2. pairs[k].alias \notin DOMAIN S
    BY <1>1, <1>9, <1>15 DEF Overruled
  <2>3. QED
    BY <1>10, <2>1, <2>2
<1>16. NamesFit(r, pairs, Len(pairs), N)
  BY <1>1, <1>14, <1>15 DEF NamesFit
<1>17. QED
  BY <1>1, <1>12, <1>16

LEMMA ClaudeRowsFacts ==
  ASSUME NEW r, RegistryFits(r), NEW pairs, ClaudeAliasesFit(r, pairs), NEW N, N = claudeResolver(r, pairs),
         NEW rows, rows = claudeModelRows(r, pairs)
  PROVE  /\ DOMAIN rows = PinnedBy(pairs)
         /\ \A id \in PinnedBy(pairs) : \A a \in rows[id] : a \in Overruled(pairs) \/ N[a] = id
<1> DEFINE R(id) == {model.family : model \in {m \in ToSet(Catalog) : m.id = id /\ N[m.family] = id}}
                      \cup {pair.alias : pair \in {p \in ToSet(pairs) : p.target = id}}
<1>1. rows = [id \in CatalogIds \cup {pair.target : pair \in ToSet(pairs)} |-> R(id)]
  BY DEF claudeModelRows
<1>2. PinnedBy(pairs) = CatalogIds \cup {pair.target : pair \in ToSet(pairs)}
  BY DEF PinnedBy, Pinned, TargetsOf
<1>3. ASSUME NEW id, NEW a \in R(id) PROVE a \in Overruled(pairs) \/ N[a] = id
  <2>1. CASE \E pair \in ToSet(pairs) : pair.target = id /\ a = pair.alias
    <3>1. PICK pair \in ToSet(pairs) : pair.target = id /\ a = pair.alias
      BY <2>1
    <3>2. PICK n \in 1 .. Len(pairs) : pairs[n] = pair
      BY ClaudeAliasParts
    <3>3. NamesFit(r, pairs, Len(pairs), N)
      BY ResolverFacts
    <3>4. QED
      BY <3>1, <3>2, <3>3 DEF NamesFit
  <2>2. QED
    BY <1>3, <2>1
<1> HIDE DEF R
<1>4. QED
  BY <1>1, <1>2, <1>3

LEMMA ClaudeNamesKept == NamesIInv => ClaudeNamesHold
<1> SUFFICES ASSUME NamesIInv PROVE ClaudeNamesHold
  OBVIOUS
<1>1. PICK r, pairs, N, rows : r = registry /\ pairs = claudeAliases /\ N = names /\ rows = claudeModelRows(r, pairs)
  OBVIOUS
<1>2. RegistryFits(r) /\ ClaudeAliasesFit(r, pairs) /\ N = claudeResolver(r, pairs)
  BY <1>1 DEF NamesIInv
<1>3. PICK pinned, overruled : pinned = PinnedBy(pairs) /\ overruled = Overruled(pairs)
  OBVIOUS
<1>4. /\ \A id \in pinned : N[id] = id /\ N[ClaudeName(id)] = id
      /\ \A name \in DOMAIN N : N[name] \in pinned /\ ~isOpenaiModelName(r, name)
  BY <1>2, <1>3, ResolverFacts DEF NamesFit
<1>5. \A id \in pinned : id \in DOMAIN N /\ Head(id) \in ClaudeWords /\ ~isOpenaiModelName(r, id)
  <2>1. \A id \in CatalogIds : Head(id) \in ClaudeWords
    BY CatalogParts DEF CatalogIds
  <2>2. \A id \in TargetsOf(pairs) : Head(id) \in ClaudeWords
    BY <1>2, ClaudeAliasParts DEF TargetsOf
  <2>3. \A id \in pinned : id \in DOMAIN N
    BY <1>2, <1>3, ResolverFacts
  <2>4. QED
    BY <1>3, <1>4, <2>1, <2>2, <2>3 DEF PinnedBy, Pinned
<1>6. DOMAIN rows = pinned /\ \A id \in pinned : \A a \in rows[id] : a \in overruled \/ N[a] = id
  BY <1>1, <1>2, <1>3, ClaudeRowsFacts
<1>7. PICK slugs, present : present = Ids(r) /\ slugs = augmentCodexModels(r, pairs, present)
  OBVIOUS
<1>8. \A entry \in slugs : entry.id \in pinned /\ (entry.slug = entry.id \/ entry.slug \in rows[entry.id])
  <2>1. slugs \subseteq UNION {[slug : {id} \cup rows[id], id : {id}] : id \in CatalogIds}
    BY <1>1, <1>7 DEF augmentCodexModels
  <2>2. ASSUME NEW entry \in slugs PROVE entry.id \in pinned /\ (entry.slug = entry.id \/ entry.slug \in rows[entry.id])
    <3>1. PICK id \in CatalogIds : entry \in [slug : {id} \cup rows[id], id : {id}]
      BY <2>1
    <3>2. entry.id = id /\ entry.slug \in {id} \cup rows[id]
      BY <3>1
    <3>3. id \in pinned
      BY <1>3 DEF PinnedBy, Pinned
    <3>4. QED
      BY <3>2, <3>3
  <2>3. QED
    BY <2>2
<1>9. \A entry \in slugs : entry = [slug |-> entry.slug, id |-> entry.id]
  BY <1>7 DEF augmentCodexModels
<1>10. \A entry \in slugs : entry.slug \in overruled \/ N[entry.slug] = entry.id
  <2>1. pinned \subseteq overruled
    BY <1>3 DEF Overruled
  <2>2. QED
    BY <1>6, <1>8, <2>1
<1>11. \A entry, other \in slugs :
         entry.slug \notin overruled /\ other.slug = entry.slug => other = entry
  BY <1>9, <1>10
<1>12. ASSUME NEW name \in Names, isClaudeModelName(name)
       PROVE  decideCodexRoute(FALSE, resolveName(N, name)).kind # "parent"
  BY <1>12 DEF resolveName, decideCodexRoute
<1>13. /\ pinned = CatalogIds \cup {pair.target : pair \in ToSet(pairs)}
       /\ overruled = pinned \cup {ClaudeName(name) : name \in pinned \cup {pair.alias : pair \in ToSet(pairs)}}
  BY <1>3 DEF PinnedBy, Pinned, TargetsOf, Overruled
<1> DEFINE AllOfIt ==
      /\ \A id \in pinned : N[id] = id /\ N[ClaudeName(id)] = id
      /\ \A name \in DOMAIN N :
           /\ Head(N[name]) \in ClaudeWords
           /\ ~isOpenaiModelName(r, name) /\ ~isOpenaiModelName(r, N[name])
      /\ \A id \in DOMAIN rows : \A a \in rows[id] : a \in overruled \/ N[a] = id
      /\ \A entry \in slugs : entry.slug \in overruled \/
           /\ N[entry.slug] = entry.id
           /\ \A other \in slugs : other.slug = entry.slug => other = entry
      /\ \A name \in Names : isClaudeModelName(name) =>
           decideCodexRoute(FALSE, resolveName(N, name)).kind # "parent"
<1>14. AllOfIt
  BY <1>4, <1>5, <1>6, <1>10, <1>11, <1>12
<1>15. QED
  BY <1>1, <1>7, <1>13, <1>14 DEF ClaudeNamesHold

(***************************************************************************)
(* The invariant holds initially and every edit and release preserves it.  *)
(***************************************************************************)
LEMMA PairsOfConfig ==
  /\ ToSet(Providers) \subseteq Words
  /\ Pairs(AliasNames, Targets) \subseteq Pairs(Seq(Words), Seq(Words))
<1>1. \A name \in AliasNames \cup Targets : name \in Seq(Words)
  BY AliasAssumption DEF IsName
<1>2. QED
  BY <1>1, RegistryAssumption DEF Pairs

LEMMA SetKeyTyped ==
  ASSUME NEW S, NEW pairs \in Seq(S), NEW pair \in S
  PROVE  SetKey(pairs, pair) \in Seq(S) /\ ToSet(SetKey(pairs, pair)) \subseteq ToSet(pairs) \cup {pair}
<1>1. Len(pairs) \in Nat /\ DOMAIN pairs = 1 .. Len(pairs) /\ \A n \in 1 .. Len(pairs) : pairs[n] \in S
  OBVIOUS
<1>2. CASE \E k \in DOMAIN pairs : pairs[k].alias = pair.alias
  <2> DEFINE s == [k \in 1 .. Len(pairs) |-> IF pairs[k].alias = pair.alias THEN pair ELSE pairs[k]]
  <2>1. SetKey(pairs, pair) = s
    BY <1>1, <1>2 DEF SetKey
  <2>2. s \in Seq(S)
    <3>1. \A k \in 1 .. Len(pairs) : (IF pairs[k].alias = pair.alias THEN pair ELSE pairs[k]) \in S
      BY <1>1
    <3>2. QED
      BY <1>1, <3>1
  <2>3. DOMAIN s = 1 .. Len(pairs) /\ \A k \in 1 .. Len(pairs) : s[k] = pair \/ s[k] = pairs[k]
    OBVIOUS
  <2> HIDE DEF s
  <2>4. ToSet(s) \subseteq ToSet(pairs) \cup {pair}
    BY <1>1, <2>3 DEF ToSet
  <2>5. QED
    BY <2>1, <2>2, <2>4
<1>3. CASE ~\E k \in DOMAIN pairs : pairs[k].alias = pair.alias
  <2>1. SetKey(pairs, pair) = Append(pairs, pair)
    BY <1>3 DEF SetKey
  <2>2. QED
    BY <2>1, SetOfAppend
<1>4. QED
  BY <1>2, <1>3

LEMMA SetKeyDistinct ==
  ASSUME NEW S, NEW pairs \in Seq(S), NEW pair \in S,
         \A i, j \in DOMAIN pairs : pairs[i].alias = pairs[j].alias => i = j
  PROVE  \A i, j \in DOMAIN SetKey(pairs, pair) :
           SetKey(pairs, pair)[i].alias = SetKey(pairs, pair)[j].alias => i = j
<1>1. Len(pairs) \in Nat /\ DOMAIN pairs = 1 .. Len(pairs)
  OBVIOUS
<1>2. PICK s : s = SetKey(pairs, pair)
  OBVIOUS
<1>3. CASE \E k \in DOMAIN pairs : pairs[k].alias = pair.alias
  <2>1. s = [k \in DOMAIN pairs |-> IF pairs[k].alias = pair.alias THEN pair ELSE pairs[k]]
    BY <1>2, <1>3 DEF SetKey
  <2>2. DOMAIN s = DOMAIN pairs /\ \A k \in DOMAIN pairs : s[k].alias = pairs[k].alias
    BY <2>1
  <2>3. \A i, j \in DOMAIN s : s[i].alias = s[j].alias => i = j
    BY <2>2
  <2>4. QED
    BY <1>2, <2>3
<1>4. CASE ~\E k \in DOMAIN pairs : pairs[k].alias = pair.alias
  <2>1. s = Append(pairs, pair)
    BY <1>2, <1>4 DEF SetKey
  <2>2. DOMAIN s = 1 .. Len(pairs) + 1 /\ s[Len(pairs) + 1] = pair /\ \A n \in 1 .. Len(pairs) : s[n] = pairs[n]
    BY <1>1, <2>1
  <2>3. \A n \in DOMAIN s : n \in 1 .. Len(pairs) \/ n = Len(pairs) + 1
    BY <1>1, <2>2
  <2>4. ASSUME NEW i \in DOMAIN s, NEW j \in DOMAIN s, s[i].alias = s[j].alias PROVE i = j
    <3>1. CASE i \in 1 .. Len(pairs) /\ j \in 1 .. Len(pairs)
      BY <1>1, <2>2, <2>4, <3>1
    <3>2. CASE i \in 1 .. Len(pairs) /\ j = Len(pairs) + 1
      BY <1>1, <1>4, <2>2, <2>4, <3>2
    <3>3. CASE i = Len(pairs) + 1 /\ j \in 1 .. Len(pairs)
      BY <1>1, <1>4, <2>2, <2>4, <3>3
    <3>4. QED
      BY <2>3, <3>1, <3>2, <3>3
  <2>5. QED
    BY <1>2, <2>4
<1>5. QED
  BY <1>3, <1>4

LEMMA InitNames == NamesInit => NamesIInv
<1> SUFFICES ASSUME NamesInit PROVE NamesIInv
  OBVIOUS
<1>1. registry \in Registries /\ aliases \in StartAliases /\ claudeAliases = <<>>
      /\ table = buildRoutingTable(registry, aliases) /\ names = claudeResolver(registry, claudeAliases)
  BY DEF NamesInit, Build
<1>2. PICK r : r = registry
  OBVIOUS
<1>3. r \in Seq(Entries) /\ \A i, j \in DOMAIN r : r[i].id = r[j].id => i = j
  BY <1>1, <1>2, RegistryAssumption
<1>4. \A e \in Entries : e \in Model
  BY RegistryAssumption DEF Model
<1>5. r \in Seq(Model)
  <2>1. Len(r) \in Nat /\ \A n \in 1 .. Len(r) : r[n] \in Model
    BY <1>3, <1>4
  <2>2. r = [n \in 1 .. Len(r) |-> r[n]]
    BY <1>3
  <2>3. QED
    BY <2>1, <2>2
<1>6. ToSet(r) \subseteq Entries
  BY <1>3, SetOfSequence
<1>7. \A e \in ToSet(r) : \E f \in Entries : Like(e, f)
  BY <1>6 DEF Like
<1>8. RegistryFits(registry)
  BY <1>2, <1>3, <1>5, <1>7 DEF RegistryFits
<1>9. aliases \in AliasMaps
  BY <1>1, AliasAssumption DEF AliasMaps
<1>10. ClaudeAliasesFit(registry, claudeAliases)
  <2>1. DOMAIN claudeAliases = {} /\ ToSet(claudeAliases) = {}
    BY <1>1 DEF ToSet
  <2>2. claudeAliases \in Seq(Pairs(ClaudeAliasNames, ClaudeTargets))
    BY <1>1
  <2>3. QED
    BY <2>1, <2>2 DEF ClaudeAliasesFit
<1>11. QED
  BY <1>1, <1>8, <1>9, <1>10 DEF NamesIInv, buildRoutingTable

(* What the edits of the configuration leave alone.                        *)
LEMMA GrownSame ==
  ASSUME NEW r
  PROVE  Grown(r, r)
BY DEF Grown

LEMMA Rebuilt ==
  ASSUME Rebuild
  PROVE  /\ table' = tableOf(registry', Bound(aliases'))
         /\ names' = claudeResolver(registry', claudeAliases')
BY DEF Rebuild, buildRoutingTable

LEMMA DeclareAliasKeeps ==
  ASSUME NamesIInv, NEW provider \in ToSet(Providers), NEW pair \in Pairs(AliasNames, Targets),
         DeclareAlias(provider, pair)
  PROVE  NamesIInv' /\ Grown(registry, registry')
<1>1. registry' = registry /\ claudeAliases' = claudeAliases /\ Rebuild
      /\ aliases' = [aliases EXCEPT ![provider] = SetKey(aliases[provider], pair)]
  BY DEF DeclareAlias
<1>2. aliases \in AliasMaps /\ RegistryFits(registry) /\ ClaudeAliasesFit(registry, claudeAliases)
  BY DEF NamesIInv
<1>3. PICK K : K = SetKey(aliases[provider], pair)
  OBVIOUS
<1>4. K \in Seq(Pairs(Seq(Words), Seq(Words)))
  BY <1>2, <1>3, PairsOfConfig, SetKeyTyped DEF AliasMaps
<1>5. aliases' \in AliasMaps
  <2>1. aliases' = [aliases EXCEPT ![provider] = K]
    BY <1>1, <1>3
  <2>2. QED
    BY <1>2, <1>4, <2>1 DEF AliasMaps
<1>6. QED
  BY <1>1, <1>2, <1>5, Rebuilt, GrownSame DEF NamesIInv

LEMMA DropAliasKeeps ==
  ASSUME NamesIInv, NEW provider \in ToSet(Providers), NEW k, DropAlias(provider, k)
  PROVE  NamesIInv' /\ Grown(registry, registry')
<1>1. registry' = registry /\ claudeAliases' = claudeAliases /\ Rebuild
      /\ aliases' = [aliases EXCEPT ![provider] = RemoveAt(aliases[provider], k)]
      /\ k \in DOMAIN aliases[provider]
  BY DEF DropAlias
<1>2. aliases \in AliasMaps /\ RegistryFits(registry) /\ ClaudeAliasesFit(registry, claudeAliases)
  BY DEF NamesIInv
<1>3. PICK K, s : K = RemoveAt(s, k) /\ s = aliases[provider]
  OBVIOUS
<1>4. s \in Seq(Pairs(Seq(Words), Seq(Words))) /\ k \in 1 .. Len(s)
  BY <1>1, <1>2, <1>3 DEF AliasMaps
<1>5. K \in Seq(Pairs(Seq(Words), Seq(Words)))
  BY <1>3, <1>4, RemoveAtFacts
<1>6. aliases' \in AliasMaps
  <2>1. aliases' = [aliases EXCEPT ![provider] = K]
    BY <1>1, <1>3
  <2>2. QED
    BY <1>2, <1>5, <2>1 DEF AliasMaps
<1>7. QED
  BY <1>1, <1>2, <1>6, Rebuilt, GrownSame DEF NamesIInv

LEMMA DeclareClaudeAliasKeeps ==
  ASSUME NamesIInv, NEW pair \in Pairs(ClaudeAliasNames, ClaudeTargets), DeclareClaudeAlias(pair)
  PROVE  NamesIInv' /\ Grown(registry, registry')
<1>1. registry' = registry /\ aliases' = aliases /\ Rebuild /\ validClaudeAlias(registry, pair)
      /\ claudeAliases' = SetKey(claudeAliases, pair)
  BY DEF DeclareClaudeAlias
<1>2. aliases \in AliasMaps /\ RegistryFits(registry) /\ ClaudeAliasesFit(registry, claudeAliases)
  BY DEF NamesIInv
<1>3. PICK pairs, K : pairs = claudeAliases /\ K = SetKey(pairs, pair)
  OBVIOUS
<1>4. /\ pairs \in Seq(Pairs(ClaudeAliasNames, ClaudeTargets))
      /\ \A i, j \in DOMAIN pairs : pairs[i].alias = pairs[j].alias => i = j
      /\ \A other \in ToSet(pairs) : validClaudeAlias(registry, other)
  BY <1>2, <1>3 DEF ClaudeAliasesFit
<1>5. K \in Seq(Pairs(ClaudeAliasNames, ClaudeTargets)) /\ ToSet(K) \subseteq ToSet(pairs) \cup {pair}
  BY <1>3, <1>4, SetKeyTyped
<1>6. \A i, j \in DOMAIN K : K[i].alias = K[j].alias => i = j
  BY <1>3, <1>4, SetKeyDistinct
<1>7. \A other \in ToSet(K) : validClaudeAlias(registry, other)
  BY <1>1, <1>4, <1>5
<1>8. ClaudeAliasesFit(registry, K)
  BY <1>5, <1>6, <1>7 DEF ClaudeAliasesFit
<1>9. claudeAliases' = K
  BY <1>1, <1>3
<1>10. QED
  BY <1>1, <1>2, <1>8, <1>9, Rebuilt, GrownSame DEF NamesIInv

LEMMA ReleaseKeeps ==
  ASSUME NamesIInv, NEW entry \in NewEntries, Release(entry)
  PROVE  NamesIInv' /\ Grown(registry, registry')
<1>1. PICK r, s : r = registry /\ s = registry'
  OBVIOUS
<1>2. aliases' = aliases /\ claudeAliases' = claudeAliases /\ Rebuild
      /\ entry.id \notin Ids(r) /\ s = Append(r, entry)
      /\ \A pair \in ToSet(claudeAliases) : validClaudeAlias(s, pair)
  BY <1>1 DEF Release
<1>3. aliases \in AliasMaps /\ RegistryFits(r) /\ ClaudeAliasesFit(r, claudeAliases)
  BY <1>1 DEF NamesIInv
<1>4. entry \in Entries /\ entry \in Model
  <2>1. entry \in Entries
    BY DEF Entries
  <2>2. QED
    BY <2>1, RegistryAssumption DEF Model
<1>5. r \in Seq(Model)
  BY <1>3 DEF RegistryFits
<1>6. /\ Len(r) \in Nat /\ DOMAIN r = 1 .. Len(r) /\ DOMAIN s = 1 .. Len(r) + 1
      /\ s[Len(r) + 1] = entry /\ \A n \in 1 .. Len(r) : s[n] = r[n]
  BY <1>2, <1>4, <1>5
<1>7. s \in Seq(Model) /\ ToSet(s) = ToSet(r) \cup {entry}
  BY <1>2, <1>4, <1>5, SetOfAppend
<1>8. \A n \in DOMAIN r : r[n].id # entry.id
  <2>1. \A n \in DOMAIN r : r[n] \in ToSet(r)
    BY <1>3, RegistryParts
  <2>2. QED
    BY <1>2, <2>1 DEF Ids
<1>9. \A n \in DOMAIN s : n \in DOMAIN r \/ n = Len(r) + 1
  BY <1>6
<1>10. ASSUME NEW i \in DOMAIN s, NEW j \in DOMAIN s, s[i].id = s[j].id PROVE i = j
  <2>1. CASE i \in DOMAIN r /\ j \in DOMAIN r
    BY <1>3, <1>6, <1>10, <2>1 DEF RegistryFits
  <2>2. CASE i \in DOMAIN r /\ j = Len(r) + 1
    BY <1>6, <1>8, <1>10, <2>2
  <2>3. CASE i = Len(r) + 1 /\ j \in DOMAIN r
    BY <1>6, <1>8, <1>10, <2>3
  <2>4. QED
    BY <1>9, <2>1, <2>2, <2>3
<1>11. \A e \in ToSet(s) : \E f \in Entries : Like(e, f)
  BY <1>3, <1>4, <1>7 DEF RegistryFits, Like
<1>12. RegistryFits(s)
  BY <1>7, <1>10, <1>11 DEF RegistryFits
<1>13. ClaudeAliasesFit(s, claudeAliases)
  BY <1>2, <1>3 DEF ClaudeAliasesFit
<1>14. Grown(r, s)
  BY <1>6 DEF Grown
<1>15. QED
  BY <1>1, <1>2, <1>3, <1>12, <1>13, <1>14, Rebuilt DEF NamesIInv

LEMMA RetireKeeps ==
  ASSUME NamesIInv, NEW i, Retire(i)
  PROVE  NamesIInv' /\ Grown(registry, registry')
<1>1. PICK r, s : r = registry /\ s = registry'
  OBVIOUS
<1>2. aliases' = aliases /\ claudeAliases' = claudeAliases /\ Rebuild
      /\ i \in DOMAIN r /\ s = [r EXCEPT ![i] = [r[i] EXCEPT !.retired = TRUE]]
  BY <1>1 DEF Retire
<1>3. aliases \in AliasMaps /\ RegistryFits(r) /\ ClaudeAliasesFit(r, claudeAliases)
  BY <1>1 DEF NamesIInv
<1>4. PICK e, g : e = r[i] /\ g = [r[i] EXCEPT !.retired = TRUE]
  OBVIOUS
<1>5. e \in Model /\ e \in ToSet(r)
  BY <1>2, <1>3, <1>4, RegistryParts
<1>6. g \in Model /\ g.id = e.id /\ g.family = e.family /\ g.provider = e.provider
  BY <1>4, <1>5 DEF Model
<1>7. r \in Seq(Model) /\ Len(r) \in Nat /\ DOMAIN r = 1 .. Len(r)
  BY <1>3, RegistryParts DEF RegistryFits
<1>8. s = [r EXCEPT ![i] = g]
  BY <1>2, <1>4
<1>9. s \in Seq(Model) /\ DOMAIN s = DOMAIN r /\ s[i] = g /\ \A n \in DOMAIN r : n # i => s[n] = r[n]
  <2>1. DOMAIN s = 1 .. Len(r) /\ s[i] = g /\ \A n \in 1 .. Len(r) : n # i => s[n] = r[n]
    BY <1>2, <1>7, <1>8
  <2>2. \A n \in 1 .. Len(r) : s[n] \in Model
    BY <1>6, <1>7, <2>1
  <2>3. s = [n \in 1 .. Len(r) |-> s[n]]
    BY <1>7, <1>8
  <2>4. s \in Seq(Model)
    BY <1>7, <2>2, <2>3
  <2>5. QED
    BY <1>7, <2>1, <2>4
<1>10. \A n \in DOMAIN r : Like(s[n], r[n])
  BY <1>4, <1>6, <1>9 DEF Like
<1>11. \A n \in DOMAIN r : s[n].id = r[n].id /\ s[n].family = r[n].family /\ s[n].provider = r[n].provider
  BY <1>10 DEF Like
<1>12. \A m, n \in DOMAIN s : s[m].id = s[n].id => m = n
  BY <1>3, <1>9, <1>11 DEF RegistryFits
<1>13. \A x \in ToSet(s) : \E n \in DOMAIN r : s[n] = x
  BY <1>9, SetOfSequence
<1>14. \A x \in ToSet(s) : \E y \in ToSet(r) : Like(x, y)
  <2>1. \A n \in DOMAIN r : r[n] \in ToSet(r)
    BY <1>3, RegistryParts
  <2>2. QED
    BY <1>10, <1>13, <2>1
<1>15. \A x \in ToSet(s) : \E f \in Entries : Like(x, f)
  BY <1>3, <1>14 DEF RegistryFits, Like
<1>16. RegistryFits(s)
  BY <1>9, <1>12, <1>15 DEF RegistryFits
<1>17. \A name : isOpenaiModelName(s, name) => isOpenaiModelName(r, name)
  BY <1>14 DEF isOpenaiModelName, Like
<1>18. ClaudeAliasesFit(s, claudeAliases)
  BY <1>3, <1>17 DEF ClaudeAliasesFit, validClaudeAlias
<1>19. Grown(r, s)
  BY <1>9, <1>11 DEF Grown
<1>20. QED
  BY <1>1, <1>2, <1>3, <1>16, <1>18, <1>19, Rebuilt DEF NamesIInv

LEMMA StepNames == NamesIInv /\ [NamesNext]_namesVars => NamesIInv' /\ Grown(registry, registry')
<1> SUFFICES ASSUME NamesIInv, [NamesNext]_namesVars PROVE NamesIInv' /\ Grown(registry, registry')
  OBVIOUS
<1>1. ASSUME NEW p \in ToSet(Providers), NEW pair \in Pairs(AliasNames, Targets), DeclareAlias(p, pair)
      PROVE  NamesIInv' /\ Grown(registry, registry')
  BY <1>1, DeclareAliasKeeps
<1>2. ASSUME NEW p \in ToSet(Providers), NEW k \in 1 .. MaxChanges, DropAlias(p, k)
      PROVE  NamesIInv' /\ Grown(registry, registry')
  BY <1>2, DropAliasKeeps
<1>3. ASSUME NEW pair \in Pairs(ClaudeAliasNames, ClaudeTargets), DeclareClaudeAlias(pair)
      PROVE  NamesIInv' /\ Grown(registry, registry')
  BY <1>3, DeclareClaudeAliasKeeps
<1>4. ASSUME NEW entry \in NewEntries, Release(entry)
      PROVE  NamesIInv' /\ Grown(registry, registry')
  BY <1>4, ReleaseKeeps
<1>5. ASSUME NEW i \in 1 .. Len(registry), Retire(i)
      PROVE  NamesIInv' /\ Grown(registry, registry')
  BY <1>5, RetireKeeps
<1>6. CASE UNCHANGED namesVars
  BY <1>6, GrownSame DEF namesVars, NamesIInv
<1>7. QED
  BY <1>1, <1>2, <1>3, <1>4, <1>5, <1>6 DEF NamesNext

(* Whatever is edited and whatever a release brings, the tables of the     *)
(* server that runs are those of its registry and configuration, the       *)
(* registry names its models once each, and no accepted alias of Claude's  *)
(* takes a name of OpenAI's.                                               *)
THEOREM NamesInvariance == NamesSpec => []NamesIInv
<1>1. NamesIInv /\ [NamesNext]_namesVars => NamesIInv'
  BY StepNames
<1>2. QED
  BY InitNames, <1>1, PTL DEF NamesSpec

(* No alias, family or target ever takes over what an id means, on either  *)
(* leg (resolveModel() and createClaudeModelResolver()), for any registry, *)
(* catalog and sequence of edits.                                          *)
THEOREM NamesHoldAlways == NamesSpec => []NamesHold
<1>1. NamesIInv => NamesHold
  BY PinnedNames, ClaudeNamesKept DEF NamesHold
<1>2. QED
  BY NamesInvariance, <1>1, PTL

(* What buildAliasRows() and buildModelRows() list is what resolveModel()  *)
(* routes, and checkAgentModels() reports exactly the names it does not.   *)
THEOREM ShownIsRoutedAlways == NamesSpec => []ShownIsRouted
BY NamesInvariance, ShownNames, PTL

(* An edit of an alias, a release or a retirement changes the meaning of   *)
(* no name but the ones it names: every other name that buildRoutingTable()*)
(* had resolved resolves to the same model afterwards.                     *)
THEOREM EditsAreLocal == NamesSpec => EditIsLocal
<1> DEFINE Local == \A bound \in {ToSet(Bound(aliases))} :
                    \A changed \in {Difference(bound, ToSet(Bound(aliases')))} :
                    \A named \in {Named(changed, bound, Difference(ToSet(registry), ToSet(registry')))} :
                      \A name \in Names \ named : resolveModel(table, name).kind = "resolved" =>
                        resolveModel(table, name) = resolveModel(table', name)
<1>1. NamesIInv /\ [NamesNext]_namesVars => [Local]_namesVars
  <2> SUFFICES ASSUME NamesIInv, [NamesNext]_namesVars PROVE Local
    OBVIOUS
  <2>1. NamesIInv' /\ Grown(registry, registry')
    BY StepNames
  <2>2. PICK r, s, b, c, T, V : /\ r = registry /\ s = registry' /\ b = Bound(aliases) /\ c = Bound(aliases')
                                /\ T = table /\ V = table'
    OBVIOUS
  <2>3. RegistryFits(r) /\ RegistryFits(s) /\ Grown(r, s) /\ T = tableOf(r, b) /\ V = tableOf(s, c)
    BY <2>1, <2>2 DEF NamesIInv
  <2>4. BoundFits(b) /\ BoundFits(c)
    <3>1. aliases \in AliasMaps /\ aliases' \in AliasMaps
      BY <2>1 DEF NamesIInv, AliasMaps
    <3>2. QED
      BY <2>2, <3>1, BoundFitsAlways DEF AliasMaps
  <2>5. PICK changed, entries : /\ changed = Difference(ToSet(b), ToSet(c))
                                /\ entries = Difference(ToSet(r), ToSet(s))
    OBVIOUS
  <2>6. ASSUME NEW name \in Names, name \notin Named(changed, ToSet(b), entries), resolveModel(T, name).kind = "resolved"
        PROVE  resolveModel(T, name) = resolveModel(V, name)
    <3>1. Unnamed(name, r, b, changed, entries)
      <4>1. BoundFits(Bound(aliases)) /\ name \notin Named(changed, ToSet(Bound(aliases)), entries)
        BY <2>2, <2>4, <2>6
      <4>2. Unnamed(name, registry, Bound(aliases), changed, entries)
        BY <4>1, NotNamed
      <4>3. QED
        BY <2>2, <4>2
    <3>2. Unnamed(name, r, b, Difference(ToSet(b), ToSet(c)), Difference(ToSet(r), ToSet(s)))
      BY <2>5, <3>1
    <3>3. QED
      BY <2>3, <2>4, <2>6, <3>2, MeaningKept
  <2>7. QED
    BY <2>2, <2>5, <2>6
<1>2. QED
  BY NamesInvariance, <1>1, PTL DEF NamesSpec, EditIsLocal
=================================================================================
