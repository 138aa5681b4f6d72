------------------------------- MODULE Settings -------------------------------
(***************************************************************************)
(* The server's configuration: the file, the configuration in use, and the *)
(* clients that look at it, edit what they were shown and save it          *)
(* (runtime_service.py, config_defaults.py, config/schema.py).  Clients    *)
(* are shown no secrets: the provider's key is left out, the headers of    *)
(* MCP servers are shown with empty values, and an empty value that comes  *)
(* back stands for the saved one.                                          *)
(*                                                                         *)
(* JSON objects are functions whose domain is the keys they have, Null is  *)
(* null; a configuration has every key, Null where nothing is set.  URLs   *)
(* are left out: a server has one or lacks it.  `own` stands for a         *)
(* server's tool_timeout and enabled_tools, which clients are not shown.   *)
(***************************************************************************)
EXTENDS Naturals, Sequences, FiniteSets, SequencesExt, Dicts

CONSTANTS
  Clients,
  ServerNames,  \* names clients give MCP servers
  Files,        \* configurations the file may hold at first
  Requests,     \* updates clients of the API send, beside those of the web UI
  Null,
  MaxSaves, MaxEdits   \* bounds of the model

VARIABLES
  saved,    \* the configuration file
  config,   \* the configuration of the runtime, Null while the server is down
  shown,    \* shown[c]: the page c was shown last, and after which update
  draft,    \* draft[c]: its edited server list; `from`: the place it was shown at
  saving,   \* the update under way, which holds the lock
  last,     \* the last update that was made (history)
  saves, edits   \* how many updates were made, and edits

settingsVars == <<saved, config, shown, draft, saving, last, saves, edits>>

Sections == {"provider", "generation", "agent", "runtime"}
Keys == [provider   |-> {"type", "model", "api_key"},
         generation |-> {"max_completion_tokens", "temperature"},
         agent      |-> {"instructions", "skill_names"},
         runtime    |-> {"workspace", "max_iterations"}]
DefaultValues == [provider   |-> [type |-> "openai_chat_completions"],
                  generation |-> [max_completion_tokens |-> "default"],
                  runtime    |-> [max_iterations |-> "default"]]

-------------------------------------------------------------------------------
(* Configurations and JSON objects.                                            *)

Given(d, k) == k \in DOMAIN d /\ d[k] # Null
SectionOf(d, s) == IF Given(d, s) THEN d[s] ELSE <<>>

ToDict(c) ==
  Updated([s \in Sections |-> [k \in {j \in Keys[s] : c[s][j] # Null} |-> c[s][k]]],
          [mcp_servers |-> c.mcp_servers])

ServerOf(item) ==
  [name |-> item.name, url |-> item.url,
   headers |-> IF Given(item, "headers") THEN item.headers ELSE <<>>,
   own |-> IF Given(item, "own") THEN item.own ELSE "default"]

ServerList(d) == IF Given(d, "mcp_servers") THEN d.mcp_servers ELSE <<>>

\* What a section says of a key.  The type of the provider is always a text: its
\* default when it is not given, and of null, which it is when it is given as
\* null, the word None.
ValueOf(section, k) ==
  IF k # "type" THEN IF k \in DOMAIN section THEN section[k] ELSE Null
  ELSE IF k \notin DOMAIN section THEN DefaultValues.provider.type
  ELSE IF section[k] = Null THEN "None" ELSE section[k]

FromMapping(d) ==
  Updated([s \in Sections |-> [k \in Keys[s] |-> ValueOf(SectionOf(d, s), k)]],
          [mcp_servers |-> [i \in DOMAIN ServerList(d) |-> ServerOf(ServerList(d)[i])]])

\* ValueError: a server without a name or a URL.
Valid(d) == \A i \in DOMAIN ServerList(d) : Given(ServerList(d)[i], "name") /\ Given(ServerList(d)[i], "url")

\* apply_config_defaults.
WithDefaults(d) ==
  Updated(d, [s \in DOMAIN DefaultValues |->
                Updated(SectionOf(d, s),
                        [k \in {j \in DOMAIN DefaultValues[s] : ~Given(SectionOf(d, s), j)} |->
                           DefaultValues[s][k]])])

\* asdict writes every key.
LoadConfig(f) == FromMapping(WithDefaults(IF f = Null THEN <<>> ELSE ToDict(FromMapping(f))))

IsFunction(f) == f = [k \in DOMAIN f |-> f[k]]

\* Servers are told by their names (RuntimeTools), so no list has a name twice.
IsServerList(list) ==
  /\ list \in Seq({list[i] : i \in DOMAIN list})
  /\ \A i \in DOMAIN list : Given(list[i], "headers") => IsFunction(list[i].headers)
  /\ \A i, j \in DOMAIN list :
       Given(list[i], "name") /\ Given(list[j], "name") /\ list[i].name = list[j].name => i = j

ASSUME NullAssumption == Null # DefaultValues.provider.type

ASSUME ServersAssumption ==
  /\ \A d \in (Files \ {Null}) \union Requests : IsServerList(ServerList(d))
  /\ \A d \in Files \ {Null} : Valid(d)

Masked(headers) == [h \in DOMAIN headers |-> ""]

PublicConfig(c) ==
  [ToDict(c) EXCEPT
     !.provider = [k \in DOMAIN @ \ {"api_key"} |-> @[k]],
     !.runtime = Updated([workspace |-> "home"], @),
     !.mcp_servers = [i \in DOMAIN @ |->
        [name |-> @[i].name, url |-> @[i].url, headers |-> Masked(@[i].headers)]]]

-------------------------------------------------------------------------------
(* What an update makes of the configuration.                                  *)

\* A key of a section replaces its value, anything else is replaced as a whole.
MergePatch(base, patch) ==
  Updated(base, [k \in DOMAIN patch |->
                   IF k \in Sections /\ Given(patch, k) /\ Given(base, k)
                   THEN Updated(base[k], patch[k]) ELSE patch[k]])

Named(list, name) == {i \in DOMAIN list : list[i].name = name}

\* Mutant: by place alone.
ByPlace(list, i, item) == DOMAIN list \intersect {i}

\* The saved server an incoming one stands for: of its name, else at its place.
Namesake(list, i, item) ==
  LET same == IF Given(item, "name") THEN Named(list, item.name) ELSE {}
  IN CASE same # {} -> {Max(same)}
       [] same = {} /\ i \in DOMAIN list -> {i}
       [] OTHER -> {}

Restored(list, i, item) ==
  LET known(h) == {k \in Namesake(list, i, item) : h \in DOMAIN list[k].headers}
  IN IF ~Given(item, "headers") THEN item
     ELSE [item EXCEPT !.headers = [h \in DOMAIN @ |->
             IF @[h] = "" /\ known(h) # {} THEN list[Max(known(h))].headers[h] ELSE @[h]]]

RestoreMasked(current, patch) ==
  IF ~Given(patch, "mcp_servers") THEN patch
  ELSE [patch EXCEPT !.mcp_servers =
          [i \in DOMAIN @ |-> Restored(ServerList(current), i, @[i])]]

\* _mcp_test_config: the headers a test of this server sends; none if it is refused.
TestHeaders(current, item, original) ==
  LET list == ServerList(current)
      same == Named(list, IF original = Null THEN item.name ELSE original)
      known == IF same = {} THEN <<>> ELSE list[Min(same)].headers
      missing == {h \in DOMAIN item.headers : item.headers[h] = "" /\ h \notin DOMAIN known}
  IN IF ~Given(item, "name") \/ ~Given(item, "url") \/ missing # {} THEN {}
     ELSE {[h \in DOMAIN item.headers |->
              IF item.headers[h] = "" THEN known[h] ELSE item.headers[h]]}

-------------------------------------------------------------------------------
(* The server.                                                                 *)

Idle == [client |-> Null]

SettingsInit ==
  /\ saved \in Files /\ config = LoadConfig(saved)
  /\ shown = [c \in Clients |-> Null] /\ draft = [c \in Clients |-> <<>>]
  /\ saving = Idle /\ last = Idle /\ saves = 0 /\ edits = 0

\* The server list of the settings page as it opens.
Opened(view) ==
  [i \in DOMAIN view.mcp_servers |-> [item |-> view.mcp_servers[i], from |-> i]]

Show(c, new, n) ==
  /\ shown' = [shown EXCEPT ![c] = [page |-> PublicConfig(new), at |-> n]]
  /\ draft' = [draft EXCEPT ![c] = Opened(PublicConfig(new))]

Look(c) ==
  /\ config # Null /\ Show(c, config, saves)
  /\ UNCHANGED <<saved, config, saving, last, saves, edits>>

\* The web UI takes an edited or a new server over once a test of it succeeded.
Test(c, i, item) ==
  LET new == i = Len(draft[c]) + 1
      sent == TestHeaders(ToDict(config), item, IF new THEN Null ELSE draft[c][i].item.name)
  IN /\ config # Null /\ shown[c] # Null /\ edits < MaxEdits
     /\ \A j \in DOMAIN draft[c] \ {i} : draft[c][j].item.name # item.name
     /\ sent # {}
     /\ edits' = edits + 1
     /\ draft' = [draft EXCEPT ![c] =
          IF new THEN Append(@, [item |-> item, from |-> 0]) ELSE [@ EXCEPT ![i].item = item]]
     /\ UNCHANGED <<saved, config, shown, saving, last, saves>>

Delist(c, i) ==
  /\ edits < MaxEdits /\ i \in DOMAIN draft[c]
  /\ edits' = edits + 1
  /\ draft' = [draft EXCEPT ![c] = RemoveAt(@, i)]
  /\ UNCHANGED <<saved, config, shown, saving, last, saves>>

\* The whole page as it was shown, null where nothing was set, but for the server
\* list and a new key.
Page(c, key) ==
  LET page == shown[c].page
      own(s) == Keys[s] \ {"api_key"}
      section(s) == [k \in own(s) |-> IF Given(page[s], k) THEN page[s][k] ELSE Null]
  IN Updated([s \in Sections |-> IF s = "provider" THEN Updated(section(s), key) ELSE section(s)],
             [mcp_servers |-> [i \in DOMAIN draft[c] |-> draft[c][i].item]])

\* update_config up to the replacement runtime; a refused update changes nothing.
BeginUpdate(c, patch, list, fresh) ==
  LET current == ToDict(config)
      merged == MergePatch(current, RestoreMasked(current, patch))
  IN /\ config # Null /\ saving = Idle /\ saves < MaxSaves /\ Valid(merged)
     /\ saving' = [client |-> c, patch |-> patch, list |-> list, fresh |-> fresh,
                   old |-> config, new |-> FromMapping(WithDefaults(merged))]
     /\ UNCHANGED <<saved, config, shown, draft, last, saves, edits>>

SavePage(c) ==
  /\ shown[c] # Null /\ Given(shown[c].page.provider, "model")
  /\ \E key \in {<<>>, [api_key |-> "key2"]} :
       BeginUpdate(c, Page(c, key), draft[c], shown[c].at = saves)

SendUpdate(c) == \E r \in Requests : BeginUpdate(c, r, <<>>, FALSE)

\* The replacement is ready and the file is written; the client is shown the result.
Update ==
  /\ saving # Idle
  /\ saved' = saving.new /\ config' = saving.new
  /\ Show(saving.client, saving.new, saves + 1)
  /\ last' = saving /\ saving' = Idle /\ saves' = saves + 1
  /\ UNCHANGED edits

UpdateFails ==
  /\ saving # Idle /\ saving' = Idle
  /\ UNCHANGED <<saved, config, shown, draft, last, saves, edits>>

\* A shutdown; or the process is killed, also once the file was replaced.
Down ==
  /\ config # Null /\ config' = Null /\ saving' = Idle
  /\ \/ UNCHANGED <<saved, saves>>
     \/ saving # Idle /\ saved' = saving.new /\ saves' = saves + 1
  /\ UNCHANGED <<shown, draft, last, edits>>

Up ==
  /\ config = Null /\ config' = LoadConfig(saved)
  /\ UNCHANGED <<saved, shown, draft, saving, last, saves, edits>>

\* What a client makes of a server: another name, no header, another value, one more.
Edited(item) ==
  {[item EXCEPT !.name = n] : n \in ServerNames}
    \union {[item EXCEPT !.headers = f] :
              f \in {<<>>, Updated(item.headers, [auth |-> "new"]),
                    Updated(item.headers, [tenant |-> ""])}}
NewHeaders == {[auth |-> ""], [auth |-> "new"]}
Added == {[name |-> n, url |-> "url", headers |-> f] : n \in ServerNames, f \in NewHeaders}

SettingsNext ==
  \/ \E c \in Clients :
       \/ Look(c) \/ SavePage(c) \/ SendUpdate(c)
       \/ \E i \in DOMAIN draft[c] :
            Delist(c, i) \/ \E item \in Edited(draft[c][i].item) : Test(c, i, item)
       \/ \E item \in Added : Test(c, Len(draft[c]) + 1, item)
  \/ Update \/ UpdateFails \/ Down \/ Up

SettingsSpec == SettingsInit /\ [][SettingsNext]_settingsVars

-------------------------------------------------------------------------------
(* Properties.                                                                 *)

\* A server the update can tell: it has its old name, or a new one in its old place.
Recognised(u, i) ==
  LET j == u.list[i].from  name == u.list[i].item.name  old == u.old.mcp_servers
  IN j # 0 /\ (name = old[j].name \/ (Named(old, name) = {} /\ i = j))

\* An empty value stands for the one the server had.
Meant(u, i) ==
  LET typed == u.list[i].item.headers  had == u.old.mcp_servers[u.list[i].from].headers
  IN [h \in DOMAIN typed |-> IF typed[h] = "" /\ h \in DOMAIN had THEN had[h] ELSE typed[h]]

(* Saving the page one was shown keeps every secret one was not shown, unless  *)
(* someone else saved in between: however the list was edited, renamed and     *)
(* shortened before, each server the update can tell has the values that were  *)
(* typed in and for the others its own, and the key stays.  And the file       *)
(* always holds what the server uses: a restart changes no setting             *)
(* (update_config, public_config, _mcp_test_config, _load_config).             *)
SecretsKept ==
  /\ config # Null => LoadConfig(saved) = config
  /\ last # Idle /\ last.fresh =>
       /\ \A i \in DOMAIN last.list : Recognised(last, i) =>
            last.new.mcp_servers[i].headers = Meant(last, i)
       /\ last.new.provider.api_key =
            IF "api_key" \in DOMAIN last.patch.provider THEN last.patch.provider.api_key
            ELSE last.old.provider.api_key
===============================================================================
