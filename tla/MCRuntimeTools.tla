---------------------------- MODULE MCRuntimeTools ----------------------------
(* Small instances of RuntimeTools, Settings and Skills for TLC.  A behaviour  *)
(* is about one of them, its focus: their states do not meet but in            *)
(* update_config, which holds the service's lock.                              *)
EXTENDS RuntimeTools, Settings, Skills

CONSTANTS t1, t2, s1, s2

VARIABLE focus

\* Both servers offer a tool of the same wrapped name.
MCOffers == [s \in Servers |-> IF s = s1 THEN {"a", "b"} ELSE {"b", "c"}]
MCConfigs == {<<s1>>, <<s2>>, <<s1, s2>>}

\* No file, or one with two servers and nothing but that and a key and a model.
Server(n, v, own) == [name |-> n, url |-> "url", headers |-> [auth |-> v], own |-> own]
MCFiles ==
  {Null,
   [provider |-> [type |-> Null, model |-> "m", api_key |-> "key1"],
    mcp_servers |-> <<Server("A", "s1", "own"), Server("B", "s2", "default")>>,
    agent |-> [instructions |-> "x", skill_names |-> Null]]}
MCRequests ==
  {[provider |-> Null], [mcp_servers |-> Null],
   [generation |-> [max_completion_tokens |-> Null]],
   [mcp_servers |-> <<[name |-> "B", url |-> "url", headers |-> Null]>>],
   [mcp_servers |-> <<[url |-> "url", headers |-> [auth |-> ""]]>>]}

\* Two packages, alone, nested, twice, broken, and one of each limit and refusal.
Entry(path, skill) == [path |-> path, kind |-> "plain", dir |-> FALSE, bytes |-> 1, skill |-> skill]
Skill(path, name) == Entry(Append(path, "SKILL.md"), name)
Archive(entries) == [zip |-> TRUE, bytes |-> 1, entries |-> entries]
A == Skill(<<"a">>, "a")
B == Skill(<<"x", "b">>, "b")
MCUploads ==
  {<<>>, <<Archive(<<>>)>>, <<[Archive(<<A>>) EXCEPT !.zip = FALSE]>>,
   <<Archive(<<A, Skill(<<"a", "b">>, "b"), [B EXCEPT !.path = <<"x">>, !.dir = TRUE],
               [A EXCEPT !.path = <<"__MACOSX">> \o @, !.kind = "link"]>>)>>,
   <<Archive(<<B>>), Archive(<<A, Entry(<<"a", "scripts", "run">>, "none")>>)>>,
   <<Archive(<<A>>), Archive(<<A>>)>>, <<Archive(<<A, A>>)>>,
   <<Archive(<<Skill(<<>>, "a")>>)>>, <<Archive(<<Skill(<<"b">>, "a")>>)>>,
   <<Archive(<<A, [B EXCEPT !.kind = "unsafe"]>>)>>, <<Archive(<<A, [B EXCEPT !.kind = "link"]>>)>>,
   <<Archive(<<[A EXCEPT !.bytes = 9]>>)>>, <<[Archive(<<A>>) EXCEPT !.bytes = 9]>>,
   <<Archive(<<A, B, A, B, A, B>>)>>,
   <<Archive(<<A>>), Archive(<<>>), Archive(<<>>), Archive(<<>>)>>}
MCLimits == [archives |-> 3, bytes |-> 5, entries |-> 5, extracted |-> 5, skills |-> 2]

\* Nothing tells the clients apart.
ClientSymmetry == Permutations(Clients)

NoUse(set) == CHOOSE x \in set : TRUE

MCInit ==
  /\ Init /\ SettingsInit /\ SkillsInit
  /\ focus \in {"servers", "settings", "skills"}
  /\ focus # "servers"  => library = FALSE /\ file = NoUse(Configs)
  /\ focus # "settings" => saved = Null
  /\ focus # "skills"   => cached = NoList /\ \A n \in SkillNames : skills[n] = Absent

MCNext ==
  /\ UNCHANGED focus
  /\ \/ focus = "servers"  /\ Next /\ UNCHANGED <<settingsVars, skillVars>>
     \/ focus = "settings" /\ SettingsNext /\ UNCHANGED <<vars, skillVars>>
     \/ focus = "skills"   /\ SkillsNext /\ UNCHANGED <<vars, settingsVars>>

MCSpec == MCInit /\ [][MCNext]_<<vars, settingsVars, skillVars, focus>>
=============================================================================
