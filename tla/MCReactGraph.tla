---------------------------- MODULE MCReactGraph ----------------------------
(* Instances of ReactGraph: a small catalog, three configurations, two packages. *)
EXTENDS ReactGraph

SmallCatalog == <<"activate_skill", "write_file", "browser">>

SmallProfiles ==
  [p \in {"minimal", "full"} |-> IF p = "minimal" THEN {} ELSE {"write_file", "browser"}]

MCP(name, risk) == [name |-> name, risk |-> risk]

\* Servers that offer a built-in's name, and an alias that another tool would be given.
Offered == << MCP([base |-> "write_file", alias |-> <<1>>], "low"),
              MCP(Name("write_file"), "high") >>

Config(profile, strategy, disable, mcp) ==
  [profile |-> profile, enable |-> {}, disable |-> disable, strategy |-> strategy, mcp |-> mcp]

SmallConfigs ==
  { Config("full", "rename", {}, Offered),
    Config("full", "override", {}, Offered),
    Config("minimal", "skip", {"activate_skill"},
           << MCP(Name("activate_skill"), "low"), MCP(Name("activate_skill"), "high"),
              MCP(Name("handle_reaction"), "high") >>) }

\* One skill in two directories.
TwoPackages == <<"shared", "local">>

OneSkill == [p \in {"shared", "local"} |-> "s1"]
=============================================================================
