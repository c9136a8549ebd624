----------------------------- MODULE MCStartup -------------------------------
EXTENDS Startup

File(content, mode, owner) == [content |-> content, mode |-> mode, owner |-> owner, by |-> "site"]
Toml(version, unknown, settings) ==
  [kind |-> "toml", version |-> version, unknown |-> unknown, settings |-> settings, fault |-> "none"]

HostKey == Content("private", "site", "none")

Paths ==
  << <<"/etc", "key">>, <<"/etc", "keys">>, <<"/etc", "cas">>, <<"/etc", "conf">>,
     <<"/tmp", "key">>, <<"/etc", "open">>, <<"/etc", "foreign">>, <<"/etc", "torn">>,
     <<"/etc", "old">>, <<"/etc", "typo">>, <<"/etc", "zero">> >>

Inodes ==
  << File(HostKey, {}, "server"), File(Content("keys", "none", "none"), {"gr"}, "root"),
     File(Content("cas", "none", "none"), {}, "root"),
     File(Toml(1, FALSE, "host_key" :> "spare" @@ "authorized_keys" :> "keys" @@ "log_format" :> "json"
                         @@ "trusted_user_ca_keys" :> "cas" @@ "drain_timeout" :> 13), {"gr"}, "root"),
     File(HostKey, {}, "server"), File(HostKey, {"gr"}, "server"), File(HostKey, {"gw"}, "someone"),
     File(Content("private", "site", "public"), {}, "server"),
     File(Toml(2, FALSE, <<>>), {}, "root"), File(Toml(1, TRUE, <<>>), {}, "root"),
     File(Toml(1, FALSE, "drain_timeout" :> 0), {}, "root") >>

PathSet == {Paths[i] : i \in DOMAIN Paths}
Tree == [p \in PathSet |-> CHOOSE i \in DOMAIN Paths : Paths[i] = p]
Links == "key" :> Paths[1] @@ "spare" :> Paths[1] @@ "keys" :> Paths[2] @@ "cas" :> Paths[3] @@ "conf" :> Paths[4]

Arg(flag, value) == [flag |-> flag, value |-> value, valid |-> TRUE]
NoValue(flag) == [flag |-> flag, value |-> "none", valid |-> FALSE]
Flags == <<Arg("host_key", "key"), Arg("authorized_keys", "keys")>>
Full == <<Arg("config", "conf"), Arg("host_key", "key")>>

Site ==
  [dirs |-> "/" :> {} @@ "/etc" :> {} @@ "/tmp" :> {"gw"}, dirent |-> Tree, ino |-> Inodes, link |-> Links,
   keypath |-> Paths[1], pubpath |-> <<"/etc", "key.pub">>, keygens |-> {}, umask |-> {},
   args |-> {Flags}, targets |-> {}, retargets |-> 0, signals |-> 0, supervised |-> FALSE]

NoKey == [p \in PathSet \ {Paths[1]} |-> Tree[p]]

\* Names that move, configurations, stop requests, and keygen beside a start.
AnyProfile ==
  [links |-> [Site EXCEPT !.retargets = 1, !.targets = PathSet \cup {<<"/etc", "none">>},
                          !.args = {Full, Flags}],
   args |-> [Site EXCEPT !.args = {<<>>, <<NoValue("--help")>>, <<NoValue("unknown")>>, <<NoValue("config")>>,
               <<Arg("handshake_timeout", 0)>>, Append(Full, Arg("log_format", "human")), SubSeq(Flags, 1, 1)}],
   stops |-> [Site EXCEPT !.signals = 2, !.supervised = TRUE, !.args = {Full, Flags}],
   alone |-> [Site EXCEPT !.signals = 1],
   fresh |-> [Site EXCEPT !.dirent = NoKey, !.keygens = {"k1", "k2"}],
   masked |-> [Site EXCEPT !.dirent = NoKey, !.keygens = {"k1"}, !.umask = {"gr"},
                           !.retargets = 1, !.targets = {Site.pubpath}],
   taken |-> [Site EXCEPT !.keygens = {"k1"}],
   open |-> [Site EXCEPT !.keypath = <<"/tmp", "new">>, !.pubpath = <<"/tmp", "new.pub">>, !.keygens = {"k1"},
                         !.link = "key" :> <<"/tmp", "new">> @@ Links]]
==============================================================================
