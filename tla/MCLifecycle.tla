---------------------------- MODULE MCLifecycle ----------------------------
(* Lifecycle with the configurations that are treated differently. *)
EXTENDS Lifecycle, TLC

File(args, parses, services, daemon, log, list) ==
  [args |-> args, parses |-> parses, services |-> services,
   daemon |-> daemon, log |-> log, list |-> list]
Entry(kind, listens) == [kind |-> kind, listens |-> listens]
Runs(log, list) == File("run", TRUE, TRUE, FALSE, log, list)

Relay == Entry("relay", 0)

FewConfigs ==
  { File("help", TRUE, TRUE, FALSE, "other", <<>>),
    File("bad", TRUE, TRUE, FALSE, "other", <<>>),
    File("run", FALSE, FALSE, FALSE, "other", <<>>),
    File("run", TRUE, FALSE, FALSE, "other", <<>>),
    File("run", TRUE, TRUE, TRUE, "other", <<Entry("socks5", 0)>>),
    Runs("other", <<Entry("backdoor", 2), Relay>>),
    Runs("file", <<Relay, Entry("backdoor", 1)>>),
    Runs("nofile", <<Relay>>),
    Runs("other", <<Relay, Entry("backdoor", 1), Entry("none", 0)>>),
    Runs("other", <<Relay, Entry("backdoor", 1), Relay>>),
    Runs("other", <<Relay, Entry("unknown", 0)>>),
    Runs("other", <<Relay, Entry("broken", 0)>>),
    Runs("file", <<Entry("socks5", 0), Relay>>) }
=============================================================================
