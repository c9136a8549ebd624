------------------------------ MODULE MCChannel ------------------------------
(* Instances of Channel for TLC: the packets the client may send.           *)
EXTENDS Channel

Open(w) == [kind |-> "open", type |-> "session", window |-> w, max_pkt |-> 1]
Request(what, wants) == [kind |-> "request", what |-> what, reply |-> wants]
Data(n) == [kind |-> "data", len |-> n]
Adjust(n) == [kind |-> "adjust", add |-> n]
Kexinit(valid, guessed) == [kind |-> "kexinit", ok |-> valid, guess |-> guessed]
Plain(kind) == [kind |-> kind]

\* Stdin: data before and after the start, sizes up to past the window, and
\* the packets of a re-key that holds the start back.
MCStdin ==
  {Open(0), Request("program", FALSE), Data(1), Data(2),
   Plain("eof"), Plain("close"), Kexinit(TRUE, FALSE), Plain("hybrid_init"), Plain("newkeys")}

\* A session: every kind of packet, the refused ones included, around output
\* that the client's window lets through in steps and re-keys of either side.
MCSession ==
  {Open(1), [Open(1) EXCEPT !.type = "x11"], [Open(1) EXCEPT !.max_pkt = 0],
   Request("program", TRUE), Request("sftp", TRUE), Request("pty", TRUE),
   [kind |-> "global", reply |-> TRUE], Plain("ignore"), Plain("disconnect"),
   Plain("bad"), Kexinit(TRUE, TRUE), Kexinit(TRUE, FALSE), Kexinit(FALSE, FALSE),
   Plain("hybrid_init"), Plain("newkeys"), Data(1), Data(0),
   Adjust(1), Adjust(3), Plain("eof"), Plain("close")}

\* Requests, their replies and closing, from either side, around a re-key.
MCRekey ==
  {Open(0), Request("program", TRUE), Request("other", TRUE), Adjust(1), Plain("close"),
   Kexinit(TRUE, FALSE), Plain("hybrid_init"), Plain("newkeys")}
=============================================================================
