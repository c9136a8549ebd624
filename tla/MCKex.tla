-------------------------------- MODULE MCKex --------------------------------
EXTENDS Kex

Stock == [kind |-> "kexinit", cookie |-> <<"c", 0>>, wire |-> TRUE, follows |-> FALSE,
          kex |-> <<KEX_ALGORITHM, "curve25519", "ext-info-c", STRICT_KEX_CLIENT>>,
          hostkeys |-> <<"ssh-ed25519", HOST_KEY_LIST>>,
          enc_c2s |-> <<"aes128-ctr", "aes256-gcm", "chacha20-poly1305">>,
          enc_s2c |-> <<"chacha20-poly1305">>, comp_c2s |-> <<"none", "zlib">>,
          comp_s2c |-> <<"none", "zlib">>]

\* A client as it comes, with guesses right and wrong, without the marker, and
\* with one list the server cannot serve.
AnyOffer ==
  {Stock, [Stock EXCEPT !.enc_c2s = <<"chacha20-poly1305", "aes256-gcm">>],
   [Stock EXCEPT !.follows = TRUE],
   [Stock EXCEPT !.follows = TRUE, !.hostkeys = <<HOST_KEY_LIST>>],
   [Stock EXCEPT !.follows = TRUE, !.kex = <<"curve25519", KEX_ALGORITHM, STRICT_KEX_CLIENT>>],
   [Stock EXCEPT !.kex = <<KEX_ALGORITHM>>],
   [Stock EXCEPT !.kex = <<"curve25519", STRICT_KEX_CLIENT, "kex-strict-s">>],
   [Stock EXCEPT !.hostkeys = <<"ssh-ed25519">>], [Stock EXCEPT !.enc_c2s = <<"aes128-ctr">>],
   [Stock EXCEPT !.enc_s2c = <<>>], [Stock EXCEPT !.comp_s2c = <<"zlib">>],
   [Stock EXCEPT !.wire = FALSE]}

AnyInit == {[ek |-> "c", pk |-> "c", fault |-> f] : f \in {"none", "wire", "length", "mlkem", "x25519"}}
==============================================================================
