---------------------------- MODULE MC_PrivateKey ----------------------------
(* PrivateKey instantiated for TLC: six OpenSSL object handles, enough for *)
(* one SM2 generation (four objects) followed by loads and generations of  *)
(* the other types.                                                        *)
EXTENDS PrivateKey

CONSTANTS h1, h2, h3, h4, h5, h6

HandleSet == {h1, h2, h3, h4, h5, h6}

\* Five handles: one SM2 generation and one more key, or several keys of
\* the other types.
HandleSet5 == {h1, h2, h3, h4, h5}
=============================================================================
