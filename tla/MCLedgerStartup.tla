--------------------------- MODULE MCLedgerStartup ---------------------------
(* Small instances of LedgerStartup.                                         *)
EXTENDS LedgerStartup

First == <<1, "old">>
Second == <<2, "old">>
Other == <<1, "other">>
OlderEvents == {First, Second, Other}

\* The state root, the extension's global storage, and the folder of a product that
\* the launcher's environment names.
OlderPlaces == {"root", "storage", "product"}
Where == [h \in Hosts |-> CASE h \in Ide -> {"root", "storage"}
                            [] h \in Standalone -> {}
                            [] OTHER -> {"root", "product"}]

At(place, events) == [place |-> place, hist |-> events, sqlite |-> FALSE, keyed |-> TRUE]
Cipher(l) == [l EXCEPT !.sqlite = TRUE]
Keyless(l) == [l EXCEPT !.keyed = FALSE]

\* Nothing; a history both hosts find and the extension's longer one; one of the
\* launcher's that is longer than the extension's; two that diverge, found by two
\* hosts, and by one; one in SQLCipher; an SQLCipher ledger without an event; one
\* whose key is gone; two in one place.
OlderLedgers == {
  {},
  {At("root", <<First>>), At("storage", <<First, Second>>)},
  {At("storage", <<First>>), At("product", <<First, Second>>)},
  {At("storage", <<First>>), At("product", <<Other>>)},
  {At("root", <<First>>), At("storage", <<Other>>)},
  {Cipher(At("root", <<First>>))},
  {Cipher(At("root", <<>>))},
  {Keyless(At("storage", <<First>>))},
  {At("root", <<First>>), Cipher(At("root", <<First>>))}}
=============================================================================
