----------------------------- MODULE MCSecrets -----------------------------
(* Two files on one machine; every link of the chain of user names occurs, *)
(* and a change of the user, of the host and of the passphrase.            *)
EXTENDS Secrets

MCEnvironments ==
  {[passphrase |-> p[1], host |-> p[2], names |-> p[3]] :
     p \in {<<"", "h", <<"u", "w", "">> >>, <<"", "h", <<"", "w", "">> >>,
            <<"", "unreadable", <<"", "", "w">> >>, <<"p", "h", <<"", "", "">> >>}}

MCSecret == {[body |-> "key", tail |-> ""], [body |-> "newkey", tail |-> "blank"], [body |-> "newkey", tail |-> "newline"]}

\* The second file starts without a key of its own: it gets one by a store.
MCInit ==
  /\ SInit
  /\ files["theirs"] \in {Absent, Reference(OtherKey)}
  /\ keyring.entries[OtherKey].tail = "blank"

MCSpec == MCInit /\ [][SNext]_svars
=============================================================================
