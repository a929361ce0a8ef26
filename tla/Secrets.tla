------------------------------ MODULE Secrets ------------------------------
(***************************************************************************)
(* The encrypted settings and the API key made from them                   *)
(* (security/config_encryptor.rs, security/auth.rs).                       *)
(*                                                                         *)
(* A secret is stored in the keyring of the machine, and the configuration *)
(* file then holds a reference to it, or it is encrypted, and the file     *)
(* holds the ciphertext.  The program that embeds the library writes the   *)
(* file, so it may stop between the two.  Meanwhile the machine changes:   *)
(* the keyring comes and goes, the host, the user and the passphrase are   *)
(* others.  Files are the configuration files of one machine; they share   *)
(* its keyring.                                                            *)
(***************************************************************************)
EXTENDS Naturals

CONSTANTS Files,         \* the configuration files
          Environments,  \* the environments a process can run in
          Secret,        \* the secrets: a text, and what stands after it
          MaxChanges     \* bound: changes of the environment and of the keyring

ASSUME ChangesAssumption == MaxChanges \in Nat
ASSUME SecretAssumption ==
  /\ Secret \subseteq [body : STRING, tail : {"", "blank", "newline"}]
  /\ \A s \in Secret : s.body # "unset"
ASSUME FilesAssumption == "unset" \notin Files

VARIABLES env,      \* the environment of the process
          keyring,  \* [state, entries]: the keyring of the machine
          files,    \* file |-> the entry auth.api_key it holds
          store,    \* the store in progress: what is not yet in the file
          answer,   \* what the last request for the key came to
          changes,  \* changes of the environment so far
          meant,    \* history: file |-> the secret its owner last put there
          setBy     \* history: whose store last set the entry of the keyring

svars == <<env, keyring, files, store, answer, changes, meant, setBy>>

Unset == "unset"
Key == "auth.api_key"
OtherKey == "other"
Refs == {Key, OtherKey}

\* trim() leaves the text.
Nothing == [body |-> Unset, tail |-> ""]

-----------------------------------------------------------------------------
(* Keys.                                                                   *)

\* resolve_username_from_env: USER, LOGNAME, USERNAME, the first that is set.
UserName(e) ==
  IF e.names[1] # "" THEN e.names[1]
  ELSE IF e.names[2] # "" THEN e.names[2]
  ELSE IF e.names[3] # "" THEN e.names[3]
  ELSE "unknown"

HostName(e) == IF e.host = "unreadable" THEN "unknown" ELSE e.host

\* _derive_key_with_salt_iter.  The salt of a ciphertext travels with it.
DerivedKey(e, iterations) ==
  <<iterations, IF e.passphrase # "" THEN <<e.passphrase>> ELSE <<HostName(e), UserName(e)>> >>

\* The reference: the chain as the other implementations write it.
PeerKey(e, iterations) ==
  LET first == CHOOSE i \in 1..4 :
                 /\ i = 4 \/ e.names[i] # ""
                 /\ \A j \in 1..3 : j < i => e.names[j] = ""
      user == IF first = 4 THEN "unknown" ELSE e.names[first]
  IN  <<iterations, IF e.passphrase # "" THEN <<e.passphrase>> ELSE <<HostName(e), user>> >>

-----------------------------------------------------------------------------
(* The entry of a file: a plain value, a reference, a ciphertext of the    *)
(* one or the other format, or something that only begins like one.        *)

Plain(s) == [kind |-> "plain", value |-> s]
Reference(ref) == [kind |-> "keyring", ref |-> ref]
Encrypted(version, s, key) == [kind |-> version, value |-> s, key |-> key]
Damaged == [kind |-> "damaged"]
Absent == [kind |-> "absent"]

Iterations == 600
EarlyIterations == 100

\* The keyring as the library finds it: gone, readable, or also writable.
KeyringStates == {"gone", "readable", "open"}

\* Entry::get_password.
KeyringHolds(k, ref) == k.state # "gone" /\ k.entries[ref] # Nothing

\* _keyring_available: the probe reads an entry that need not be there.
KeyringAvailable(k) == k.state # "gone"

\* Mutant: only the current number of rounds is tried.
OpensCurrent(entry, e) ==
  entry.kind \in {"v1", "v2"} /\ entry.key = DerivedKey(e, Iterations)

\* _aes_decrypt_v2, and _aes_decrypt_v1 with its second try.
Opens(entry, e) ==
  \/ entry.kind \in {"v1", "v2"} /\ entry.key = DerivedKey(e, Iterations)
  \/ entry.kind = "v1" /\ entry.key = DerivedKey(e, EarlyIterations)

\* retrieve: the kind of the entry decides, not the state of the keyring.
\* Nothing stands for every error.
Retrieve(entry, e, k) ==
  IF entry.kind = "keyring"
    THEN IF KeyringHolds(k, entry.ref) THEN k.entries[entry.ref] ELSE Nothing
    ELSE IF entry.kind = "plain" \/ Opens(entry, e) THEN entry.value ELSE Nothing

-----------------------------------------------------------------------------
(* The API key.                                                            *)

\* ConfigResolver::resolve: --api-key even when empty, the variable unless
\* it is empty, the file.
Raw(flag, var, entry) ==
  IF flag # Absent THEN flag
  ELSE IF var.kind # "absent" /\ var # Plain([body |-> "", tail |-> ""]) THEN var
  ELSE entry

\* Mutant: the key is trimmed before it is looked at.
AuthenticateTrimmed(raw, e, k) ==
  LET s == Retrieve(raw, e, k) IN
  IF raw = Absent THEN [kind |-> "missing", secret |-> Nothing]
  ELSE IF s = Nothing THEN [kind |-> "undecryptable", secret |-> Nothing]
  ELSE [kind |-> "header", secret |-> [s EXCEPT !.tail = ""]]

\* get_api_key and authenticate_request.
Authenticate(raw, e, k) ==
  LET s == Retrieve(raw, e, k) IN
  IF raw = Absent THEN [kind |-> "missing", secret |-> Nothing]
  ELSE IF s = Nothing THEN [kind |-> "undecryptable", secret |-> Nothing]
  ELSE IF s.tail = "newline" THEN [kind |-> "malformed", secret |-> Nothing]
  ELSE [kind |-> "header", secret |-> [s EXCEPT !.tail = ""]]

NoAnswer == [kind |-> "none", secret |-> Nothing]
NoSource == [file |-> Unset, raw |-> Absent]
NoOne == [file |-> Unset, saved |-> FALSE]
Idle == [file |-> Unset, entry |-> Absent, secret |-> Nothing]

-----------------------------------------------------------------------------
(* Steps.                                                                  *)

\* The files as other programs left them: nothing, a value typed by hand, a
\* reference to another entry, an early ciphertext, or a damaged one.
FirstEntries(e) ==
  {Absent, Reference(OtherKey), Damaged}
    \cup {Plain(s) : s \in Secret}
    \cup {Encrypted("v1", s, PeerKey(e, n)) : s \in Secret, n \in {Iterations, EarlyIterations}}

SecretOf(entry, entries) ==
  IF entry.kind = "keyring" THEN entries[entry.ref]
  ELSE IF entry.kind \in {"absent", "damaged"} THEN Nothing
  ELSE entry.value

SInit ==
  /\ env \in Environments
  /\ \E state \in KeyringStates, other \in Secret :
       keyring = [state |-> state, entries |-> [r \in Refs |-> IF r = OtherKey THEN other ELSE Nothing]]
  /\ files \in [Files -> FirstEntries(env)]
  /\ store = Idle
  /\ answer = [result |-> NoAnswer, source |-> NoSource]
  /\ changes = 0
  /\ meant = [f \in Files |-> SecretOf(files[f], keyring.entries)]
  /\ setBy = NoOne

\* Mutant: a refused write is taken for a success.
StoreSecretUnchecked(f, s) ==
  /\ store = Idle
  /\ IF KeyringAvailable(keyring)
       THEN /\ keyring' = IF keyring.state = "open" THEN [keyring EXCEPT !.entries[Key] = s] ELSE keyring
            /\ setBy' = [file |-> f, saved |-> FALSE]
            /\ store' = [file |-> f, entry |-> Reference(Key), secret |-> s]
       ELSE /\ store' = [file |-> f, entry |-> Encrypted("v2", s, DerivedKey(env, Iterations)), secret |-> s]
            /\ UNCHANGED <<keyring, setBy>>
  /\ answer' = [result |-> NoAnswer, source |-> NoSource]
  /\ UNCHANGED <<env, files, changes, meant>>

\* ConfigEncryptor::store.  A keyring that answers the probe and refuses to
\* be written is an error; nothing is encrypted instead.
StoreSecret(f, s) ==
  /\ store = Idle
  /\ \/ /\ keyring.state = "open"
        /\ keyring' = [keyring EXCEPT !.entries[Key] = s]
        /\ setBy' = [file |-> f, saved |-> FALSE]
        /\ store' = [file |-> f, entry |-> Reference(Key), secret |-> s]
     \/ /\ ~ KeyringAvailable(keyring)
        /\ store' = [file |-> f, entry |-> Encrypted("v2", s, DerivedKey(env, Iterations)), secret |-> s]
        /\ UNCHANGED <<keyring, setBy>>
     \/ /\ KeyringAvailable(keyring) /\ keyring.state # "open"
        /\ UNCHANGED <<keyring, setBy, store>>
  /\ answer' = [result |-> NoAnswer, source |-> NoSource]
  /\ UNCHANGED <<env, files, changes, meant>>

\* The caller writes the token that store returned.
SaveToken ==
  /\ store # Idle
  /\ files' = [files EXCEPT ![store.file] = store.entry]
  /\ meant' = [meant EXCEPT ![store.file] = store.secret]
  /\ store' = Idle
  /\ answer' = [result |-> NoAnswer, source |-> NoSource]
  /\ setBy' = IF store.entry = Reference(Key) THEN [setBy EXCEPT !.saved = TRUE] ELSE setBy
  /\ UNCHANGED <<env, keyring, changes>>

\* The process ends before the token is written.
LoseToken ==
  /\ store # Idle
  /\ store' = Idle
  /\ UNCHANGED <<env, keyring, files, answer, changes, meant, setBy>>

\* What --api-key and APCORE_AUTH_API_KEY may hold.
GivenValues == {Absent, Plain([body |-> "", tail |-> ""])} \cup {Plain(s) : s \in {t \in Secret : t.tail = "newline"}}

\* authenticate_request with the flag and the variable of this process.
Request(f) ==
  /\ store = Idle
  /\ \E raw \in {Raw(flag, var, files[f]) : flag, var \in GivenValues} :
       answer' = [result |-> Authenticate(raw, env, keyring), source |-> [file |-> f, raw |-> raw]]
  /\ UNCHANGED <<env, keyring, files, store, changes, meant, setBy>>

\* handle_response: 401 and 403 are a refusal of the key.
Respond ==
  /\ answer.result.kind = "header"
  /\ \E status \in {200, 401, 403, 500} :
       answer' = [answer EXCEPT !.result.kind = IF status \in {401, 403} THEN "invalid" ELSE "passed"]
  /\ UNCHANGED <<env, keyring, files, store, changes, meant, setBy>>

\* Another host, user or passphrase; a keyring opened, locked or gone.
Change ==
  /\ changes < MaxChanges
  /\ changes' = changes + 1
  /\ \/ env' \in Environments /\ UNCHANGED keyring
     \/ \E state \in KeyringStates : keyring' = [keyring EXCEPT !.state = state] /\ UNCHANGED env
  /\ answer' = [result |-> NoAnswer, source |-> NoSource]
  /\ UNCHANGED <<files, store, meant, setBy>>

SNext ==
  \/ \E f \in Files, s \in Secret : StoreSecret(f, s)
  \/ SaveToken
  \/ LoseToken
  \/ \E f \in Files : Request(f)
  \/ Respond
  \/ Change

SSpec == SInit /\ [][SNext]_svars

-----------------------------------------------------------------------------
(* Properties.                                                             *)

\* A request that is answered from a file sends the secret that was last put
\* there for this file, in whatever environment it runs.  The one exception
\* is the shared entry of the keyring, after a later store of another file,
\* or one whose reference was never written.
OwnSecret ==
  LET s == answer.source IN
  (answer.result.kind \in {"header", "passed", "invalid"} /\ s.file # Unset /\ s.raw = files[s.file])
    => \/ answer.result.secret.body = meant[s.file].body
       \/ s.raw = Reference(Key) /\ (setBy.file # s.file \/ ~ setBy.saved)

\* A stored key cannot be recovered only for a reason: its text is damaged,
\* the machine has no keyring, or the host, the user or the passphrase, as
\* every implementation derives the key from them, is another one.
LostForCause ==
  LET raw == answer.source.raw IN
  answer.result.kind = "undecryptable"
    => \/ raw = Damaged
       \/ raw.kind = "keyring" /\ keyring.state = "gone"
       \/ raw.kind \in {"v1", "v2"} /\ raw.key # PeerKey(env, raw.key[1])

\* No header is made of a key with a line break, wherever the key came from,
\* and none is made where no key is set.
HeaderIsClean ==
  answer.result.kind \in {"header", "passed", "invalid"}
    => LET raw == answer.source.raw IN
         /\ raw # Absent /\ raw # Damaged
         /\ answer.result.secret.tail = ""
         /\ (IF raw.kind = "keyring" THEN keyring.entries[raw.ref] ELSE raw.value).tail # "newline"
=============================================================================
