--------------------------- MODULE SecretsProofs ---------------------------
(***************************************************************************)
(* Theorems about Secrets, for every set of files, secrets and             *)
(* environments, and however often the machine changes.                    *)
(***************************************************************************)
EXTENDS Secrets, TLAPS

\* A secret, or Nothing.
Text == [body : STRING \cup {Unset}, tail : {"", "blank", "newline"}]

-----------------------------------------------------------------------------
(* The invariant.                                                          *)

SecretTypes ==
  /\ keyring = [state |-> keyring.state, entries |-> keyring.entries]
  /\ keyring.entries \in [Refs -> Text]
  /\ files = [f \in Files |-> files[f]]
  /\ meant \in [Files -> Text]
  /\ setBy \in [file : Files \cup {Unset}, saved : BOOLEAN]

\* A file holds what its owner last put there: the text itself, a reference to an
\* entry that no store touches, or one to the shared entry, as long as that was
\* last set for this file and the reference was written.
FileMeant(f) ==
  /\ files[f].kind \in {"plain", "v1", "v2"} => files[f].value = meant[f]
  /\ files[f].kind = "keyring" => files[f].ref \in Refs /\ files[f] = Reference(files[f].ref)
  /\ files[f] = Reference(OtherKey) => keyring.entries[OtherKey] = meant[f]
  /\ files[f] = Reference(Key) /\ setBy.file = f /\ setBy.saved
       => keyring.entries[Key] = meant[f]

\* A store under way holds the secret its token stands for.
TokenMeant ==
  \/ store = Idle
  \/ /\ store = [file |-> store.file, entry |-> store.entry, secret |-> store.secret]
     /\ store.file \in Files /\ store.secret \in Text
     /\ \/ /\ store.entry = Reference(Key)
           /\ setBy.file = store.file /\ ~ setBy.saved
           /\ keyring.entries[Key] = store.secret
        \/ /\ store.entry = Encrypted("v2", store.secret, store.entry.key)

\* What a header was made of, as long as its source has not changed.
Sent == answer.result.kind \in {"header", "passed", "invalid"}

AnswerShape ==
  /\ answer = [result |-> answer.result, source |-> answer.source]
  /\ answer.result = [kind |-> answer.result.kind, secret |-> answer.result.secret]
  /\ answer.source.file \in Files \cup {Unset}

\* The invariant by which OwnSecret is inductive: an answer is right because the
\* file that it came from was.
SecretInv ==
  /\ SecretTypes
  /\ \A f \in Files : FileMeant(f)
  /\ TokenMeant
  /\ AnswerShape
  /\ OwnSecret

LEMMA SecretsAreTexts == Secret \subseteq Text /\ Nothing \in Text /\ Key # OtherKey
                         /\ Refs = {Key, OtherKey} /\ Unset \notin Files
<1>1. Secret \subseteq Text
  BY SecretAssumption DEF Text
<1>2. Nothing \in Text
  BY DEF Text, Nothing, Unset
<1>3. Key # OtherKey /\ Refs = {Key, OtherKey}
  BY DEF Key, OtherKey, Refs
<1>4. Unset \notin Files
  BY FilesAssumption DEF Unset
<1> QED
  BY <1>1, <1>2, <1>3, <1>4

\* The first files hold what their owners put there.
LEMMA SecretInit == SInit => SecretInv
<1> SUFFICES ASSUME SInit PROVE SecretInv
  OBVIOUS
<1> USE SecretsAreTexts
<1>1. SecretTypes
  <2>1. keyring.entries \in [Refs -> Text] /\ keyring = [state |-> keyring.state, entries |-> keyring.entries]
    BY DEF SInit
  <2>2. \A f \in Files : SecretOf(files[f], keyring.entries) \in Text
    <3> SUFFICES ASSUME NEW f \in Files PROVE SecretOf(files[f], keyring.entries) \in Text
      OBVIOUS
    <3>1. files[f] \in FirstEntries(env)
      BY DEF SInit
    <3> QED
      BY <3>1, <2>1 DEF FirstEntries, SecretOf, Absent, Damaged, Plain, Reference, Encrypted
  <2>3. meant \in [Files -> Text]
    BY <2>2 DEF SInit
  <2>4. files = [f \in Files |-> files[f]]
    BY DEF SInit
  <2>5. setBy \in [file : Files \cup {Unset}, saved : BOOLEAN]
    BY DEF SInit, NoOne
  <2> QED
    BY <2>1, <2>3, <2>4, <2>5 DEF SecretTypes
<1>2. ASSUME NEW f \in Files PROVE FileMeant(f)
  <2>1. files[f] \in FirstEntries(env) /\ meant[f] = SecretOf(files[f], keyring.entries)
    BY DEF SInit
  <2>2. files[f] # Reference(Key)
    BY <2>1 DEF FirstEntries, Absent, Damaged, Plain, Reference, Encrypted
  <2> QED
    BY <2>1, <2>2 DEF FileMeant, FirstEntries, SecretOf, Absent, Damaged, Plain, Reference, Encrypted
<1>3. TokenMeant
  BY DEF SInit, TokenMeant
<1>4. AnswerShape /\ OwnSecret
  BY DEF SInit, AnswerShape, OwnSecret, NoAnswer, NoSource
<1> QED
  BY <1>1, <1>2, <1>3, <1>4 DEF SecretInv

\* A store changes the shared entry and nobody's file; the files that refer to the
\* entry are then no longer the ones it was last set for and written.
LEMMA StoreStep ==
  ASSUME SecretInv, NEW g \in Files, NEW s \in Secret, StoreSecret(g, s)
  PROVE  SecretInv'
<1> USE SecretsAreTexts DEF SecretInv
<1> DEFINE T == [file |-> g, entry |-> Reference(Key), secret |-> s]
           U == [file |-> g, entry |-> Encrypted("v2", s, DerivedKey(env, Iterations)), secret |-> s]
<1>1. UNCHANGED <<files, meant>> /\ store = Idle
  BY DEF StoreSecret
<1>2. answer' = [result |-> NoAnswer, source |-> NoSource]
  BY DEF StoreSecret
<1>3. AnswerShape' /\ OwnSecret'
  BY <1>2 DEF AnswerShape, OwnSecret, NoAnswer, NoSource
<1>4. CASE /\ keyring' = [keyring EXCEPT !.entries[Key] = s]
           /\ setBy' = [file |-> g, saved |-> FALSE]
           /\ store' = T
  <2>1. SecretTypes'
    BY <1>1, <1>4 DEF SecretTypes
  <2>2. keyring'.entries[OtherKey] = keyring.entries[OtherKey] /\ keyring'.entries[Key] = s
    BY <1>4 DEF SecretTypes
  <2>3. \A f \in Files : FileMeant(f)'
    BY <1>1, <1>4, <2>2 DEF FileMeant
  <2>4. TokenMeant'
    BY <1>4, <2>2 DEF TokenMeant
  <2> QED
    BY <1>3, <2>1, <2>3, <2>4
<1>5. CASE store' = U /\ UNCHANGED <<keyring, setBy>>
  <2>1. SecretTypes' /\ \A f \in Files : FileMeant(f)'
    BY <1>1, <1>5 DEF SecretTypes, FileMeant
  <2>2. TokenMeant'
    BY <1>5 DEF TokenMeant, Encrypted
  <2> QED
    BY <1>3, <2>1, <2>2
<1>6. CASE UNCHANGED <<keyring, setBy, store>>
  <2>1. SecretTypes' /\ \A f \in Files : FileMeant(f)'
    BY <1>1, <1>6 DEF SecretTypes, FileMeant
  <2>2. TokenMeant'
    BY <1>1, <1>6 DEF TokenMeant
  <2> QED
    BY <1>3, <2>1, <2>2
<1> QED
  BY <1>4, <1>5, <1>6 DEF StoreSecret

\* The token is written: the file means what was stored, and so does the entry.
LEMMA SaveStep == ASSUME SecretInv, SaveToken PROVE SecretInv'
<1> USE SecretsAreTexts DEF SecretInv
<1>1. /\ store # Idle /\ store' = Idle
      /\ files' = [files EXCEPT ![store.file] = store.entry]
      /\ meant' = [meant EXCEPT ![store.file] = store.secret]
      /\ setBy' = IF store.entry = Reference(Key) THEN [setBy EXCEPT !.saved = TRUE] ELSE setBy
      /\ keyring' = keyring
  BY DEF SaveToken
<1>2. store.file \in Files /\ store.secret \in Text
  BY <1>1 DEF TokenMeant
<1>3. setBy'.file = setBy.file /\ setBy' \in [file : Files \cup {Unset}, saved : BOOLEAN]
  BY <1>1 DEF SecretTypes
<1>4. SecretTypes'
  BY <1>1, <1>2, <1>3 DEF SecretTypes
<1>5. ASSUME NEW f \in Files PROVE FileMeant(f)'
  <2>1. CASE f = store.file
    <3>1. files'[f] = store.entry /\ meant'[f] = store.secret
      BY <1>1, <1>2, <2>1 DEF SecretTypes
    <3>2. CASE store.entry = Reference(Key)
      <4>1. keyring.entries[Key] = store.secret
        BY <1>1, <3>2 DEF TokenMeant, Reference, Encrypted
      <4>2. /\ Reference(Key).kind = "keyring" /\ Reference(Key).ref = Key
            /\ Reference(Key) # Reference(OtherKey)
        BY DEF Reference
      <4>3. Key \in Refs
        OBVIOUS
      <4> HIDE SecretsAreTexts DEF SecretInv
      <4> QED
        BY <1>1, <3>1, <3>2, <4>1, <4>2, <4>3 DEF FileMeant
    <3>3. CASE store.entry = Encrypted("v2", store.secret, store.entry.key)
      BY <1>1, <3>1, <3>3 DEF FileMeant, Reference, Encrypted
    <3> QED
      BY <1>1, <3>2, <3>3 DEF TokenMeant
  <2>2. CASE f # store.file
    <3>1. files'[f] = files[f] /\ meant'[f] = meant[f]
      BY <1>1, <2>2 DEF SecretTypes
    <3>2. setBy'.file = f /\ setBy'.saved => setBy.file = f /\ setBy.saved
      <4>1. CASE store.entry = Reference(Key)
        BY <1>1, <1>3, <2>2, <4>1 DEF TokenMeant, Reference, Encrypted
      <4> QED
        BY <1>1, <4>1
    <3> QED
      BY <1>1, <3>1, <3>2 DEF FileMeant
  <2> QED
    BY <2>1, <2>2
<1>6. TokenMeant'
  BY <1>1 DEF TokenMeant
<1>7. AnswerShape' /\ OwnSecret'
  <2>1. answer' = [result |-> NoAnswer, source |-> NoSource]
    BY DEF SaveToken
  <2> QED
    BY <2>1 DEF AnswerShape, OwnSecret, NoAnswer, NoSource
<1> QED
  BY <1>4, <1>5, <1>6, <1>7

\* A request reads its own file, or a value that is not the file's.
LEMMA RequestStep ==
  ASSUME SecretInv, NEW g \in Files, Request(g)
  PROVE  SecretInv'
<1> USE SecretsAreTexts DEF SecretInv
<1>1. UNCHANGED <<keyring, files, store, meant, setBy>>
  BY DEF Request
<1>2. SecretTypes' /\ (\A f \in Files : FileMeant(f)') /\ TokenMeant'
  BY <1>1 DEF SecretTypes, FileMeant, TokenMeant
<1>3. PICK raw : answer' = [result |-> Authenticate(raw, env, keyring),
                            source |-> [file |-> g, raw |-> raw]]
  BY DEF Request
<1>4. AnswerShape'
  BY <1>3 DEF AnswerShape, Authenticate
<1>5. OwnSecret'
  <2> SUFFICES ASSUME Authenticate(raw, env, keyring).kind = "header", raw = files[g],
                      ~ (raw = Reference(Key) /\ (setBy.file # g \/ ~ setBy.saved))
               PROVE  Authenticate(raw, env, keyring).secret.body = meant[g].body
    BY <1>1, <1>3 DEF OwnSecret, Authenticate
  <2>1. FileMeant(g) /\ meant[g] \in Text
    BY DEF SecretTypes
  <2>2. Retrieve(raw, env, keyring) # Nothing
    BY DEF Authenticate
  <2>3. Retrieve(raw, env, keyring) = meant[g]
    <3>1. CASE raw.kind = "keyring"
      <4>1. raw = Reference(Key) \/ raw = Reference(OtherKey)
        BY <2>1, <3>1 DEF FileMeant
      <4>2. Retrieve(raw, env, keyring) = keyring.entries[raw.ref]
        BY <2>2, <3>1 DEF Retrieve
      <4> QED
        BY <2>1, <4>1, <4>2 DEF FileMeant, Reference
    <3>2. CASE raw.kind # "keyring"
      BY <2>1, <2>2, <3>2 DEF FileMeant, Retrieve, Opens
    <3> QED
      BY <3>1, <3>2
  <2> QED
    BY <2>1, <2>2, <2>3 DEF Authenticate, Text
<1> QED
  BY <1>2, <1>4, <1>5

\* Every step keeps the invariant.
LEMMA SecretNext == SecretInv /\ [SNext]_svars => SecretInv'
<1> SUFFICES ASSUME SecretInv, [SNext]_svars PROVE SecretInv'
  OBVIOUS
<1>1. ASSUME NEW f \in Files, NEW s \in Secret, StoreSecret(f, s) PROVE SecretInv'
  BY <1>1, StoreStep
<1>2. CASE SaveToken
  BY <1>2, SaveStep
<1>3. CASE LoseToken
  BY <1>3 DEF LoseToken, SecretInv, SecretTypes, FileMeant, TokenMeant, AnswerShape, OwnSecret
<1>4. ASSUME NEW f \in Files, Request(f) PROVE SecretInv'
  BY <1>4, RequestStep
<1>5. CASE Respond
  <2>1. UNCHANGED <<keyring, files, store, meant, setBy>> /\ answer.result.kind = "header"
    BY <1>5 DEF Respond
  <2>2. PICK kind \in {"invalid", "passed"} : answer' = [answer EXCEPT !.result.kind = kind]
    BY <1>5 DEF Respond
  <2>3. /\ answer'.result.secret = answer.result.secret /\ answer'.source = answer.source
        /\ AnswerShape'
    BY <2>2 DEF SecretInv, AnswerShape
  <2> QED
    BY <2>1, <2>3 DEF SecretInv, SecretTypes, FileMeant, TokenMeant, OwnSecret
<1>6. CASE Change
  <2>1. UNCHANGED <<files, store, meant, setBy>>
    BY <1>6 DEF Change
  <2>2. answer' = [result |-> NoAnswer, source |-> NoSource]
    BY <1>6 DEF Change
  <2>3. keyring'.entries = keyring.entries
        /\ keyring' = [state |-> keyring'.state, entries |-> keyring'.entries]
    BY <1>6 DEF Change, SecretInv, SecretTypes
  <2>4. SecretTypes' /\ (\A f \in Files : FileMeant(f)') /\ TokenMeant'
    BY <2>1, <2>3 DEF SecretInv, SecretTypes, FileMeant, TokenMeant
  <2>5. AnswerShape' /\ OwnSecret'
    BY <2>2 DEF AnswerShape, OwnSecret, NoAnswer, NoSource
  <2> QED
    BY <2>4, <2>5 DEF SecretInv
<1>7. CASE UNCHANGED svars
  BY <1>7 DEF svars, SecretInv, SecretTypes, FileMeant, TokenMeant, AnswerShape, OwnSecret
<1> QED
  BY <1>1, <1>2, <1>3, <1>4, <1>5, <1>6, <1>7 DEF SNext

-----------------------------------------------------------------------------

\* For every set of files, secrets and environments: a request sends the secret of
\* the file it reads, except through the entry of the keyring that all files share,
\* when another store has set it since.
THEOREM SecretsAreOwn == SSpec => []OwnSecret
<1>1. SecretInv => OwnSecret
  BY DEF SecretInv
<1> QED
  BY <1>1, SecretInit, SecretNext, PTL DEF SSpec
-----------------------------------------------------------------------------
(* Nothing that is stored is lost without a cause, and no header is made   *)
(* of a key that no header may hold.                                       *)

\* A text that is there.
Given(v) == v = [body |-> v.body, tail |-> v.tail] /\ v # Nothing

\* A ciphertext of this program, or of another implementation: of the current
\* number of rounds, or of the early one in the early format.
Sealed(entry) ==
  /\ entry.kind \in {"v1", "v2"} /\ Given(entry.value)
  /\ entry.key[1] = Iterations \/ (entry.kind = "v1" /\ entry.key[1] = EarlyIterations)

\* What a file can hold.
EntryShape(entry) ==
  \/ entry = Absent
  \/ entry = Damaged
  \/ \E ref \in Refs : entry = Reference(ref)
  \/ entry.kind = "plain" /\ Given(entry.value)
  \/ Sealed(entry)

\* A reference to the shared entry is handed out once the entry is set.
Backed(entry) == entry = Reference(Key) => Given(keyring.entries[Key])

\* The invariant by which LostForCause and HeaderIsClean are inductive.
KeptInv ==
  /\ Given(keyring.entries[OtherKey])
  /\ \A f \in Files : EntryShape(files[f]) /\ Backed(files[f])
  /\ store # Idle => EntryShape(store.entry) /\ Backed(store.entry)
  /\ LostForCause
  /\ HeaderIsClean

\* Every implementation derives the same key.
LEMMA SameKey == \A e, n : PeerKey(e, n) = DerivedKey(e, n)
<1> SUFFICES ASSUME NEW e, NEW n PROVE PeerKey(e, n) = DerivedKey(e, n)
  OBVIOUS
<1> DEFINE P(i) == (i = 4 \/ e.names[i] # "") /\ \A j \in 1 .. 3 : j < i => e.names[j] = ""
           first == CHOOSE i \in 1 .. 4 : P(i)
           user == IF first = 4 THEN "unknown" ELSE e.names[first]
<1>1. UserName(e) = user
  <2>1. \A j \in 1 .. 3 : j = 1 \/ j = 2 \/ j = 3
    OBVIOUS
  <2>2. /\ P(1) <=> e.names[1] # ""
        /\ P(2) <=> e.names[2] # "" /\ e.names[1] = ""
        /\ P(3) <=> e.names[3] # "" /\ e.names[1] = "" /\ e.names[2] = ""
        /\ P(4) <=> e.names[1] = "" /\ e.names[2] = "" /\ e.names[3] = ""
    <3>1. P(1) <=> e.names[1] # ""
      OBVIOUS
    <3>2. P(2) <=> e.names[2] # "" /\ e.names[1] = ""
      BY <2>1
    <3>3. P(3) <=> e.names[3] # "" /\ e.names[1] = "" /\ e.names[2] = ""
      <4>1. \A j \in 1 .. 3 : j < 3 <=> j = 1 \/ j = 2
        OBVIOUS
      <4>2. 1 \in 1 .. 3 /\ 2 \in 1 .. 3 /\ 3 # 4
        OBVIOUS
      <4>3. (\A j \in 1 .. 3 : j < 3 => e.names[j] = "") <=> e.names[1] = "" /\ e.names[2] = ""
        BY <4>1, <4>2, Zenon
      <4> QED
        BY <4>2, <4>3, Zenon
    <3>4. P(4) <=> e.names[1] = "" /\ e.names[2] = "" /\ e.names[3] = ""
      BY <2>1
    <3> QED
      BY <3>1, <3>2, <3>3, <3>4
  <2>3. \A i \in 1 .. 4 : i = 1 \/ i = 2 \/ i = 3 \/ i = 4
    OBVIOUS
  <2>4. P(first) /\ first \in 1 .. 4
    <3>1. \E i \in 1 .. 4 : P(i)
      <4> HIDE DEF P
      <4>1. P(1) \/ P(2) \/ P(3) \/ P(4)
        BY <2>2
      <4> QED
        BY <4>1
    <3> HIDE DEF P
    <3> QED
      BY <3>1
  <2> HIDE DEF P, first
  <2>5. first = 1 \/ first = 2 \/ first = 3 \/ first = 4
    BY <2>3, <2>4
  <2> QED
    BY <2>2, <2>4, <2>5 DEF UserName
<1> HIDE DEF first, user
<1>2. PeerKey(e, n)
        = <<n, IF e.passphrase # "" THEN <<e.passphrase>> ELSE <<HostName(e), user>> >>
  BY DEF PeerKey, user, first
<1> QED
  BY <1>1, <1>2 DEF DerivedKey

\* A derived key tells its number of rounds.
LEMMA KeyRounds == \A e, n : DerivedKey(e, n)[1] = n
BY DEF DerivedKey

\* Every secret is a text.
LEMMA SecretsAreGiven == \A s \in Secret : Given(s)
<1> SUFFICES ASSUME NEW s \in Secret PROVE Given(s)
  OBVIOUS
<1>1. s \in [body : STRING, tail : {"", "blank", "newline"}] /\ s.body # "unset"
  BY SecretAssumption
<1>2. s = [body |-> s.body, tail |-> s.tail]
  BY <1>1
<1>3. Nothing.body = "unset"
  BY DEF Nothing, Unset
<1> QED
  BY <1>1, <1>2, <1>3 DEF Given

\* What stands in a file or in a ciphertext, by the kind of the entry.
LEMMA EntryKinds ==
  /\ Absent.kind = "absent" /\ Damaged.kind = "damaged"
  /\ \A ref : Reference(ref).kind = "keyring" /\ Reference(ref).ref = ref
  /\ \A v : Plain(v).kind = "plain" /\ Plain(v).value = v
  /\ \A k, v, key : /\ Encrypted(k, v, key).kind = k
                    /\ Encrypted(k, v, key).value = v /\ Encrypted(k, v, key).key = key
BY DEF Absent, Damaged, Reference, Plain, Encrypted

LEMMA KeptInit == SInit => KeptInv
<1> SUFFICES ASSUME SInit PROVE KeptInv
  OBVIOUS
<1>1. Given(keyring.entries[OtherKey])
  BY SecretsAreGiven DEF SInit, Refs
<1>2. ASSUME NEW f \in Files PROVE EntryShape(files[f]) /\ Backed(files[f])
  <2>1. files[f] \in FirstEntries(env)
    BY DEF SInit
  <2>2. CASE files[f] \in {Absent, Damaged, Reference(OtherKey)}
    BY <2>2, EntryKinds, SecretsAreTexts DEF EntryShape, Backed
  <2>3. ASSUME NEW s \in Secret, files[f] = Plain(s) PROVE EntryShape(files[f]) /\ Backed(files[f])
    BY <2>3, EntryKinds, SecretsAreGiven DEF EntryShape, Backed
  <2>4. ASSUME NEW s \in Secret, NEW n \in {Iterations, EarlyIterations},
               files[f] = Encrypted("v1", s, PeerKey(env, n))
        PROVE  EntryShape(files[f]) /\ Backed(files[f])
    <3>1. PeerKey(env, n)[1] = n
      BY SameKey, KeyRounds
    <3>2. Sealed(files[f]) /\ files[f].kind = "v1"
      BY <2>4, <3>1, EntryKinds, SecretsAreGiven DEF Sealed
    <3> QED
      BY <3>2, EntryKinds DEF EntryShape, Backed
  <2> QED
    BY <2>1, <2>2, <2>3, <2>4 DEF FirstEntries
<1>3. store = Idle /\ answer.result.kind = "none"
  BY DEF SInit, NoAnswer
<1> QED
  BY <1>1, <1>2, <1>3 DEF KeptInv, LostForCause, HeaderIsClean

\* After a step that forgets the last answer.
LEMMA NoAnswerKept ==
  ASSUME answer' = [result |-> NoAnswer, source |-> NoSource]
  PROVE  LostForCause' /\ HeaderIsClean'
BY DEF LostForCause, HeaderIsClean, NoAnswer

LEMMA StoreKept ==
  ASSUME SecretTypes, KeptInv, NEW g \in Files, NEW s \in Secret, StoreSecret(g, s)
  PROVE  KeptInv'
<1>1. /\ UNCHANGED files /\ LostForCause' /\ HeaderIsClean' /\ Given(s)
      /\ Given(keyring.entries[OtherKey]) /\ store = Idle
      /\ \A f \in Files : EntryShape(files[f]) /\ Backed(files[f])
  BY NoAnswerKept, SecretsAreGiven DEF StoreSecret, KeptInv
<1>2. CASE /\ keyring' = [keyring EXCEPT !.entries[Key] = s]
           /\ store' = [file |-> g, entry |-> Reference(Key), secret |-> s]
  <2>1. keyring'.entries[OtherKey] = keyring.entries[OtherKey] /\ keyring'.entries[Key] = s
    BY <1>2, SecretsAreTexts DEF SecretTypes
  <2>2. EntryShape(Reference(Key)) /\ store'.entry = Reference(Key)
    BY <1>2, SecretsAreTexts DEF EntryShape
  <2>3. \A e : Backed(e)'
    BY <1>1, <2>1 DEF Backed
  <2> QED
    BY <1>1, <2>1, <2>2, <2>3 DEF KeptInv, Backed
<1>3. CASE /\ keyring' = keyring
           /\ store' = [file |-> g, entry |-> Encrypted("v2", s, DerivedKey(env, Iterations)), secret |-> s]
  <2>1. Sealed(store'.entry) /\ store'.entry.kind = "v2"
    BY <1>1, <1>3, EntryKinds, KeyRounds DEF Sealed
  <2>2. EntryShape(store'.entry) /\ store'.entry # Reference(Key)
    BY <2>1, EntryKinds DEF EntryShape
  <2> QED
    BY <1>1, <1>3, <2>2 DEF KeptInv, Backed
<1>4. CASE keyring' = keyring /\ store' = store
  BY <1>1, <1>4 DEF KeptInv, Backed
<1> QED
  BY <1>2, <1>3, <1>4 DEF StoreSecret

LEMMA SaveKept == ASSUME SecretTypes, KeptInv, SaveToken PROVE KeptInv'
<1>1. /\ store # Idle /\ store' = Idle /\ keyring' = keyring
      /\ files' = [files EXCEPT ![store.file] = store.entry]
      /\ LostForCause' /\ HeaderIsClean'
  BY NoAnswerKept DEF SaveToken
<1>2. \A f \in Files : files'[f] = files[f] \/ files'[f] = store.entry
  BY <1>1 DEF SecretTypes
<1> QED
  BY <1>1, <1>2 DEF KeptInv, Backed

\* A stored key that is there, and that the environment can open, is found.
LEMMA RequestLoses ==
  ASSUME KeptInv, NEW raw, EntryShape(raw), Backed(raw),
         raw # Absent, Retrieve(raw, env, keyring) = Nothing
  PROVE  \/ raw = Damaged
         \/ raw.kind = "keyring" /\ keyring.state = "gone"
         \/ raw.kind \in {"v1", "v2"} /\ raw.key # PeerKey(env, raw.key[1])
<1>1. CASE \E ref \in Refs : raw = Reference(ref)
  <2>1. raw.kind = "keyring" /\ raw.ref \in Refs /\ raw = Reference(raw.ref)
    BY <1>1, EntryKinds
  <2>2. Given(keyring.entries[raw.ref])
    <3>1. raw.ref = Key \/ raw.ref = OtherKey
      BY <2>1, SecretsAreTexts
    <3>2. CASE raw.ref = Key
      BY <2>1, <3>2 DEF Backed
    <3>3. CASE raw.ref = OtherKey
      BY <3>3 DEF KeptInv
    <3> QED
      BY <3>1, <3>2, <3>3
  <2>3. ~ KeyringHolds(keyring, raw.ref)
    BY <2>1, <2>2 DEF Retrieve, Given
  <2> QED
    BY <2>1, <2>2, <2>3 DEF KeyringHolds, Given
<1>2. CASE raw.kind = "plain" /\ Given(raw.value)
  BY <1>2 DEF Retrieve, Given
<1>3. CASE Sealed(raw)
  <2>1. ~ Opens(raw, env)
    BY <1>3 DEF Retrieve, Sealed, Given
  <2>2. raw.key # PeerKey(env, raw.key[1])
    BY <1>3, <2>1, SameKey DEF Sealed, Opens
  <2> QED
    BY <1>3, <2>2 DEF Sealed
<1> QED
  BY <1>1, <1>2, <1>3 DEF EntryShape

\* What a header is made of.
LEMMA RequestSends ==
  ASSUME NEW raw, NEW s, s = Retrieve(raw, env, keyring), s # Nothing, s.tail # "newline"
  PROVE  /\ raw # Damaged
         /\ (IF raw.kind = "keyring" THEN keyring.entries[raw.ref] ELSE raw.value).tail # "newline"
<1>1. CASE raw.kind = "keyring"
  BY <1>1, EntryKinds DEF Retrieve
<1>2. CASE raw.kind # "keyring"
  BY <1>2, EntryKinds DEF Retrieve, Opens
<1> QED
  BY <1>1, <1>2
\* What a process is given by its flag or its variable, or else reads.
LEMMA RawShape ==
  ASSUME NEW flag \in GivenValues, NEW var \in GivenValues, NEW entry, EntryShape(entry), Backed(entry)
  PROVE  EntryShape(Raw(flag, var, entry)) /\ Backed(Raw(flag, var, entry))
<1>1. ASSUME NEW v \in GivenValues PROVE EntryShape(v) /\ Backed(v)
  <2>1. CASE v = Absent
    BY <2>1, EntryKinds DEF EntryShape, Backed
  <2>2. CASE v = Plain([body |-> "", tail |-> ""])
    <3>1. Given([body |-> "", tail |-> ""])
      BY DEF Given, Nothing, Unset
    <3> QED
      BY <2>2, <3>1, EntryKinds DEF EntryShape, Backed
  <2>3. CASE v \in {Plain(s) : s \in {t \in Secret : t.tail = "newline"}}
    <3>1. PICK s \in Secret : v = Plain(s)
      BY <2>3
    <3> QED
      BY <3>1, EntryKinds, SecretsAreGiven DEF EntryShape, Backed
  <2> QED
    BY <2>1, <2>2, <2>3 DEF GivenValues
<1>2. Raw(flag, var, entry) \in {flag, var, entry}
  BY DEF Raw
<1> QED
  BY <1>1, <1>2

LEMMA RequestKept ==
  ASSUME SecretTypes, KeptInv, NEW g \in Files, Request(g)
  PROVE  KeptInv'
<1>1. UNCHANGED <<env, keyring, files, store>>
  BY DEF Request
<1>2. PICK raw :
        /\ \E flag, var \in GivenValues : raw = Raw(flag, var, files[g])
        /\ answer' = [result |-> Authenticate(raw, env, keyring), source |-> [file |-> g, raw |-> raw]]
  BY DEF Request
<1>3. EntryShape(raw) /\ Backed(raw)
  BY <1>2, RawShape DEF KeptInv
<1> DEFINE s == Retrieve(raw, env, keyring)
           a == Authenticate(raw, env, keyring)
<1>4. answer'.result = a /\ answer'.source.raw = raw
  BY <1>2
<1>5. LostForCause'
  <2> SUFFICES ASSUME a.kind = "undecryptable"
               PROVE  \/ raw = Damaged
                      \/ raw.kind = "keyring" /\ keyring.state = "gone"
                      \/ raw.kind \in {"v1", "v2"} /\ raw.key # PeerKey(env, raw.key[1])
    BY <1>1, <1>4, SameKey DEF LostForCause, DerivedKey, HostName, UserName
  <2>1. raw # Absent /\ s = Nothing
    BY DEF Authenticate
  <2> QED
    BY <1>3, <2>1, RequestLoses
<1>6. HeaderIsClean'
  <2> SUFFICES ASSUME a.kind \in {"header", "passed", "invalid"}
               PROVE  /\ raw # Absent /\ raw # Damaged
                      /\ a.secret.tail = ""
                      /\ (IF raw.kind = "keyring" THEN keyring.entries[raw.ref] ELSE raw.value).tail # "newline"
    BY <1>1, <1>4 DEF HeaderIsClean
  <2>1. raw # Absent /\ s # Nothing /\ s.tail # "newline" /\ a.secret = [s EXCEPT !.tail = ""]
    BY DEF Authenticate
  <2>2. /\ raw # Damaged
        /\ (IF raw.kind = "keyring" THEN keyring.entries[raw.ref] ELSE raw.value).tail # "newline"
    BY <2>1, RequestSends
  <2>3. Given(s)
    <3>1. CASE raw.kind = "keyring"
      <4>1. raw.ref \in Refs
        BY <1>3, <3>1, EntryKinds DEF EntryShape, Sealed
      <4>3. s = keyring.entries[raw.ref]
        BY <2>1, <3>1 DEF Retrieve
      <4>2. s \in Text
        BY <4>1, <4>3 DEF SecretTypes
      <4> QED
        BY <2>1, <4>2 DEF Given, Text
    <3>2. CASE raw.kind # "keyring"
      <4>1. s = raw.value /\ raw.kind \in {"plain", "v1", "v2"}
        BY <2>1, <3>2 DEF Retrieve, Opens
      <4> QED
        BY <1>3, <4>1, EntryKinds DEF EntryShape, Sealed
    <3> QED
      BY <3>1, <3>2
  <2> HIDE DEF s, a
  <2>4. a.secret.tail = ""
    BY <2>1, <2>3 DEF Given
  <2> QED
    BY <2>1, <2>2, <2>4
<1> QED
  BY <1>1, <1>5, <1>6 DEF KeptInv, Backed

\* Every step keeps the invariant.
LEMMA KeptNext == SecretInv /\ KeptInv /\ [SNext]_svars => KeptInv'
<1> SUFFICES ASSUME SecretInv, KeptInv, [SNext]_svars PROVE KeptInv'
  OBVIOUS
<1>0. SecretTypes /\ AnswerShape
  BY DEF SecretInv
<1>1. ASSUME NEW f \in Files, NEW s \in Secret, StoreSecret(f, s) PROVE KeptInv'
  BY <1>0, <1>1, StoreKept
<1>2. CASE SaveToken
  BY <1>0, <1>2, SaveKept
<1>3. CASE LoseToken
  <2>1. /\ UNCHANGED <<env, keyring, files, answer>> /\ store' = Idle
    BY <1>3 DEF LoseToken
  <2> QED
    BY <2>1 DEF KeptInv, Backed, LostForCause, HeaderIsClean, PeerKey, HostName
<1>4. ASSUME NEW f \in Files, Request(f) PROVE KeptInv'
  BY <1>0, <1>4, RequestKept
<1>5. CASE Respond
  <2>1. UNCHANGED <<keyring, files, store>> /\ answer.result.kind = "header"
    BY <1>5 DEF Respond
  <2>2. PICK kind \in {"invalid", "passed"} : answer' = [answer EXCEPT !.result.kind = kind]
    BY <1>5 DEF Respond
  <2>3. /\ answer'.result.secret = answer.result.secret /\ answer'.source = answer.source
        /\ answer'.result.kind = kind
    BY <1>0, <2>2 DEF AnswerShape
  <2>4. LostForCause'
    BY <2>3 DEF LostForCause
  <2>5. HeaderIsClean'
    BY <2>1, <2>3 DEF KeptInv, HeaderIsClean
  <2> QED
    BY <2>1, <2>4, <2>5 DEF KeptInv, Backed
<1>6. CASE Change
  <2>1. UNCHANGED <<files, store>> /\ keyring'.entries = keyring.entries
    BY <1>0, <1>6 DEF Change, SecretTypes
  <2>2. LostForCause' /\ HeaderIsClean'
    BY <1>6, NoAnswerKept DEF Change
  <2> QED
    BY <2>1, <2>2 DEF KeptInv, Backed
<1>7. CASE UNCHANGED svars
  BY <1>7 DEF svars, KeptInv, Backed, LostForCause, HeaderIsClean, PeerKey, HostName
<1> QED
  BY <1>1, <1>2, <1>3, <1>4, <1>5, <1>6, <1>7 DEF SNext

LEMMA KeptInvariant == SSpec => [](SecretInv /\ KeptInv)
BY SecretInit, SecretNext, KeptInit, KeptNext, PTL DEF SSpec

\* For every set of files, secrets and environments: a stored key cannot be
\* recovered only when its text is damaged, when the machine has no keyring, or
\* when the key derived from the host, the user or the passphrase is another one.
THEOREM LossHasCause == SSpec => []LostForCause
<1>1. KeptInv => LostForCause
  BY DEF KeptInv
<1> QED
  BY <1>1, KeptInvariant, PTL

\* For every set of files, secrets and environments: no header is made of a key
\* with a line break, of a damaged entry or where no key is set.
THEOREM HeadersAreClean == SSpec => []HeaderIsClean
<1>1. KeptInv => HeaderIsClean
  BY DEF KeptInv
<1> QED
  BY <1>1, KeptInvariant, PTL
=============================================================================
