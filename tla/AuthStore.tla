----------------------------- MODULE AuthStore -----------------------------
(***************************************************************************)
(* Accounts: the user and token buckets of the settings database           *)
(* (server/auth), the import of accs.db when the web server starts         *)
(* (auth/migrate.go, web/auth/auth.go), the handlers that change accounts  *)
(* (web/api/auth) and the middleware that guards them.                     *)
(*                                                                         *)
(* Every AddUser is a transaction of its own, so the process may die       *)
(* between two of them.  A password is kept as what it verifies: hashing   *)
(* is external.                                                            *)
(***************************************************************************)
EXTENDS Integers, FiniteSets

CONSTANTS
  UserNames, Passwords,
  EmptyName,          \* the user name ""
  EmptyPassword,      \* the password ""
  LongPasswords,      \* passwords bcrypt refuses, over 72 bytes
  LegacyAccounts,     \* contents accs.db may have
  Tokens,             \* shutdown tokens
  ShortTokens,        \* tokens of fewer than 16 characters
  MaxAuthStarts,      \* bound: starts of the web server
  NoUser, NoToken,    \* nothing stored under a name, no token
  NoFile, Unparsable  \* states of accs.db that hold no accounts

\* Contents of accs.db: some names, each with a password.
Maps(S) == UNION {[N -> Passwords] : N \in SUBSET S}

ASSUME AuthAssumption ==
  /\ EmptyName \in UserNames /\ EmptyPassword \in Passwords
  /\ LongPasswords \subseteq Passwords /\ ShortTokens \subseteq Tokens
  /\ LegacyAccounts \subseteq Maps(UserNames)
  /\ {NoFile, Unparsable} \cap Maps(UserNames) = {}
  /\ NoUser \notin Passwords
  /\ MaxAuthStarts \in Nat

VARIABLES
  authInstalled,  \* the configuration of this installation has been chosen
  httpAuth,       \* AuthConfig().HTTPAuth
  accsDB,         \* accs.db: no file, unparsable, or a map of names to passwords
  importable,     \* what accs.db held when the server was first installed
  users,          \* bucket "users"
  token,          \* bucket "secrets", key shutdown_token
  authPhase,      \* where NewRuntimeWithRuntimeState is
  accounts,       \* accounts the import has still to add
  removed,        \* history: names an administrator removed
  failed,         \* history: names whose AddUser failed in an import
  authStarts

authVars == <<authInstalled, httpAuth, accsDB, importable, users, token, authPhase,
              accounts, removed, failed, authStarts>>

AuthInit ==
  /\ authInstalled = FALSE /\ httpAuth = FALSE
  /\ accsDB = NoFile /\ importable = {}
  /\ users = [n \in UserNames |-> NoUser]
  /\ token = NoToken
  /\ authPhase = "down" /\ accounts = {} /\ authStarts = 0
  /\ removed = {} /\ failed = {}

\* What an older version left behind.
Install ==
  /\ ~authInstalled
  /\ authInstalled' = TRUE
  /\ httpAuth' \in BOOLEAN
  /\ accsDB' \in LegacyAccounts \cup {NoFile, Unparsable}
  /\ importable' = IF accsDB' \in LegacyAccounts THEN DOMAIN accsDB' ELSE {}
  /\ UNCHANGED <<users, token, authPhase, accounts, removed, failed, authStarts>>

userCount == Cardinality({n \in UserNames : users[n] # NoUser})

-----------------------------------------------------------------------------
(* The store.                                                              *)

\* The checks of AddUser before its transaction and in it.
mayAdd(n, p) == n # EmptyName /\ p # EmptyPassword /\ p \notin LongPasswords

AddUser(n, p) ==
  users' = IF mayAdd(n, p) /\ users[n] = NoUser THEN [users EXCEPT ![n] = p] ELSE users

VerifyPassword(n, p) == users[n] # NoUser /\ users[n] = p

-----------------------------------------------------------------------------
(* NewRuntimeWithRuntimeState.                                             *)

\* Without a database there is no store and authentication is off.
StartWithoutStore ==
  /\ authInstalled /\ authPhase = "down" /\ authStarts < MaxAuthStarts
  /\ authPhase' = "noStore"
  /\ authStarts' = authStarts + 1
  /\ UNCHANGED <<authInstalled, httpAuth, accsDB, importable, users, token, accounts,
                 removed, failed>>

\* MigrateFromAccsDB up to its loop.  Accounts in the store mean there is nothing to
\* import; so does a file that cannot be parsed or is empty, which stays.
StartMigration ==
  /\ authInstalled /\ authPhase = "down" /\ authStarts < MaxAuthStarts
  /\ authStarts' = authStarts + 1
  /\ IF accsDB \in {NoFile, Unparsable} \/ userCount > 0 \/ DOMAIN accsDB = {}
       THEN authPhase' = "token" /\ UNCHANGED accounts
       ELSE authPhase' = "import" /\ accounts' = DOMAIN accsDB
  /\ UNCHANGED <<authInstalled, httpAuth, accsDB, importable, users, token, removed, failed>>

\* One round of the loop, in the order of the map.  A transaction may fail, and an
\* account that cannot be added is only counted.
ImportOne ==
  /\ authPhase = "import"
  /\ \E n \in accounts :
       /\ accounts' = accounts \ {n}
       /\ \/ /\ AddUser(n, accsDB[n])
             /\ failed' = IF mayAdd(n, accsDB[n]) THEN failed ELSE failed \cup {n}
          \/ UNCHANGED users /\ failed' = failed \cup {n}
  /\ UNCHANGED <<authInstalled, httpAuth, accsDB, importable, token, authPhase, removed,
                 authStarts>>

\* Mutant: the file goes as soon as the first account has been added.
RemoveLegacyFile_early ==
  /\ authPhase = "import" /\ userCount > 0
  /\ \/ accsDB' = NoFile /\ accounts' = {}
     \/ UNCHANGED <<accsDB, accounts>>
  /\ authPhase' = "token"
  /\ UNCHANGED <<authInstalled, httpAuth, importable, users, token, removed, failed,
                 authStarts>>

\* os.Remove of accs.db may fail, which is only logged.
RemoveLegacyFile ==
  /\ authPhase = "import" /\ accounts = {}
  /\ accsDB' \in {NoFile, accsDB}
  /\ authPhase' = "token"
  /\ UNCHANGED <<authInstalled, httpAuth, importable, users, token, accounts,
                 removed, failed, authStarts>>

\* EnsureDefaultToken; an error is logged and the server starts all the same.
EnsureDefaultToken ==
  /\ authPhase = "token"
  /\ authPhase' = "serving"
  /\ \/ token = NoToken /\ token' \in Tokens \ ShortTokens
     \/ UNCHANGED token
  /\ UNCHANGED <<authInstalled, httpAuth, accsDB, importable, users, accounts,
                 removed, failed, authStarts>>

-----------------------------------------------------------------------------
(* Requests.                                                               *)

runtimeEnabled == authPhase = "serving" /\ httpAuth

\* parseBasicAuth and BasicAuthMiddleware: a header that verifies names its user.
authUser(header) ==
  IF header # <<>> /\ VerifyPassword(header[1], header[2]) THEN {header[1]} ELSE {}

\* CheckAuth.
Allowed(header) == ~runtimeEnabled \/ authUser(header) # {}

Headers == (UserNames \X Passwords) \cup {<<>>}

\* The handlers of web/api/auth: without a store they answer 503.
HandleAddUser(n, p) ==
  /\ authPhase = "serving"
  /\ n # EmptyName /\ p # EmptyPassword           \* binding:"required"
  /\ AddUser(n, p)
  /\ UNCHANGED <<token, removed>>

HandleRemoveUser(n) ==
  /\ authPhase = "serving"
  /\ users[n] # NoUser
  /\ users' = [users EXCEPT ![n] = NoUser]
  /\ removed' = removed \cup {n}
  /\ UNCHANGED token

\* A token of the caller's, or one that generateShutdownToken makes up.
HandleSetToken(t) ==
  /\ authPhase = "serving"
  /\ t \notin ShortTokens                         \* binding:"min=16"
  /\ token' = t
  /\ UNCHANGED <<users, removed>>

AuthRequest ==
  /\ \E header \in Headers :
       /\ Allowed(header)
       /\ \/ \E n \in UserNames, p \in Passwords : HandleAddUser(n, p)
          \/ \E n \in UserNames : HandleRemoveUser(n)
          \/ \E t \in Tokens : HandleSetToken(t)
  /\ UNCHANGED <<authInstalled, httpAuth, accsDB, importable, authPhase, accounts, failed,
                 authStarts>>

\* The process stops or dies.
AuthDown ==
  /\ authPhase # "down"
  /\ authPhase' = "down" /\ accounts' = {}
  /\ UNCHANGED <<authInstalled, httpAuth, accsDB, importable, users, token, removed, failed,
                 authStarts>>

AuthNext ==
  \/ Install
  \/ StartWithoutStore \/ StartMigration
  \/ ImportOne \/ RemoveLegacyFile \/ EnsureDefaultToken
  \/ AuthRequest
  \/ AuthDown

AuthSpec == AuthInit /\ [][AuthNext]_authVars

AuthTypeOK ==
  /\ accsDB \in Maps(UserNames) \cup {NoFile, Unparsable}
  /\ users \in [UserNames -> Passwords \cup {NoUser}]
  /\ accounts \subseteq UserNames
  /\ authPhase \in {"down", "noStore", "import", "token", "serving"}

-----------------------------------------------------------------------------
\* accs.db goes only at the end of an import that has come to every account in it: when
\* the file is gone, each of them is in the store, or AddUser failed for it, or an
\* administrator has removed it, however often the process died between two
\* transactions and started again (auth/migrate.go:63-80).
FileOutlivesImport ==
  accsDB = NoFile => \A n \in importable \ (removed \cup failed) : users[n] # NoUser

\* "After successful migration, the old accs.db file is deleted." (auth/migrate.go:18):
\* when the file is gone, every account it had has been added.
DeletedWhenMigrated ==
  accsDB = NoFile => \A n \in importable \ removed : users[n] # NoUser

\* "Check if BBolt already has users (already migrated)" (auth/migrate.go:27): a server
\* that serves has every account of accs.db whose AddUser did not fail and that nobody
\* removed.
MigratedWhenServing ==
  authPhase = "serving" => \A n \in importable \ (removed \cup failed) : users[n] # NoUser
=============================================================================
