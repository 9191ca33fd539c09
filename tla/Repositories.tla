---------------------------- MODULE Repositories ----------------------------
(***************************************************************************)
(* Saved repositories and remembered HTTP authentication scopes, in memory *)
(* and in repositories.toml, and the operations on a resource that need a  *)
(* credential they name (src/config.c, src/location.c, src/ui/http_auth.c  *)
(* and the commands of src/ui/ui.c).                                       *)
(*                                                                         *)
(* A URL is a sequence: the origin, then the segments of its path.  What   *)
(* ends in "/" is a root, and a resource is in a root it extends.  All are *)
(* https, and every credential is in the vault and of a type the server    *)
(* accepts.                                                                *)
(***************************************************************************)
EXTENDS Integers, SequencesExt

CONSTANTS Names,            \* of repositories
          Resources,        \* URLs the user opens
          Credentials,      \* names of credentials in the vault
          RepositoryMax,    \* NAV_REPOSITORY_MAX
          ScopeMax,         \* NAV_AUTH_SCOPE_MAX
          HandEdits,        \* what repositories.toml is edited to
          MaxOthers,        \* edits by hand
          None              \* no credential, no operation, no readable file

VARIABLES
    repos,      \* config.repositories
    scopes,     \* config.auth_scopes
    file,       \* repositories.toml
    op,         \* the operation that goes on, and its provider
    locked,     \* the credential store
    others,     \* edits by hand so far
    fresh,      \* ghost: the file is as it was last read or written
    sent,       \* ghost: <<credential, URL>> of the last requests
    refused,    \* ghost: the credentials the server refused in it
    agreed      \* ghost: how the user agreed to another attempt: "asked" in the dialog,
                \* or by hand in the "form" of a repository, which asks nothing

config == <<repos, scopes, file, fresh>>
operation == <<op, sent, refused>>
vars == <<config, operation, locked, others, agreed>>

Roots == UNION {{SubSeq(u, 1, n) : n \in 1 .. Len(u) - 1} : u \in Resources}
Repository == [name : Names, root : Roots, credential : Credentials \cup {None}]
Scope == [root : Roots, credential : Credentials]
RepositoriesFile == [repos : Seq(Repository), scopes : Seq(Scope)]

\* What the constants have to be.
ConstantsAssumption ==
    /\ \A u \in Resources : Len(u) > 1
    /\ {RepositoryMax, ScopeMax, MaxOthers} \subseteq Nat
    /\ HandEdits \subseteq RepositoriesFile
    /\ None \notin Credentials \cup Resources \cup RepositoriesFile

\* url_is_within_root
Within(url, root) == IsStrictPrefix(root, url)

----------------------------------------------------------------------------
(* repositories.toml *)

\* repository_name_available
Available(list, name, except) == \A i \in DOMAIN list \ {except} : list[i].name # name

\* load_repositories skips what it cannot use, and what is over the limits.
Added(list, r) ==
    IF Available(list, r.name, 0) /\ Len(list) < RepositoryMax THEN Append(list, r) ELSE list

Load(f) ==
    IF f = None THEN [repos |-> <<>>, scopes |-> <<>>]
    ELSE [repos  |-> FoldLeft(Added, <<>>, f.repos),
          scopes |-> SubSeq(f.scopes, 1, IF Len(f.scopes) < ScopeMax THEN Len(f.scopes) ELSE ScopeMax)]

\* nav_config_save_repositories: all of it is replaced, or nothing.
Saved(r, s) == file' = [repos |-> r, scopes |-> s] /\ fresh' = TRUE
NotSaved == UNCHANGED <<file, fresh>>

\* A change that could not be saved is taken back.
Change(new) == \/ repos' = new /\ Saved(new, scopes)
               \/ repos' = repos /\ NotSaved

NoOperation == op = None /\ op' = None /\ sent' = {} /\ refused' = {}

\* command_repository_add
AddRepository ==
    /\ Len(repos) < RepositoryMax
    /\ \E r \in Repository :
         Available(repos, r.name, 0) /\ Change(Append(repos, r))
    /\ agreed' = "no"
    /\ NoOperation
    /\ UNCHANGED <<scopes, locked, others>>

EditRepository ==
    /\ \E i \in DOMAIN repos, r \in Repository :
         Available(repos, r.name, i) /\ Change([repos EXCEPT ![i] = r])
    /\ agreed' = "no"
    /\ NoOperation
    /\ UNCHANGED <<scopes, locked, others>>

RemoveRepository ==
    /\ \E i \in DOMAIN repos : Change(RemoveAt(repos, i))
    /\ agreed' = "no"
    /\ NoOperation
    /\ UNCHANGED <<scopes, locked, others>>

\* Reload, and a template chosen in the Preferences, which keeps the
\* repositories: load_config does not come to repositories.toml when nav.toml
\* has a fault, which does not stop either of them.
Reload ==
    /\ \E read \in BOOLEAN, template \in BOOLEAN :
         LET now == IF read THEN Load(file) ELSE Load(None)
         IN /\ scopes' = now.scopes
            /\ repos' = IF template THEN repos ELSE now.repos
            /\ fresh' = (read /\ (template => fresh))
    /\ agreed' = "no"
    /\ NoOperation
    /\ UNCHANGED <<file, locked, others>>

OthersEdit ==
    /\ others < MaxOthers /\ others' = others + 1
    /\ file' \in HandEdits \ {file} /\ fresh' = FALSE /\ agreed' = "no"
    /\ UNCHANGED <<repos, scopes, operation, locked>>

----------------------------------------------------------------------------
(* Operations *)

Longest(list, url) ==
    LET match == {i \in DOMAIN list : Within(url, list[i].root)}
    IN {i \in match : \A j \in match : Len(list[j].root) < Len(list[i].root)
                         \/ (Len(list[j].root) = Len(list[i].root) /\ i <= j)}

\* nav_location_resolve: the repository with the longest root, if it names a
\* credential; else the scope with the longest root; else that repository, or
\* the origin, without a credential.
Resolve(url) ==
    LET r == Longest(repos, url)
        s == Longest(scopes, url)
    IN IF \E i \in r : repos[i].credential # None
       THEN LET i == CHOOSE i \in r : TRUE
            IN [root |-> repos[i].root, credential |-> repos[i].credential]
       ELSE IF s # {}
       THEN LET i == CHOOSE i \in s : TRUE
            IN [root |-> scopes[i].root, credential |-> scopes[i].credential]
       ELSE [root |-> IF r # {} THEN repos[CHOOSE i \in r : TRUE].root ELSE SubSeq(url, 1, 1),
             credential |-> None]

Open ==
    /\ op = None
    /\ \E url \in Resources :
         op' = [url |-> url, once |-> None, state |-> "request", tried |-> {},
                root |-> Resolve(url).root, credential |-> Resolve(url).credential]
    /\ sent' = {} /\ refused' = {} /\ agreed' = "no"
    /\ UNCHANGED <<config, locked, others>>

\* The request, and those it is redirected to inside the scope.
Requested(url) == Within(url, op.root) /\ op.once \in {None, url}

\* A locked store is not asked for the credential: no request is made.
Request ==
    /\ op # None /\ op.state = "request"
    /\ IF locked /\ op.credential # None
       THEN op' = [op EXCEPT !.state = "needed"] /\ UNCHANGED <<sent, refused>>
       ELSE \E last \in {u \in Resources : Requested(u)} :
              /\ sent' = {<<op.credential, op.url>>, <<op.credential, last>>}
              /\ \/ op' = None /\ refused' = {}
                 \/ op' = [op EXCEPT !.state = "needed"] /\ refused' = refused \cup {op.credential}
    /\ agreed' = "no"
    /\ UNCHANGED <<config, locked, others>>

\* Mutant: only what was chosen here counts as an attempt.
NotNoted == op.tried

\* nav_ui_http_auth_retry opens: what the request was made with is noted.
Noted == IF locked THEN op.tried ELSE op.tried \cup ({op.credential} \ {None})

Ask ==
    /\ op # None /\ op.state = "needed"
    /\ op' = [op EXCEPT !.state = "asking", !.tried = Noted]
    /\ agreed' = "no" /\ sent' = {}
    /\ UNCHANGED <<config, refused, locked, others>>

Unlock ==
    /\ locked
    /\ op # None => op.state = "asking"
    /\ locked' = FALSE /\ agreed' = "no"
    /\ UNCHANGED <<config, operation, others>>

Lock ==
    /\ ~locked /\ op = None
    /\ locked' = TRUE /\ agreed' = "no"
    /\ UNCHANGED <<config, operation, others>>

\* Mutant: the credential is good for all of the root.
NotBound(url) == None

\* nav_http_authentication_retry_provider: for this URL only, whatever is
\* remembered for later operations.
Bound(url) == url

\* The retry with credential c, under the root that was saved for it.  The
\* question whether to repeat an attempt was about the one picked in the dialog.
Retried(picked, c, root) ==
    /\ agreed' = IF c # picked THEN "form" ELSE IF c \in op.tried THEN "asked" ELSE "no"
    /\ op' = [op EXCEPT !.credential = c, !.root = root, !.once = Bound(op.url),
                        !.state = "request", !.tried = @ \cup {c}]

Asking == op # None /\ op.state = "asking" /\ ~locked

\* No provider for the retry, or nothing to retry with: the dialog stays.
DialogStays == agreed' = "no" /\ op' = op

UseOnce ==
    /\ Asking
    /\ \E c \in Credentials : Retried(c, c, op.root)
    /\ UNCHANGED <<config, sent, refused, locked, others>>

\* Mutant: a rule that could not be saved stays.
NotForgotten(new) == new

Forgotten(new) == scopes

\* nav_http_auth_scope_remember: a rule for the same root is replaced.
Remember ==
    /\ Asking
    /\ \E c \in Credentials, root \in {r \in Roots : Within(op.url, r)} :
         LET same == {i \in DOMAIN scopes : scopes[i].root = root}
             rule == [root |-> root, credential |-> c]
             new == IF same = {} THEN Append(scopes, rule)
                    ELSE [scopes EXCEPT ![CHOOSE i \in same : \A j \in same : i <= j] = rule]
         IN /\ Len(new) <= ScopeMax
            /\ \/ scopes' = new /\ Saved(repos, new) /\ (Retried(c, c, root) \/ DialogStays)
               \/ scopes' = Forgotten(new) /\ NotSaved /\ DialogStays
    /\ UNCHANGED <<repos, sent, refused, locked, others>>

\* nav_ui_repository_add_prefilled: the form opens with what was picked in the
\* dialog, and in it any other credential can be chosen for the repository.
AddForRetry ==
    /\ Asking /\ Len(repos) < RepositoryMax
    /\ \E picked \in Credentials, r \in Repository :
         /\ r.credential # None /\ Within(op.url, r.root) /\ Available(repos, r.name, 0)
         /\ \/ /\ repos' = Append(repos, r) /\ Saved(repos', scopes)
               /\ (Retried(picked, r.credential, r.root) \/ DialogStays)
            \/ repos' = repos /\ NotSaved /\ DialogStays
    /\ UNCHANGED <<scopes, sent, refused, locked, others>>

CancelOperation ==
    /\ op # None /\ op.state = "asking"
    /\ op' = None /\ refused' = {} /\ agreed' = "no"
    /\ UNCHANGED <<config, sent, locked, others>>

Init ==
    /\ file \in HandEdits \cup {None}
    /\ repos = Load(file).repos /\ scopes = Load(file).scopes
    /\ op = None /\ sent = {} /\ refused = {}
    /\ locked = TRUE /\ others = 0 /\ fresh = TRUE /\ agreed = "no"

Next ==
    \/ AddRepository \/ EditRepository \/ RemoveRepository \/ Reload \/ OthersEdit
    \/ Open \/ Request \/ Ask \/ Unlock \/ Lock
    \/ UseOnce \/ Remember \/ AddForRetry \/ CancelOperation

Spec == Init /\ [][Next]_vars

----------------------------------------------------------------------------
(* Properties *)

\* A restart finds the repositories and rules the session has, whatever could
\* not be saved, as long as nobody else edits the file.
RestartFindsTheSame == fresh => Load(file) = [repos |-> repos, scopes |-> scopes]

\* A credential goes where a repository or a rule sends it, or to the one
\* URL it was chosen for, however the servers redirect the request.
CredentialsStayInScope ==
    [][\A s \in sent' : s[1] # None /\ sent' # sent =>
         \/ op.once = s[2]
         \/ op.once = None /\ \E r \in Range(repos) \cup Range(scopes) :
                                r.credential = s[1] /\ Within(s[2], r.root)]_vars

\* In one operation no credential the server has refused is sent to it again
\* unless the user confirms that in the dialog, locked and unlocked in any
\* order, or picks it in the form of a repository, which does not ask.
RefusedIsNotRepeated ==
    [][op # None /\ op' # None /\ op.state # "request" /\ op'.state = "request"
         /\ op'.credential \in refused => agreed' # "no"]_vars

\* docs/REMOTE.md:84: "Failed names are marked already attempted; retrying one
\* requires manual confirmation".
RefusedNeedsConfirmation ==
    [][op # None /\ op' # None /\ op.state # "request" /\ op'.state = "request"
         /\ op'.credential \in refused => agreed' = "asked"]_vars
=============================================================================
