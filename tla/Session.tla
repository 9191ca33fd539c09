------------------------------- MODULE Session -------------------------------
(***************************************************************************)
(* What the program keeps of a session: the settings with their profiles   *)
(* (Settings), and the repositories with their authentication scopes       *)
(* (Repositories).  The two share no state; the properties of both are     *)
(* named here for the run and the proofs about them.                       *)
(***************************************************************************)
EXTENDS Settings

CONSTANTS Names, Resources, Credentials, RepositoryMax, ScopeMax, HandEdits  \* Repositories

VARIABLES repos, scopes, file, op, locked, edits, asRead, sent, refused, agreed

repositories == <<repos, scopes, file, op, locked, edits, asRead, sent, refused, agreed>>

Saved == INSTANCE Repositories WITH others <- edits, fresh <- asRead

\* What the constants of Repositories have to be.
ASSUME PartsAssumption == Saved!ConstantsAssumption

\* Loading what was saved gives the repositories and rules of the session.
RestartFindsTheSame == Saved!RestartFindsTheSame

\* A credential goes where a repository, a rule or the user sends it.
CredentialsStayInScope == Saved!CredentialsStayInScope

\* What the server refused is not sent to it again unless the user confirms it
\* or picks it in the form of a repository.
RefusedIsNotRepeated == Saved!RefusedIsNotRepeated

\* What the server refused is sent to it again only after the question.
RefusedNeedsConfirmation == Saved!RefusedNeedsConfirmation
=============================================================================
