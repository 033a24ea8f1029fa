--------------------------- MODULE MC_SmtpSession ---------------------------
(* Small instances of SmtpSession: settings that keep intolerant set, as a *)
(* new database has it, and settings between which it, external-tls and    *)
(* the authentication mode change while a session runs.                    *)
EXTENDS SmtpSession

Intolerant == [intolerant : {TRUE}, externaltls : {TRUE},
               externalauthmode : AuthMode]

With(i, tls, mode) ==
  [intolerant |-> i, externaltls |-> tls, externalauthmode |-> mode]

Changing == {With(FALSE, TRUE, "ProxyAuth"), With(TRUE, FALSE, "InternalAuth")}
=============================================================================
