--------------------------- MODULE MCAuthSession ---------------------------
(* Ann has two sessions at the start, one of them possibly this tab's; Bob    *)
(* has signed up and not verified his address yet; Cyd can sign in.           *)
EXTENDS AuthSession
CONSTANTS ann, bob, cyd
MCOwners == <<ann, ann>>
MCMenus == {{"me", "login", "logout", "retry"},
            {"me", "verify", "delete"},
            {"sessions", "revoke", "verify"},
            {"profile", "login"},
            {"register", "prefs"},
            {"password", "read"}, {"email", "resend"},
            {"confirm", "reset"}, {"forgot", "accept"}}
=============================================================================
