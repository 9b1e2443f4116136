----------------------------- MODULE SiteShell ------------------------------
(***************************************************************************)
(* The account controls of the Header on a public page that runs without   *)
(* the host's own client: siteShellRuntime refreshes who is logged in, the *)
(* cart and the unread notifications one after the other, the panel of the *)
(* notifications loads its list, and a link logs out. Another tab of the   *)
(* browser may change the session at any time; its storage event comes     *)
(* later, and until then answers arrive for either session.                *)
(***************************************************************************)
EXTENDS Naturals, FiniteSets

CONSTANTS Members,      \* members who log in with this browser
          Nobody,       \* no token in the storage
          MaxSignIns,   \* bound on the session changes other tabs make
          MaxRefreshes, \* bound on the refreshes of the shell
          MaxPanelLoads,\* bound on the lists that are asked for
          MaxLogouts    \* bound on the presses of the logout link

ASSUME SiteShellAssumption ==
    /\ Nobody \notin Members
    /\ MaxSignIns \in Nat /\ MaxRefreshes \in Nat \ {0}
    /\ MaxPanelLoads \in Nat /\ MaxLogouts \in Nat

VARIABLES session,      \* auth_token in the storage, and the storage event on its way
          shell,        \* the ShellRuntime and the standalone state it shows
          panel,        \* the notifications panel of the mounted host
          logout,       \* the logout link
          shellCalls    \* requests that wait for an answer

shellVars == <<session, shell, panel, logout, shellCalls>>
-----------------------------------------------------------------------------
Who == Members \cup {Nobody}
Unknown == "unknown"

Session == [token : Who, changes : 0 .. MaxSignIns, announced : BOOLEAN]

\* identity: the session that was last published. cart, count: whose numbers are
\* shown. uncertain: the last refresh did not come to its end.
Shell == [refresh : 0 .. MaxRefreshes, identity : Who, transitions : 0 .. 2 * MaxRefreshes,
          user : Who, cart : Who \cup {Unknown}, count : Who \cup {Unknown},
          uncertain : BOOLEAN]

\* remembered: disclosureState names this panel. list: whose notifications are
\* painted. request 0: none is current.
Panel == [mounted : BOOLEAN, remembered : BOOLEAN, loads : 0 .. MaxPanelLoads,
          request : 0 .. MaxPanelLoads, loading : BOOLEAN,
          list : Who \cup {Unknown}]

Logout == [presses : 0 .. MaxLogouts, pending : 0 .. MaxLogouts]

\* of: the token in the headers. at: the transitions when it was sent.
ShellCall == [kind : {"user", "cart", "unread", "mark", "list", "logout"},
              id : 1 .. MaxRefreshes + MaxPanelLoads + MaxLogouts,
              of : Who, at : 0 .. 2 * MaxRefreshes]

Sent(kind, id) == [kind |-> kind, id |-> id, of |-> session.token, at |-> shell.transitions]
FreshPanel == [mounted |-> FALSE, remembered |-> FALSE, loads |-> 0, request |-> 0,
               loading |-> FALSE, list |-> Unknown]
-----------------------------------------------------------------------------
\* Mutated: the request goes, its button stays disabled.
DisposedSilently(p) == [p EXCEPT !.request = 0]

\* disposeShellNotifications: the list keeps what it shows.
DisposedRequest(p) == [p EXCEPT !.request = 0, !.loading = FALSE]

\* Mutated: only the other parts of the page are told.
TransitionedPanelKept(p) == p

\* transitionSession, as far as the panel goes.
TransitionedPanel(p) == DisposedRequest(p)

\* refreshStandalone: the answers of the refresh before are not current any more.
StartsRefresh(rest) ==
    /\ shell.refresh < MaxRefreshes
    /\ shellCalls' = rest \cup {Sent("user", shell.refresh + 1)}

\* Mutated: whose page it is is not known before the first answer.
LoadedShellUnset == [refresh |-> 1, identity |-> Unknown, transitions |-> 0, user |-> Nobody,
                     cart |-> Unknown, count |-> Unknown, uncertain |-> TRUE]

\* The page is loaded, its controls are mounted, the first refresh is on its way.
LoadedShell == [refresh |-> 1, identity |-> Nobody, transitions |-> 0, user |-> Nobody,
                cart |-> Unknown, count |-> Unknown, uncertain |-> TRUE]
FirstCall(who) == [kind |-> "user", id |-> 1, of |-> who, at |-> 0]

SiteShellInit ==
    \E who \in Who :
        /\ session = [token |-> who, changes |-> 0, announced |-> TRUE]
        /\ shell = LoadedShell
        /\ panel = [FreshPanel EXCEPT !.mounted = TRUE]
        /\ logout = [presses |-> 0, pending |-> 0]
        /\ shellCalls = {FirstCall(who)}
-----------------------------------------------------------------------------
\* Another tab logs in or out.
OtherTabSigns(who) ==
    /\ session.changes < MaxSignIns /\ who # session.token
    /\ session' = [token |-> who, changes |-> session.changes + 1, announced |-> FALSE]
    /\ UNCHANGED <<shell, panel, logout, shellCalls>>

SessionEvent ==
    /\ StartsRefresh(shellCalls)
    /\ shell' = [shell EXCEPT !.refresh = @ + 1, !.transitions = @ + 1, !.uncertain = TRUE]
    /\ panel' = TransitionedPanel(panel)
    /\ UNCHANGED logout

\* storage: the event of the other tab's change arrives.
StorageEvent == /\ ~session.announced /\ session' = [session EXCEPT !.announced = TRUE]
                /\ SessionEvent

\* pageshow: the page comes back from the browser's cache.
PageShown == SessionEvent /\ UNCHANGED session
-----------------------------------------------------------------------------
\* Mutated: an answer is taken while the runtime is the same.
CurrentRefreshAny(c) == TRUE

CurrentRefresh(c) == c.id = shell.refresh

\* publishSession: another member than before is a transition of its own.
Published(s) == IF s.user = s.identity THEN s
                ELSE [s EXCEPT !.identity = s.user, !.transitions = @ + 1]

\* /api/auth/user answers: the state starts anew with the user it names. Nobody is
\* also what is shown after an answer that is not ok.
UserAnswered(c, user) ==
    /\ c \in shellCalls /\ c.kind = "user" /\ user \in {c.of, Nobody}
    /\ IF ~CurrentRefresh(c)
       THEN shellCalls' = shellCalls \ {c} /\ UNCHANGED <<shell, panel>>
       ELSE /\ shell' = Published([shell EXCEPT !.user = user, !.cart = Unknown,
                                                !.count = Unknown,
                                                !.uncertain = user # c.of])
            /\ panel' = IF user = shell.identity THEN panel ELSE TransitionedPanel(panel)
            /\ shellCalls' = (shellCalls \ {c})
                              \cup {[Sent("cart", c.id) EXCEPT !.at = shell'.transitions]}
    /\ UNCHANGED <<session, logout>>

\* cart/count answers, with a number or not ok; only a member has notifications.
CartAnswered(c, ok) ==
    /\ c \in shellCalls /\ c.kind = "cart"
    /\ shellCalls' = (shellCalls \ {c}) \cup
                     (IF CurrentRefresh(c) /\ shell.user # Nobody
                      THEN {Sent("unread", c.id)} ELSE {})
    /\ shell' = IF CurrentRefresh(c) /\ ok THEN [shell EXCEPT !.cart = c.of] ELSE shell
    /\ UNCHANGED <<session, panel, logout>>

UnreadAnswered(c, ok) ==
    /\ c \in shellCalls /\ c.kind = "unread" /\ shellCalls' = shellCalls \ {c}
    /\ shell' = IF CurrentRefresh(c) /\ ok THEN [shell EXCEPT !.count = c.of] ELSE shell
    /\ UNCHANGED <<session, panel, logout>>

\* The request itself fails: the refresh ends, what was shown stays.
RefreshFails(c) ==
    /\ c \in shellCalls /\ c.kind \in {"user", "cart", "unread"}
    /\ shellCalls' = shellCalls \ {c}
    /\ shell' = IF CurrentRefresh(c) /\ c.kind = "user"
                THEN [shell EXCEPT !.uncertain = TRUE] ELSE shell
    /\ UNCHANGED <<session, panel, logout>>
-----------------------------------------------------------------------------
\* loadShellNotifications: one request at a time for a host.
Loads(p, kind) ==
    IF p.request # 0 THEN panel' = p /\ UNCHANGED shellCalls
    ELSE /\ p.loads < MaxPanelLoads
         /\ panel' = [p EXCEPT !.loads = @ + 1, !.request = p.loads + 1, !.loading = TRUE,
                               !.list = Unknown]
         /\ shellCalls' = shellCalls \cup {Sent(kind, p.loads + 1)}

PanelOpened ==
    /\ panel.mounted /\ shell.user # Nobody
    /\ Loads([panel EXCEPT !.remembered = TRUE], "list")
    /\ UNCHANGED <<session, shell, logout>>

PanelClosed ==
    /\ panel.remembered /\ panel' = [panel EXCEPT !.remembered = FALSE]
    /\ UNCHANGED <<session, shell, logout, shellCalls>>

ReadAllPressed ==
    /\ panel.mounted /\ panel.remembered /\ ~panel.loading
    /\ Loads(panel, "mark")
    /\ UNCHANGED <<session, shell, logout>>

\* The host of the page replaces the markup: the request and the pending link are gone.
HostReplaced ==
    /\ panel.mounted
    /\ panel' = [FreshPanel EXCEPT !.remembered = panel.remembered, !.loads = panel.loads]
    /\ logout' = [logout EXCEPT !.pending = 0]
    /\ UNCHANGED <<session, shell, shellCalls>>

\* mountDisclosures: a panel that was open opens again, and loads again. Its button
\* is only there for a member.
HostMounted ==
    /\ ~panel.mounted
    /\ IF panel.remembered /\ shell.user # Nobody
       THEN Loads([panel EXCEPT !.mounted = TRUE], "list")
       ELSE panel' = [panel EXCEPT !.mounted = TRUE] /\ UNCHANGED shellCalls
    /\ UNCHANGED <<session, shell, logout>>

CurrentRequest(c) == c.id = panel.request

\* read-all answers: the badge goes, then the list is loaded with the same headers.
Marked(c) ==
    /\ c \in shellCalls /\ c.kind = "mark"
    /\ shellCalls' = (shellCalls \ {c}) \cup
                     (IF CurrentRequest(c) THEN {[c EXCEPT !.kind = "list"]} ELSE {})
    /\ shell' = IF CurrentRequest(c) THEN [shell EXCEPT !.count = Unknown] ELSE shell
    /\ UNCHANGED <<session, panel, logout>>

ListAnswered(c) ==
    /\ c \in shellCalls /\ c.kind = "list" /\ shellCalls' = shellCalls \ {c}
    /\ panel' = IF ~CurrentRequest(c) THEN panel
                ELSE DisposedRequest([panel EXCEPT !.list = c.of])
    /\ UNCHANGED <<session, shell, logout>>

\* Either request fails: a message in place of the list.
PanelLoadFails(c) ==
    /\ c \in shellCalls /\ c.kind \in {"mark", "list"} /\ shellCalls' = shellCalls \ {c}
    /\ panel' = IF ~CurrentRequest(c) THEN panel
                ELSE DisposedRequest([panel EXCEPT !.list = Unknown])
    /\ UNCHANGED <<session, shell, logout>>
-----------------------------------------------------------------------------
\* The logout link: a link that is pending takes no second press.
LogoutPressed ==
    /\ panel.mounted /\ shell.user # Nobody
    /\ logout.pending = 0 /\ logout.presses < MaxLogouts
    /\ logout' = [logout EXCEPT !.presses = @ + 1, !.pending = logout.presses + 1]
    /\ shellCalls' = shellCalls \cup {Sent("logout", logout.presses + 1)}
    /\ UNCHANGED <<session, shell, panel>>

\* Mutated: the link is asked, the storage is not.
CurrentSessionOfLink(c) == logout.pending = c.id

\* currentSession: the link is still waiting for this answer, for the same token.
CurrentSession(c) == logout.pending = c.id /\ session.token = c.of

Cleared(c) == IF logout.pending = c.id THEN [logout EXCEPT !.pending = 0] ELSE logout

\* The token is removed and the browser goes to the home page: a new document,
\* whose requests are the only ones.
LogoutAnswered(c) ==
    /\ c \in shellCalls /\ c.kind = "logout"
    /\ IF CurrentSession(c)
       THEN /\ session' = [session EXCEPT !.token = Nobody, !.announced = TRUE]
            /\ shell' = LoadedShell
            /\ panel' = [FreshPanel EXCEPT !.mounted = TRUE]
            /\ logout' = [logout EXCEPT !.pending = 0]
            /\ shellCalls' = {FirstCall(Nobody)}
       ELSE /\ logout' = Cleared(c) /\ shellCalls' = shellCalls \ {c}
            /\ UNCHANGED <<session, shell, panel>>

\* An error is written beside the link.
LogoutFails(c) ==
    /\ c \in shellCalls /\ c.kind = "logout" /\ shellCalls' = shellCalls \ {c}
    /\ logout' = Cleared(c)
    /\ UNCHANGED <<session, shell, panel>>
-----------------------------------------------------------------------------
ShellAnswers(c) ==
    \/ \E user \in Who : UserAnswered(c, user)
    \/ \E ok \in BOOLEAN : CartAnswered(c, ok) \/ UnreadAnswered(c, ok)
    \/ RefreshFails(c) \/ Marked(c) \/ ListAnswered(c) \/ PanelLoadFails(c)
    \/ LogoutAnswered(c) \/ LogoutFails(c)

SiteShellNext ==
    \/ \E who \in Who : OtherTabSigns(who)
    \/ StorageEvent \/ PageShown
    \/ PanelOpened \/ PanelClosed \/ ReadAllPressed \/ HostReplaced \/ HostMounted
    \/ LogoutPressed
    \/ \E c \in shellCalls : ShellAnswers(c)

\* Requests end.
SiteShellFairness == WF_shellVars(\E c \in shellCalls : ShellAnswers(c))

SiteShellSpec == SiteShellInit /\ [][SiteShellNext]_shellVars /\ SiteShellFairness
-----------------------------------------------------------------------------
(* Properties *)

\* Every variable keeps its type.
SiteShellTypeOK == /\ session \in Session /\ shell \in Shell /\ panel \in Panel
                   /\ logout \in Logout /\ shellCalls \subseteq ShellCall

\* Once the shell knows of the session the browser has, and its last refresh
\* was answered, it shows that member, and the cart and the unread notifications of
\* nobody else, however the answers of the refreshes before it came in.
ShowsOneAccount ==
    session.announced /\ ~shell.uncertain =>
        /\ shell.user = session.token
        /\ {shell.cart, shell.count} \subseteq {session.token, Unknown}

\* Notifications are painted in the session they were asked for in: an answer that
\* comes after a transition is not shown to the next member.
PaintsForItsSession ==
    [][\A c \in shellCalls :
          ListAnswered(c) /\ panel'.list # panel.list => c.at = shell.transitions]_shellVars

\* Logging out takes away the token it was asked to take away: a late answer does
\* not undo the login of another tab.
LogsOutOneSession ==
    [][session'.token = Nobody /\ session.token # Nobody /\ session'.changes = session.changes
         => \E c \in shellCalls : c.kind = "logout" /\ c.of = session.token]_shellVars

\* The button of the panel and the logout link come back.
ControlsComeBack == /\ []<>(~panel.loading)
                    /\ \A n \in 1 .. MaxLogouts : []<>(logout.pending # n)
=============================================================================
