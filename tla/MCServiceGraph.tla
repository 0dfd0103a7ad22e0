--------------------------- MODULE MCServiceGraph ---------------------------
(***************************************************************************)
(* Eight services that exercise the name rules: variants, a base name and  *)
(* a full name as a dependency, provided names, one service that satisfies *)
(* two dependencies of another, a conflict a service has with its own      *)
(* name, a conflict declared at one end only, a self-dependency, a cycle,  *)
(* and two services of the same name.                                      *)
(***************************************************************************)
EXTENDS ServiceGraph

CONSTANTS postfix, qmail, httpd, proxy, webmail, webmail2, cron, report

Plain(b) == [base |-> b, variant |-> NoVariant]
Full(b, v) == [base |-> b, variant |-> v]

MCService == {postfix, qmail, httpd, proxy, webmail, webmail2, cron, report}
MCNameSet ==
    {Full("smtp", "postfix"), Full("smtp", "qmail"), Full("web", "httpd")}
    \cup {Plain(b) : b \in {"smtp", "web", "http", "ftp", "proxy", "webmail",
                            "cron", "report"}}
MCName == [s \in MCService |->
    CASE s = postfix -> Full("smtp", "postfix")
      [] s = qmail -> Full("smtp", "qmail")
      [] s = httpd -> Full("web", "httpd")
      [] s = proxy -> Plain("proxy")
      [] s \in {webmail, webmail2} -> Plain("webmail")
      [] s = cron -> Plain("cron")
      [] s = report -> Plain("report")]
MCProvides == [s \in MCService |->
    CASE s = httpd -> {Plain("http"), Plain("ftp")}
      [] s = proxy -> {Plain("http")}
      [] OTHER -> {}]
MCDepends == [s \in MCService |->
    CASE s = webmail -> <<Plain("http"), Full("smtp", "qmail"), Plain("ftp")>>
      [] s = webmail2 -> <<Plain("smtp"), Plain("web")>>
      [] s = cron -> <<Plain("cron"), Plain("report")>>
      [] s = report -> <<Plain("cron"), Plain("webmail")>>
      [] OTHER -> <<>>]
MCConflicts == [s \in MCService |->
    CASE s = postfix -> {Plain("smtp")}
      [] s = proxy -> {Plain("web"), Plain("cron")}
      [] OTHER -> {}]
=============================================================================
