SPECIFICATION WebhooksSpec
CONSTANTS
    ann = ann
    bo = bo
    cy = cy
    app = app
    ci = ci
    core = core
    other = other
    c = c
    Nobody = Nobody
    NoComment = NoComment
    NoSubscription = NoSubscription
    Accounts = {ann, bo, cy, app, ci}
    Users = {ann, bo}
    Apps = {app}
    BotNamed = {ci}
    Logins = {"ann", "bo", "gone"}
    HolderOf <- MCHolderOf
    Teams = {core, other}
    TeamMembers <- MCTeamMembers
    OwnTeams = {core}
    Comments = {c}
    AuthorOf <- MCAuthorOf
    Worlds <- MCWorlds
    toAnn = toAnn
    toBo = toBo
    NoRow = NoRow
    Messages <- MCMessages
    Reader <- MCReader
    TeamOf <- MCTeamOf
    KeepsRequest = {bo}
    Events <- MCEvents
    Scenarios <- StrikeScenario
    CommentIds <- MCCommentIds
    AskedTeams <- MCTeams
    Reviewers <- MCReviewers
    Digests <- MCDigests
INVARIANT StrikeLands
CHECK_DEADLOCK FALSE
