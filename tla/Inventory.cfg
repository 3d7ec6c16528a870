\* What the plugin commands report, plan and defer on two instances.
SPECIFICATION ReportsSpec
CONSTANTS
    base = base
    app = app
    niche = niche
    tool = tool
    addon = addon
    default = default
    release = release
    Plugins = {base, app, niche, tool, addon}
    Source = dev
    Target = prod
    MaxVersion = 2
    Unparseable = {}
    ListedIn <- MCListedIn
    DependsOn <- MCDependsOn
    Vendor <- MCVendor
    NoVendor = no_vendor
    Eol <- MCEol
    Cves <- MCCves
    Allowed = {"servicenow"}
    Forbidden = {"outsider"}
    Names = {default, release}
    Clerks = {clerk1, clerk2}
    NoFile = no_file
    Refused = refused
    Damaged = damaged
    Unsure = unsure
    Sessions <- MCSessions
    Listing <- MCListing
    References <- MCReferences
    Queries = {"active", "inactive"}
    Columns = {1, 2, 3}
    MaxPending = 2
    Matches <- MCMatches
    Before <- MCBefore
INVARIANTS
    PromotionConverges
    ReportsAreTrue
    ViewIsTrue
\* A session ends when its budget is spent.
CHECK_DEADLOCK FALSE
