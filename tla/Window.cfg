CONSTANTS
  dash = dash
  cpu = cpu
  services = services
  alerts = alerts
  m1 = m1
  NoPage = NoPage
  NoMessage = NoMessage
  Pages <- MCPages
  Domains <- MCDomains
  DomainsOf <- MCDomainsOf
  Suspends <- MCSuspends
  Dashboard = dash
  Refreshing <- MCRefreshing
  Messages <- MCMessages
  BannerTime = 1
  MaxSamples = 2
SPECIFICATION Spec
INVARIANTS
  Consistent
  EntryIsCurrent
PROPERTIES
  BannerGetsItsTime
