CONSTANTS
  Images = {}
  MaxLaunches = 2
SPECIFICATION FairSpec
PROPERTIES
  ClicksAreHandled
  HostedViewsAppear
  RequestsAreFollowed
